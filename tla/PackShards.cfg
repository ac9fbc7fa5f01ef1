SPECIFICATION Spec
CONSTANTS
    File = {1, 2, 3, 4, 5}
    MaxSize = 4
    TargetBytes = 6
    MaxShards = 3
INVARIANT TypeOK
INVARIANT EachFileOnce
INVARIANT Balanced
INVARIANT NearTarget
INVARIANT NearOptimal
CHECK_DEADLOCK FALSE
