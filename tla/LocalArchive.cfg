SPECIFICATION DiligentSpec
CONSTANTS
    weights = weights
    config = config
    Path = {weights, config}
    Lfs = {weights}
    MaxRev = 2
    SameSize = {weights}
    NoObject = NoObject
    NoScan = NoScan
    NoPlan = NoPlan
INVARIANT TypeOK
INVARIANT NothingLost
INVARIANT PulledIsHeld
PROPERTY ReclaimKeepsACopy
PROPERTY PullsComplete
CHECK_DEADLOCK FALSE
