SPECIFICATION Spec
CONSTANTS
    weights = weights
    config = config
    Path = {weights, config}
    Lfs = {weights}
    MaxRev = 2
    SameSize = {weights}
    NoObject = NoObject
    NoScan = NoScan
    NoPlan = NoPlan
INVARIANT DeletionsAreSafe
CHECK_DEADLOCK FALSE
