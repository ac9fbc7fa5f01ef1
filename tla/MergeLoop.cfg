SPECIFICATION Spec
CONSTANTS
    weights = weights
    config = config
    Path = {weights, config}
    Lfs = {weights}
    MaxAttempts = 1
    NoJob = NoJob
INVARIANT LoopComputesOutcome
INVARIANT MergeNeverRaises
CHECK_DEADLOCK FALSE
