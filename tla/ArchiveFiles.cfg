SPECIFICATION UnattendedSpec
CONSTANTS
    weights = weights
    config = config
    run1 = run1
    run2 = run2
    Path = {weights, config}
    Lfs = {weights}
    MaxAttempts = 1
    NoJob = NoJob
    Run = {run1}
    Sweeper = Sweeper
    Queued = Queued
    MaxRev = 1
    SameSize = {weights, config}
    NoObject = NoObject
    NoRun = NoRun
    NoSweep = NoSweep
INVARIANT VerifiedHasEvidence
INVARIANT WritersNeverRaise
INVARIANT HeadIsSound
PROPERTY KeepsPromise
CHECK_DEADLOCK FALSE
