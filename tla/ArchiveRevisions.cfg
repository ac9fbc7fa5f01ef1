SPECIFICATION Spec
CONSTANTS
    weights = weights
    config = config
    run1 = run1
    run2 = run2
    Path = {weights}
    Lfs = {weights}
    MaxAttempts = 1
    NoJob = NoJob
    Run = {run1, run2}
    Sweeper = Sweeper
    Queued = Queued
    MaxRev = 2
    SameSize = {weights}
    NoObject = NoObject
    NoRun = NoRun
    NoSweep = NoSweep
INVARIANT TypeOK
INVARIANT VerifiedHasEvidence
INVARIANT WritersNeverRaise
INVARIANT HeadIsSound
PROPERTY KeepsPromise
CHECK_DEADLOCK FALSE
