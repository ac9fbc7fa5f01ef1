SPECIFICATION UnattendedSpec
CONSTANTS
    weights = weights
    config = config
    run1 = run1
    run2 = run2
    Path = {weights}
    Lfs = {weights}
    MaxAttempts = 1
    NoJob = NoJob
    Run = {run1}
    Sweeper = Sweeper
    Queued = Queued
    MaxRev = 2
    SameSize = {weights}
    NoObject = NoObject
    NoRun = NoRun
    NoSweep = NoSweep
PROPERTY ChargedForOwnRevision
CHECK_DEADLOCK FALSE
