SPECIFICATION ConvergenceSpec
CONSTANTS
    weights = weights
    run1 = run1
    run2 = run2
    Path = {weights}
    Lfs = {weights}
    MaxAttempts = 1
    NoJob = NoJob
    Run = {run1, run2}
    Sweeper = Sweeper
    Queued = Queued
    MaxRev = 1
    SameSize = {weights}
    NoObject = NoObject
    NoRun = NoRun
    NoSweep = NoSweep
PROPERTY Converges
CHECK_DEADLOCK FALSE
