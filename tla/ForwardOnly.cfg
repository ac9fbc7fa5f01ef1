SPECIFICATION Spec
CONSTANTS
    m1 = m1
    m2 = m2
    Repo = {m1, m2}
    MaxRev = 2
    Revised = {m2}
    SameSize = {m1}
    NoObject = NoObject
    NoJob = NoJob
    NoRun = NoRun
    NoSweep = NoSweep
CHECK_DEADLOCK FALSE
PROPERTY ForwardOnly
