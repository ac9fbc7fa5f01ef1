SPECIFICATION Spec
CONSTANTS
    weights = weights
    config = config
    Path = {weights, config}
    Lfs = {weights}
    MaxAttempts = 2
    NoJob = NoJob
INVARIANT TypeOK
INVARIANT EveryJobSaves
INVARIANT PoisonPill
PROPERTY RetryBudgetNeverRefunded
PROPERTY StatusNeverReverts
