SPECIFICATION FairSpec
CONSTANTS
    repo1 = repo1
    Repo = {repo1}
    MaxRev = 2
    NoJob = NoJob
    NoPoll = NoPoll
PROPERTY CorrectedConfigRetries
