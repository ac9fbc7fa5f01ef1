SPECIFICATION FairSpec
CONSTANTS
    repo1 = repo1
    repo2 = repo2
    Repo = {repo1, repo2}
    MaxRev = 2
    NoJob = NoJob
    NoPoll = NoPoll
INVARIANT TypeOK
INVARIANT SeenIsPlanned
INVARIANT DispatchFollowsPush
PROPERTY ProgressSurvivesPolls
PROPERTY CatchesUp
