SPECIFICATION Spec
CONSTANTS
    PRs <- MCPRs
    NumRequests = 3
    Deployments <- MCDeployments
    MaxCommits = 3
    MaxEdits = 1
    UserTexts <- MCTexts
    MaxScan = 1
    MaxParallel = 0
INVARIANTS
    ServiceTypeOK
    SettingsIsolated
    UserWorkKept
    ReviewMissesNothing
    ProgressCleared
    CommentStartedOnce
PROPERTIES
    MosaicoIsQuiet
    OptionsPrecedence
    EveryRequestEnds
CHECK_DEADLOCK FALSE
