SPECIFICATION FairSpec
CONSTANTS
    NumCommands = 2
    NumModels = 2
    MaxChunks = 2
    Retries = 2
    Requests <- SomeRequests
    FallbackCounts = {1}
INVARIANT CallsArePaired
CHECK_DEADLOCK FALSE
