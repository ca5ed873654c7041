SPECIFICATION FairSpec
CONSTANTS
    NumCommands = 2
    NumModels = 3
    MaxChunks = 2
    Retries = 2
    Requests <- SomeRequests
    FallbackCounts = {1, 2}
INVARIANTS
    TypeOK
    AnswerIsWhole
    RaisedAfterEveryModel
    OneCallAtATime
    SequentialCallsArePaired
PROPERTY EveryCallEnds
CHECK_DEADLOCK FALSE
