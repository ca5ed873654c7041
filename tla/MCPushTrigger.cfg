SPECIFICATION FairSpec
CONSTANTS
    NumEvents = 4
    PRs = {p1}
    Workers = {w1, w2}
    Senders = {alice, bot}
    IgnoredSenders = {bot}
    BacklogSettings = {TRUE}
INVARIANTS
    TypeOK
    CounterMatchesTasks
    DiscardedPushIsDelegated
PROPERTIES
    ImplementsDelegate
    EveryTakenPushIsAttempted
CHECK_DEADLOCK FALSE
