SPECIFICATION Spec
CONSTANTS
    NumEvents = 3
    PRs = {p1}
    Workers = {w1}
    Senders = {alice, bot}
    IgnoredSenders = {bot}
    BacklogSettings = {TRUE}
INVARIANT
    DiscardedPushIsProcessed
CHECK_DEADLOCK FALSE
