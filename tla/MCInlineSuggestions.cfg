SPECIFICATION Spec
CONSTANTS
    NumSuggestions = 2
    Starts = {0, 1, 2, 3, 4, 5, 6, 7}
    Lengths = {0, 1, 3, 5}
    HunkSets <- SomeHunks
    Near = 3
    FaultSets = {{}, {"unsent"}, {"unsent", "unanswered"}}
INVARIANTS
    TypeOK
    MovedIsAccepted
    AcceptedIsPosted
    PostedOnce
    RejectedIsShown
    NoPendingReview
CHECK_DEADLOCK FALSE
