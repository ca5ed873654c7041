SPECIFICATION Spec
CONSTANTS
    NumSuggestions = 1
    Starts = {0, 1, 2, 3, 4, 5, 6, 7}
    Lengths = {0, 1, 3, 5}
    HunkSets <- SomeHunks
    Near = 3
    FaultSets = {{}, {"unsent"}, {"unsent", "unanswered"}}
INVARIANT
    InsideIsPosted
CHECK_DEADLOCK FALSE
