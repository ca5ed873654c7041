SPECIFICATION Spec
CONSTANTS
    Runs = {r1, r2, r3}
    Workers = {w1, w2}
    Outcomes = {"table", "ticked", "plain", "none", "error"}
    FaultSets = {{}, {"refused"}, {"unsent"}, {"unanswered"}}
    HistoryLens = {0, 1}
    None = None
SYMMETRY Symmetry
INVARIANTS
    TypeOK
    OneCommentShowsTheLast
    HistoryInOrder
    NoTableVanishes
    ProgressCleared
CHECK_DEADLOCK FALSE
