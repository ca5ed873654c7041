SPECIFICATION Spec
CONSTANTS
    Runs = {r1, r2}
    Workers = {w1}
    Outcomes = {"table", "none"}
    FaultSets = {{}}
    HistoryLens = {2}
    None = None
INVARIANT ImproveCommentIsPersistent
CHECK_DEADLOCK FALSE
