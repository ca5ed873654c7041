SPECIFICATION Spec
CONSTANTS
    NumFiles = 3
    Sizes = {2, 4, 9}
    ExtraLines = 1
    Header = 1
    PromptSizes = {1, 11}
    MaxTokens = 12
    Delta = 0
    Soft = 4
    Hard = 2
    Excess = 1
    MaxCalls = 2
INVARIANTS
    TypeOK
    BudgetKept
    CallsBounded
    LeftoverTooLarge
    EveryFileAccountedFor
CHECK_DEADLOCK FALSE
