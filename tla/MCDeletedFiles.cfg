SPECIFICATION Spec
CONSTANTS
    NumFiles = 2
    Sizes = {2, 4, 9}
    ExtraLines = 1
    Header = 1
    PromptSizes = {1}
    MaxTokens = 12
    Delta = 0
    Soft = 4
    Hard = 2
    Excess = 1
    MaxCalls = 2
INVARIANT
    DeletedFilesListed
CHECK_DEADLOCK FALSE
