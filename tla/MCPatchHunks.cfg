SPECIFICATION Spec
CONSTANTS
    MaxLines = 6
    Context = 1
    Befores = {0, 3}
    Afters = {0, 1, 2}
    Dynamics = {0, 4}
    Questions <- SomeQuestions
INVARIANTS
    TypeOK
    ExtendedIsFaithful
    AdditionsAreNumbered
    SelectedIsAsked
CHECK_DEADLOCK FALSE
