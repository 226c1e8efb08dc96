SPECIFICATION Spec
CONSTANTS
    X = X
    Y = Y
    a = a
    b = b
    oops = oops
    NoTerm = NoTerm
    PermissionError = PermissionError
    Names <- MCNames
    Consts <- MCConsts
    Goals <- ControlGoals
    Programs <- ControlPrograms
    Queries <- ControlQueries
    Caps = {0, 2}
    Dynamic = {}
    MaxDepth = 100
    MayCancel = FALSE
    Values <- MCConsts
    DefiniteGoals <- DefiniteControl
    Interpretations <- LeastModel
INVARIANTS
    AnswersAlwaysAgree
