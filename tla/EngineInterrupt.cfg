SPECIFICATION Spec
CONSTANTS
    X = X
    Y = Y
    a = a
    b = b
    oops = oops
    NoTerm = NoTerm
    PermissionError = PermissionError
    Names <- MCNames
    Consts <- MCConsts
    Goals <- InterruptGoals
    Programs <- InterruptPrograms
    Queries <- OneQuery
    Caps = {0}
    Dynamic = {}
    MaxDepth = 5
    MayCancel = TRUE
    Values <- MCConsts
    DefiniteGoals <- DefiniteInterrupt
    Interpretations <- LeastModel
INVARIANTS
    CutOffIsSignalled
PROPERTIES
    HardErrorsSurface
    Termination
