SPECIFICATION Spec
CONSTANTS
    X = X
    Y = Y
    a = a
    b = b
    oops = oops
    NoTerm = NoTerm
    PermissionError = PermissionError
    Names <- MCNames
    Consts <- MCConsts
    Goals <- AllGoals
    Programs <- AllPrograms
    Queries <- ControlQueries
    Caps = {0, 2}
    Dynamic <- MCDynamic
    MaxDepth = 100
    MayCancel = FALSE
    Values <- MCConsts
    DefiniteGoals <- DefiniteAll
    Interpretations <- LeastModel
INVARIANTS
    TypeOK
    StopsReachTheirProbe
    HandlesExact
    CommitsOwned
    TrailSound
    AnswersAgree
    DatabaseAudited
    RenamedApart
    AnswersTrue
    CapEndsTheRun
    SolutionsFound
PROPERTIES
    HandlesKeepTheirBindings
