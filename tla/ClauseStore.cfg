\* Two runs with up to two mutations each, up to two nested clause loops.
CONSTANTS
    p = p
    q = q
    s = s
    Clause <- MCClause
    Dynamic <- MCDynamic
    Bases <- MCBases
    Spares <- MCSpares
    MaxRuns = 2
    MaxMutations = 2
    MaxLoops = 2
SPECIFICATION Spec
INVARIANTS
    TypeOK
    AuditReplays
    KeptAuditStays
PROPERTIES
    LogicalUpdateView
CHECK_DEADLOCK FALSE
