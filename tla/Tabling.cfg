\* Two queries on one machine, either of which may be interrupted or may run out
\* of a budget that is smaller than the longest chain: all programs over two
\* atoms with one rule each of at most two literals or with two rules each of at
\* most one, over three atoms with two rules for one of them and one for each
\* other, and the games on three positions.
CONSTANTS
    a = a
    b = b
    c = c
    Atoms <- ABC
    Programs <- PlainPrograms
    IterCap = 2
    MaxRuns = 2
SPECIFICATION Spec
INVARIANTS
    TypeOK
    GrowsInsidePhi
    LowerBound
    ModelIsAlternatingFixpoint
    ModelIsWellFounded
    AnswersFollowModel
    WithinBudget
PROPERTIES
    GroundingEnds
