\* A body that negates through a predicate that is not tabled.
CONSTANTS
    a = a
    b = b
    c = c
    Atoms <- AB
    Programs <- NafPrograms
    IterCap = 3
    MaxRuns = 1
SPECIFICATION Spec
INVARIANTS
    ModelIsWellFounded
