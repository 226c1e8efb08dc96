\* A query that negates an atom the grounding never met.
CONSTANTS
    a = a
    b = b
    c = c
    Atoms <- ABC
    Programs <- FewPrograms
    IterCap = 3
    MaxRuns = 1
SPECIFICATION Spec
INVARIANTS
    FalseAtomsAreRefuted
