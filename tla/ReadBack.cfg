\* A clause with a bracketed conjunction for a list element.
SPECIFICATION Spec
CONSTANTS
    AtomName <- MCAtomName
    VarNames <- MCVarNames
    IntOf <- MCIntOf
    FloatOf <- MCFloatOf
    Calls <- ListCalls
    Values <- MCValues
    MaxAnswers = 2
INVARIANTS
    ReadsBack
