\* A clause whose body breaks off at its full stop, before two more.
SPECIFICATION Spec
CONSTANTS
    AtomName <- MCAtomName
    VarNames <- MCVarNames
    IntOf <- MCIntOf
    FloatOf <- MCFloatOf
    Calls <- BrokenCalls
    Values <- MCValues
    MaxAnswers = 2
INVARIANTS
    OnlyOffendersAreLost
