\* Answers of up to two rows, some of which leave a variable free.
SPECIFICATION Spec
CONSTANTS
    AtomName <- MCAtomName
    VarNames <- MCVarNames
    IntOf <- MCIntOf
    FloatOf <- MCFloatOf
    Calls <- AnswerCalls
    Values <- MCValues
    MaxAnswers = 2
PROPERTIES
    InstantiateReturns
