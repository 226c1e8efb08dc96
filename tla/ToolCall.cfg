\* Every one-lexeme edit of five sentences and every text of three lexemes,
\* before two more clauses; answers of up to two rows.
SPECIFICATION Spec
CONSTANTS
    AtomName <- MCAtomName
    VarNames <- MCVarNames
    IntOf <- MCIntOf
    FloatOf <- MCFloatOf
    Calls <- MCCalls
    Values <- MCValues
    MaxAnswers = 2
INVARIANTS
    ReaderFollowsGrammar
    UnclosedCallCostsOneClause
    BracketsSuffice
    RowsAnswer
PROPERTIES
    ReaderAdvances
    CallReturns
