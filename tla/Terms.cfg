\* Queries over the library, the builtins and a program of seven facts.
SPECIFICATION Spec
CONSTANTS
    NameRank <- MCNameRank
    Spelling <- MCSpelling
    CodeOf <- MCCodeOf
    NumberOf <- MCNumberOf
    Queries <- MCQueries
INVARIANTS
    AnswersAreTheInstances
    StoreSound
    CollectsAllSolutions
    CopiesAreFresh
