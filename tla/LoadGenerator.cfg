SPECIFICATION FairSpec
CONSTANTS
    Numbers = {0, 1, 2, 3, 4, 5, 6, 8, 10}
    NaN = NaN
INVARIANTS
    TypeOK
    AllSent
    NeverMore
PROPERTIES
    Terminates
CHECK_DEADLOCK FALSE
