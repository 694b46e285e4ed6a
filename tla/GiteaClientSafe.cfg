\* Three goroutines.
CONSTANTS
    Callers = {c1, c2, c3}
    Nobody = Nobody
SPECIFICATION FairSpec
INVARIANTS
    TypeOK
    OneInstance
PROPERTIES
    DecidedOnce
    AllTold
