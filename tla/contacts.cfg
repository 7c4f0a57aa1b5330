SPECIFICATION Spec
CONSTANTS
    Node = {a, b}
    Attempt = {t1, t2}
    NONE = NONE
    MaxActs = 1
    MaxFaults = 1
SYMMETRY Symmetry
INVARIANTS
    TypeOK
    
    OneDirectChat
    ChatIsShared
PROPERTIES
    TrustIsTheUsers
CHECK_DEADLOCK FALSE
