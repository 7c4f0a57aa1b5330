SPECIFICATION Spec
CONSTANTS
    Group = {g1, g2}
    Kind = {"small", "big"}
    NONE = NONE
    PAGE = 1
    EVENT_CAP = 2
    MaxKept = 2
    MaxInbound = 1
    MaxFaults = 1
    MaxActs = 2
    MaxReq = 2
SYMMETRY Symmetry
INVARIANTS
    TypeOK
    
    
    NothingOrphaned
CHECK_DEADLOCK FALSE
