SPECIFICATION FairSpec
CONSTANTS
    p = p
    q = q
    d1 = d1
    d2 = d2
    g = g
    Peer = {p, q}
    Env = {d1, g}
    Members <- MCMembers
    DirectEnv <- MCDirectEnv
    COMMAND_CAP = 1
    MAX_PENDING_PER_PEER = 1
    FLUSH_LIMIT = 1
    MaxConns = 2
    MaxCloses = 1
    MaxCrashes = 1
    MaxPrunes = 1
INVARIANTS
    TypeOK
    NothingVanishes
    TablesAgree
PROPERTIES EventuallyResolved
CHECK_DEADLOCK FALSE
