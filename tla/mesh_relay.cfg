SPECIFICATION Spec
CONSTANTS
    a = a
    b = b
    c = c
    d = d
    e = e
    g = g
    m1 = m1
    m2 = m2
    Node = {a, b, c}
    Msg = {m1, m2}
    TotalM1 = 2
    TotalM2 = 1
    Link <- MCLink
    Origin <- MCOrigin
    Total <- MCTotal
    Dist <- MCDist
    Ttl = 1
    MAX_TOTAL_CHUNKS = 4
    IdxSize = 4
    DEDUP_CAP = 1
    MaxSends = 1
    MaxDrops = 1
    MaxExpiries = 1
    MaxPurges = 1
INVARIANTS
    TypeOK
    AtMostOnce
PROPERTIES
    ImplementsFlood
CHECK_DEADLOCK FALSE
