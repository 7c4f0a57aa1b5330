SPECIFICATION ConnectedSpec
CONSTANTS
    a = a
    b = b
    c = c
    d = d
    e = e
    g = g
    m1 = m1
    m2 = m2
    Node = {a, b, c, d, e, g}
    Msg = {m1, m2}
    TotalM1 = 2
    TotalM2 = 1
    Link <- MCLink
    Origin <- MCOrigin
    Total <- MCTotal
    Dist <- MCDist
    Ttl = 2
    MAX_TOTAL_CHUNKS = 4
    IdxSize = 4
    DEDUP_CAP = 1
    MaxSends = 1
    MaxDrops = 0
    MaxExpiries = 0
    MaxPurges = 0
INVARIANTS
    HopBound
    FloodCloses
PROPERTIES
    Coverage
CHECK_DEADLOCK FALSE
