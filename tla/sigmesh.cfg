SPECIFICATION FairSpec
CONSTANTS
    a = a
    b = b
    c = c
    e1 = e1
    e2 = e2
    Node = {a, b, c}
    Env = {e1, e2}
    Cycle = FALSE
    SameId = TRUE
    Frames1 = 2
    Frames2 = 1
    Link <- MCLink
    Origin <- MCOrigin
    Frames <- MCFrames
    MsgId <- MCMsgId
    SM_MAX_TOTAL = 2
    TTL = 2
    Retries = 1
    QUEUE_CAP = 1
    OUT_CAP = 1
    PDU_CAP = 0
    SEEN_CAP = 2
    DEDUP_CAP = 0
    MaxSends = 1
    MaxExpiries = 1
    MaxPurges = 1
INVARIANTS
    TypeOK
    HeardIsDelivered
    RetryRecovers
PROPERTIES
    ImplementsFlood
    
CHECK_DEADLOCK FALSE
