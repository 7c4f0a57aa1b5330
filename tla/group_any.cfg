SPECIFICATION Spec
CONSTANTS
    a = a
    b = b
    c = c
    d = d
    m1 = m1
    m2 = m2
    Node = {a, b, c}
    Creator = a
    Inviters = {a}
    Msg = {m1, m2}
    Author <- MCAuthor
    Serial = FALSE
    Ordered = FALSE
    MaxTimeouts = 1
INVARIANTS
    TypeOK
    NoFork
    MembersRegistered
    ReadersWereMembers
CHECK_DEADLOCK FALSE
