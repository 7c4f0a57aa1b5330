SPECIFICATION FairSpec
CONSTANTS
    a = a
    b = b
    a1 = a1
    b1 = b1
    ca1 = ca1
    ca2 = ca2
    cb1 = cb1
    Side = {a, b}
    Env = {a1, b1}
    Origin <- MCOrigin
    Parts <- LargeParts
    Buffer = 1
    QueueCap = 1
    Conn = {ca1, cb1}
    Dialler <- MCDialler
    NoConn = NoConn
    NoEnv = NoEnv
    MaxSends = 2
    MaxBreaks = 0
PROPERTIES
    FramesWritten
CHECK_DEADLOCK FALSE
