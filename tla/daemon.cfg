SPECIFICATION Spec
CONSTANTS
    Proc = {p1, p2, p3}
    Pin = {k1, k2}
    Name = {ann}
    Port = {1, 2}
    Default = default
    NONE = NONE
    MaxUsers = 2
    MaxClock = 0
    MaxStarts = 2
    MaxOps = 3
INVARIANTS
    TypeOK
    IdentityStable
    PlainHasIdentity
    ServiceKept
PROPERTIES
    PinStillValid
CHECK_DEADLOCK FALSE
