SPECIFICATION Spec
CONSTANTS
    None = None
    p0 = p0
    p1 = p1
    b0 = b0
    b1 = b1
    b2 = b2
    c1 = c1
    c2 = c2
    Conns = {c1}
    Identities <- TwoBoots
    Coord <- Self
    Script <- OneHello
    MaxEpoch = 2
    MaxSessions = 1
    MaxPublishers = 3
    MaxAge = 0
INVARIANT
    EndedSessionIsFenced
CHECK_DEADLOCK FALSE
