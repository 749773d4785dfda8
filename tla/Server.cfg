SPECIFICATION FairSpec
CONSTANTS
    None = None
    p0 = p0
    p1 = p1
    b0 = b0
    b1 = b1
    b2 = b2
    c1 = c1
    c2 = c2
    Conns = {c1, c2}
    Identities <- TwoBoots
    Coord <- Self
    Script <- Workers
    MaxEpoch = 2
    MaxSessions = 2
    MaxPublishers = 3
    MaxAge = 0
INVARIANT
    SessionsCounted
    LiveBootHasSession
    AnswersMatch
PROPERTY
    FencedCommitsNothing
    StalledPeerIsClosed
    RequestIsAnswered
    StopEndsLoop
CHECK_DEADLOCK FALSE
