SPECIFICATION Spec
CONSTANTS
    None = None
    NodeId = {n1, n2}
    Publishers = {p1}
    Boots = {b1, b2}
    Attempts = {a1, a2}
    Limits <- RoomyLimits
    BindingSet <- UpstreamBindings
    SpecTypes = {"AuthorizedBy"}
    Ops <- SessionOps
    MaxSpecs = 1
    MaxGen = 2
    MaxMark = 2
    MaxEpoch = 2
    MaxStoreGen = 4
SYMMETRY SessionSym
INVARIANT
    CurrentIsVouchedFor
    SupersededIsNotCurrent
PROPERTY
    RestartDemotesAll
    FencedUntilRestart
CHECK_DEADLOCK FALSE
