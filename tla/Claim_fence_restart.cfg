SPECIFICATION HSpec
CONSTANTS
    None = None
    NodeId = {n1}
    Publishers = {p1, p2}
    Boots = {b1, b2}
    Attempts = {a1}
    Limits <- FencingLimits
    BindingSet <- NoBindings
    SpecTypes = {"Supersedes"}
    Ops = {"fence", "restart"}
    MaxSpecs = 1
    MaxGen = 3
    MaxMark = 0
    MaxEpoch = 2
    MaxStoreGen = 3
SYMMETRY Sym
INVARIANT
    FencedBootNeverLive
CHECK_DEADLOCK FALSE
