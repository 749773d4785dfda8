SPECIFICATION Spec
CONSTANTS
    None = None
    NodeId = {n1, n2, n3}
    Publishers = {p1}
    Boots = {b1}
    Attempts = {a1, a2, a3}
    Limits <- RoomyLimits
    BindingSet <- NoBindings
    SpecTypes = {"Supersedes", "RevokedBy"}
    Ops = {"publish"}
    MaxSpecs = 2
    MaxGen = 2
    MaxMark = 0
    MaxEpoch = 1
    MaxStoreGen = 5
SYMMETRY Sym
PROPERTY
    GenerationIsNotRepublished
CHECK_DEADLOCK FALSE
