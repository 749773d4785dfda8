SPECIFICATION Spec
CONSTANTS
    None = None
    NodeId = {n1, n2, n3, n4}
    Publishers = {p1}
    Boots = {b1}
    Attempts = {a1, a2, a3, a4}
    Limits <- SmallHistory
    BindingSet <- NoBindings
    SpecTypes = {"Supersedes"}
    Ops <- RetentionOps
    MaxSpecs = 1
    MaxGen = 3
    MaxMark = 0
    MaxEpoch = 1
    MaxStoreGen = 6
SYMMETRY Sym
INVARIANT
    OneOriginalPerGeneration
    HistoryBounded
PROPERTY
    HistoryIsAppendOnly
    ExplanationIsKept
CHECK_DEADLOCK FALSE
