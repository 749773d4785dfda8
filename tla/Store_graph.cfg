SPECIFICATION Spec
CONSTANTS
    None = None
    NodeId = {n1, n2, n3}
    Publishers = {p1}
    Boots = {b1}
    Attempts = {a1, a2, a3}
    Limits <- TightDegrees
    BindingSet <- NoBindings
    SpecTypes = {"DerivedFrom", "RevokedBy", "AuthorizedBy"}
    Ops <- GraphOps
    MaxSpecs = 2
    MaxGen = 2
    MaxMark = 0
    MaxEpoch = 1
    MaxStoreGen = 4
    MaxVisited = 8
    MaxExplanation = 1
SYMMETRY Sym
INVARIANT
    GraphSound
    CycleChecksAgree
    TraversalIsExact
    ExplanationIsConnected
PROPERTY
    DiffTellsTheStep
CHECK_DEADLOCK FALSE
