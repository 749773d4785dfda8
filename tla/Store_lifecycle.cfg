SPECIFICATION Spec
CONSTANTS
    None = None
    NodeId = {n1, n2, n3, n4}
    Publishers = {p1}
    Boots = {b1}
    Attempts = {a1, a2, a3, a4}
    Limits <- RoomyLimits
    BindingSet <- NoBindings
    SpecTypes = {"Supersedes", "RolledBackFrom"}
    Ops <- LifecycleOps
    MaxSpecs = 1
    MaxGen = 3
    MaxMark = 0
    MaxEpoch = 2
    MaxStoreGen = 5
SYMMETRY Sym
INVARIANT
    TypeOK
    CurrentRecord
    CorrectedStaysInvalid
    CurrentOriginalIsCurrentRecord
    OneRecordPerAttempt
PROPERTY
    TerminalLineageIsFrozen
    RefinesRouteLineage
CHECK_DEADLOCK FALSE
