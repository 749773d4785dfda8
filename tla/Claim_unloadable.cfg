CONSTANTS
    Lineages <- TwoLineages
    RouteOf <- OneRoute
    Writers = {w1, w2}
    None = None
    Torn = Torn
    MaxLineages = 2
    MaxNodes = 2
    MaxPersistenceNodes = 3
    LastGeneration = 2
    FirstEpoch = 1
    MaxEpoch = 3
    MaxStarts = 2
    MaxPublications = 2
    MaxSaves = 2
SPECIFICATION Spec
INVARIANT SavedImageLoads
CHECK_DEADLOCK FALSE
