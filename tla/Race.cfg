SPECIFICATION FairSpec
CONSTANTS
    None = None
    Root = Root
    Threads = {t1, t2, t3}
    b1 = b1
    b2 = b2
    Boots = {b1, b2}
    RootBoot = b1
    Calls <- AllCalls
    MaxGen = 3
INVARIANT
    TypeOK
    OneRecordPerGeneration
    RetirementWins
    FoundIsDemoted
    StoreGenerationCounts
PROPERTY
    RefinesRouteLineage
    EveryCallReturns
CHECK_DEADLOCK FALSE
