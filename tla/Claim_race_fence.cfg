SPECIFICATION Spec
CONSTANTS
    None = None
    Root = Root
    Threads = {t1, t2}
    b1 = b1
    b2 = b2
    Boots = {b1, b2}
    RootBoot = b1
    Calls <- FenceCalls
    MaxGen = 3
INVARIANT
    FencedIsNotCurrent
CHECK_DEADLOCK FALSE
