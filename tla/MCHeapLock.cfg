SPECIFICATION MCSpec
CONSTANTS
    c1 = c1
    c2 = c2
    i1 = i1
    i2 = i2
    Core = {c1, c2}
    Reaper = r
    Thread = {r, t1, t2, t3}
    idleThreads <- MCIdleThreads
    Initial = 1
    MaxCount = 1
SYMMETRY Symmetry
INVARIANTS
    LockHeldBriefly
    SemOnePlace
    HeapExclusive
    HeldWithoutReaper
PROPERTIES
    ImplementsSemaphore
