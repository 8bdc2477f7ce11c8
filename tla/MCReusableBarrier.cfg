SPECIFICATION BarrierFairSpec
CONSTANTS
    c1 = c1
    c2 = c2
    i1 = i1
    i2 = i2
    Core = {c1, c2}
    Reaper = r
    Thread = {r, t1, t2}
    idleThreads <- MCIdleThreads
    MaxRound = 2
INVARIANTS
    NoMissedSignal
    InStep
PROPERTIES
    EnteredLeaves
