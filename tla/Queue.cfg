SPECIFICATION QueueSpec
CONSTANTS
    Core = {c1, c2}
    Item = {t1, t2, t3}
    null = null
INVARIANTS
    MutualExclusion
    RestoresInterrupts
PROPERTIES
    ImplementsFifo
