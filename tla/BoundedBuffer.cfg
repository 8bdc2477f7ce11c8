SPECIFICATION Spec
CONSTANTS
    Thread = {t1, t2, t3, t4}
    Item = {x, y}
    N = 2
CHECK_DEADLOCK FALSE
INVARIANTS
    WaitsWithReason
PROPERTIES
    ImplementsFifo
