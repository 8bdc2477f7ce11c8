SPECIFICATION FairSpec
CONSTANTS
    Process = {p, q}
    Initial = p
    NFILE = 2
    NSEM = 1
    NCHILD = 1
    File = {console, f}
    SemObject = {s}
    Future = {x, y, z}
    Console = console
    MaxCount = 1
    Choice <- AnyOne
    null = null
CHECK_DEADLOCK FALSE
INVARIANTS
    Counted
PROPERTIES
    EndedIsDestroyed
    WaitReturns
