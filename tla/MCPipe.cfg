SPECIFICATION FairSpec
CONSTANTS
    x = x
    y = y
    Writer = {w1, w2}
    Reader = {r}
    Byte = {x, y}
    MAX_BUFFER_SIZE = 2
    Text <- MCText
    MaxSize = 2
INVARIANTS
    NeverBlocksLocked
PROPERTIES
    ImplementsPipe
    EveryCallReturns
