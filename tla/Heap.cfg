SPECIFICATION Spec
CONSTANTS
    HeapLen = 20
    Tries = 2
    Bytes = {1, 20}
    Junk = 7
INVARIANTS
    HeapSound
PROPERTIES
    ImplementsAllocator
