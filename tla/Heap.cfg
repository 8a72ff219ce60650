CONSTANTS
    WORD = 128
    HEAP_MEMORY_START = 16
    HEAP_MEMORY_END = 44
    Requests <- MCRequests
    MaxBlocks = 4
SPECIFICATION Spec
INVARIANTS TypeOK BlocksSound RefusalIsFinal
CHECK_DEADLOCK FALSE
