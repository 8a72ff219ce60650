CONSTANTS
    WORD = 128
    HEAP_MEMORY_START = 16
    HEAP_MEMORY_END = 44
    Requests <- MCHugeRequests
    MaxBlocks = 4
SPECIFICATION Spec
INVARIANTS GrantedBlocksFit
CHECK_DEADLOCK FALSE
