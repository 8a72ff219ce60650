\* The machine may be down.
CHECK_DEADLOCK FALSE
CONSTANTS
    Order <- MCOrder
    SETUP = 2
SPECIFICATION Spec
INVARIANTS LiveSystemBoots
