\* The machine stops on a fault and when a page table lies where it must not.
CHECK_DEADLOCK FALSE
CONSTANTS
    BITS = 5
    n_frames = 5
    ENTRIES = 4
    TABLES = 3
    IDENTITY_PAGES = 4
    Reserved <- MCReserved
    ClientPages <- MCClientPages
    Watched <- MCWatched
    FlagSets <- MCFlagSets
    Junk <- MCJunk
SPECIFICATION Spec
INVARIANTS ReservedNeverGranted
