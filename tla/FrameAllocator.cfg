\* Two full words of 3 bits; frame 6 falls in the partial word and is unmanaged.
CONSTANTS
    BITS = 3
    n_frames = 7
SPECIFICATION Spec
INVARIANTS TypeOK BitmapMatchesOwners
PROPERTIES ImplementsFrameSet
