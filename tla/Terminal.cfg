\* Three rows of newlines past the bottom, two scrolls.
CONSTANTS
    VGA_WIDTH = 2
    VGA_HEIGHT = 2
    WORD = 8
    Chars <- MCChars
    Colors <- MCColors
    MaxRow = 4
    MaxScrolls = 2
SPECIFICATION Spec
INVARIANTS TypeOK StoresOnScreen
PROPERTIES ImplementsPaperRoll
