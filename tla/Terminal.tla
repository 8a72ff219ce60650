------------------------------ MODULE Terminal ------------------------------
(***************************************************************************)
(* The VGA text terminal of kernel/terminal.c.  The screen is one array of *)
(* VGA_WIDTH * VGA_HEIGHT cells; a newline at the bottom only moves        *)
(* terminal_row past the last line, and the next printed character scrolls *)
(* by one line, however far terminal_row has run ahead.                    *)
(*                                                                         *)
(* Characters are the values 0 .. 255 of a C char's byte; every one but    *)
(* '\n' is printed as a glyph, backspace and tab included.                 *)
(***************************************************************************)
EXTENDS Integers, Sequences

CONSTANTS
    VGA_WIDTH, VGA_HEIGHT,
    WORD,               \* 2^32: terminal_row is a size_t
    Chars,              \* characters written
    Colors,             \* colours set
    MaxRow,             \* bound on terminal_row
    MaxScrolls          \* bound on scrolls between two initialisations

NEWLINE == 10
SPACE   == 32
LIGHT_GREY_ON_BLACK == 7

ASSUME TerminalConstants ==
    /\ VGA_WIDTH \in Nat \ {0} /\ VGA_HEIGHT \in Nat \ {0}
    /\ WORD \in Nat /\ MaxRow \in Nat /\ MaxScrolls \in Nat
    /\ VGA_HEIGHT <= MaxRow /\ MaxRow < WORD
    /\ Chars \subseteq 0 .. 255 /\ Colors \subseteq 0 .. 255

VARIABLES
    terminal_row, terminal_column, terminal_color, terminal_buffer,
    stray,              \* history: a store outside the screen happened
    gone                \* history: the lines scrolled off, oldest first

vars == <<terminal_row, terminal_column, terminal_color, terminal_buffer,
          stray, gone>>

Columns == 0 .. VGA_WIDTH - 1
Index   == 0 .. VGA_WIDTH * VGA_HEIGHT - 1
Cells   == [char : 0 .. 255, attr : 0 .. 255]

\* `(uint16_t) c | (uint16_t) color << 8': a negative char is sign-extended.
vga_entry(c, color) == [char |-> c, attr |-> IF c < 128 THEN color ELSE 255]

Row(buffer, y) == [x \in 1 .. VGA_WIDTH |-> buffer[y * VGA_WIDTH + x - 1]]

Blank(color) == [i \in Index |-> vga_entry(SPACE, color)]

ScrollKeepsLastLine(buffer, color) ==
    [i \in Index |-> IF i < (VGA_HEIGHT - 1) * VGA_WIDTH
                     THEN buffer[i + VGA_WIDTH]
                     ELSE buffer[i]]

\* Every line takes the contents of the next, the last one is cleared.
ScrollUp(buffer, color) ==
    [i \in Index |-> IF i < (VGA_HEIGHT - 1) * VGA_WIDTH
                     THEN buffer[i + VGA_WIDTH]
                     ELSE vga_entry(SPACE, color)]

ScrollsTooLate(row) == row > VGA_HEIGHT

\* The test `terminal_row >= VGA_HEIGHT'.
MustScroll(row) == row >= VGA_HEIGHT

WrapsOneColumnLate(column) == column = VGA_WIDTH

\* The test `++terminal_column == VGA_WIDTH'.
AtLineEnd(column) == column + 1 = VGA_WIDTH

-----------------------------------------------------------------------------
Init ==
    /\ terminal_row = 0 /\ terminal_column = 0
    /\ terminal_color = LIGHT_GREY_ON_BLACK
    /\ terminal_buffer = Blank(LIGHT_GREY_ON_BLACK)
    /\ stray = FALSE /\ gone = <<>>

terminal_initialize ==
    /\ terminal_row' = 0 /\ terminal_column' = 0
    /\ terminal_color' = LIGHT_GREY_ON_BLACK
    /\ terminal_buffer' = Blank(LIGHT_GREY_ON_BLACK)
    /\ gone' = <<>>
    /\ UNCHANGED stray

terminal_setcolor(color) ==
    /\ terminal_color' = color
    /\ UNCHANGED <<terminal_row, terminal_column, terminal_buffer, stray, gone>>

\* terminal_putchar('\n')
PutNewLine ==
    /\ terminal_row < MaxRow
    /\ terminal_column' = 0
    /\ terminal_row' = (terminal_row + 1) % WORD
    /\ UNCHANGED <<terminal_color, terminal_buffer, stray, gone>>

\* terminal_putchar(c) for any other character.
PutGlyph(c) ==
    LET scroll == MustScroll(terminal_row)
        buffer == IF scroll THEN ScrollUp(terminal_buffer, terminal_color)
                            ELSE terminal_buffer
        row    == IF scroll THEN VGA_HEIGHT - 1 ELSE terminal_row
        at     == row * VGA_WIDTH + terminal_column
    IN
    /\ scroll => Len(gone) < MaxScrolls
    /\ terminal_buffer' = [buffer EXCEPT ![at] = vga_entry(c, terminal_color)]
    /\ stray' = (stray \/ at \notin Index)
    /\ gone' = IF scroll THEN Append(gone, Row(terminal_buffer, 0)) ELSE gone
    /\ IF AtLineEnd(terminal_column)
       THEN terminal_column' = 0 /\ terminal_row' = row + 1
       ELSE terminal_column' = terminal_column + 1 /\ terminal_row' = row
    /\ UNCHANGED terminal_color

terminal_putchar(c) == IF c = NEWLINE THEN PutNewLine ELSE PutGlyph(c)

Next ==
    \/ terminal_initialize
    \/ \E color \in Colors : terminal_setcolor(color)
    \/ \E c \in Chars : terminal_putchar(c)

Spec == Init /\ [][Next]_vars

-----------------------------------------------------------------------------
TypeOK ==
    /\ terminal_row \in 0 .. MaxRow
    /\ terminal_column \in Columns
    /\ terminal_color \in Colors \cup {LIGHT_GREY_ON_BLACK}
    /\ terminal_buffer \in [Index -> Cells]
    /\ stray \in BOOLEAN
    /\ gone \in Seq([1 .. VGA_WIDTH -> Cells])

(***************************************************************************)
(* terminal_putentryat never stores outside the screen, whatever sequence  *)
(* of newlines and glyphs terminal_putchar was given.                      *)
(***************************************************************************)
StoresOnScreen == ~stray

(***************************************************************************)
(* The terminal is a roll of paper whose last VGA_HEIGHT lines are on the  *)
(* screen: scrolling loses no line and moves no line but by one, and a     *)
(* character changes the one cell at the cursor.                           *)
(***************************************************************************)
Lowest(a, b) == IF a < b THEN a ELSE b

Roll == INSTANCE PaperRoll WITH
    Width <- VGA_WIDTH, Height <- VGA_HEIGHT, DEFAULT <- LIGHT_GREY_ON_BLACK,
    paper <- gone \o [y \in 1 .. VGA_HEIGHT |-> Row(terminal_buffer, y - 1)],
    line <- Len(gone) + Lowest(terminal_row, VGA_HEIGHT) + 1,
    column <- terminal_column + 1,
    ink <- terminal_color

ImplementsPaperRoll == Roll!Spec

=============================================================================
