--------------------------- MODULE TerminalProofs ---------------------------
(***************************************************************************)
(* Proofs about the terminal, for every screen size.  TypeOK bounds the    *)
(* column below VGA_WIDTH but leaves terminal_row unbounded by the screen; *)
(* that terminal_putchar scrolls first is what keeps its store on it.      *)
(* The second part shows that the terminal implements PaperRoll.           *)
(***************************************************************************)
EXTENDS Terminal, SequenceTheorems, TLAPS

\* The inductive invariant.
Inv == TypeOK /\ StoresOnScreen

\* Rows are laid out one after the other: their order is that of their cells.
LEMMA RowOrder ==
    ASSUME NEW y \in Int, NEW z \in Int, NEW w \in Nat, y < z
    PROVE  y * w + w <= z * w /\ y * w \in Int /\ z * w \in Int
<1>1. (y + 1) * w <= z * w
  OBVIOUS
<1>2. (y + 1) * w = y * w + w
  OBVIOUS
<1>3. QED BY <1>1, <1>2

\* Cell x of row y has its place in the array.
LEMMA CellIndex ==
    ASSUME NEW y \in 0 .. VGA_HEIGHT - 1, NEW x \in Columns
    PROVE  y * VGA_WIDTH + x \in Index
<1>1. VGA_WIDTH \in Nat \ {0} /\ VGA_HEIGHT \in Nat \ {0}
  BY TerminalConstants
<1>2. y * VGA_WIDTH + VGA_WIDTH <= VGA_HEIGHT * VGA_WIDTH
  BY <1>1, RowOrder
<1>3. y * VGA_WIDTH \in Nat /\ VGA_HEIGHT * VGA_WIDTH \in Nat
      /\ VGA_HEIGHT * VGA_WIDTH = VGA_WIDTH * VGA_HEIGHT
  BY <1>1
<1>4. QED BY <1>1, <1>2, <1>3 DEF Index, Columns

\* The scroll loop reads no cell past the last row.
LEMMA ScrollSource ==
    ASSUME NEW i \in Index, i < (VGA_HEIGHT - 1) * VGA_WIDTH
    PROVE  i + VGA_WIDTH \in Index
<1>1. VGA_WIDTH \in Nat \ {0} /\ VGA_HEIGHT \in Nat \ {0}
  BY TerminalConstants
<1>2. (VGA_HEIGHT - 1) * VGA_WIDTH + VGA_WIDTH <= VGA_HEIGHT * VGA_WIDTH
  BY <1>1, RowOrder
<1>3. (VGA_HEIGHT - 1) * VGA_WIDTH \in Int /\ VGA_HEIGHT * VGA_WIDTH \in Nat
      /\ VGA_HEIGHT * VGA_WIDTH = VGA_WIDTH * VGA_HEIGHT
  BY <1>1
<1>4. QED BY <1>1, <1>2, <1>3 DEF Index

\* Screen cells are 16-bit entries of a character and an attribute.
LEMMA EntryType ==
    ASSUME NEW c \in 0 .. 255, NEW color \in 0 .. 255
    PROVE  vga_entry(c, color) \in Cells
  BY DEF vga_entry, Cells

\* So are the blank ones.
LEMMA SpaceType ==
    ASSUME NEW color \in 0 .. 255 PROVE vga_entry(SPACE, color) \in Cells
<1>1. SPACE \in 0 .. 255
  BY DEF SPACE
<1>2. QED BY <1>1, EntryType

\* A cleared screen is a screen.
LEMMA BlankType ==
    ASSUME NEW color \in 0 .. 255 PROVE Blank(color) \in [Index -> Cells]
<1>1. vga_entry(SPACE, color) \in Cells
  BY SpaceType
<1>2. QED BY <1>1 DEF Blank

\* Scrolling yields a screen: no cell is left undefined.
LEMMA ScrollType ==
    ASSUME NEW buffer \in [Index -> Cells], NEW color \in 0 .. 255
    PROVE  ScrollUp(buffer, color) \in [Index -> Cells]
<1>1. vga_entry(SPACE, color) \in Cells
  BY SpaceType
<1>2. ASSUME NEW i \in Index
      PROVE  (IF i < (VGA_HEIGHT - 1) * VGA_WIDTH THEN buffer[i + VGA_WIDTH]
                                                  ELSE vga_entry(SPACE, color)) \in Cells
  BY <1>1, ScrollSource
<1>3. QED BY <1>2 DEF ScrollUp

\* A row of the screen is a line of VGA_WIDTH cells.
LEMMA RowType ==
    ASSUME NEW buffer \in [Index -> Cells], NEW y \in 0 .. VGA_HEIGHT - 1
    PROVE  Row(buffer, y) \in [1 .. VGA_WIDTH -> Cells]
<1>1. VGA_WIDTH \in Nat \ {0} /\ y \in Nat /\ y * VGA_WIDTH \in Nat
  BY TerminalConstants
<1>2. ASSUME NEW x \in 1 .. VGA_WIDTH
      PROVE  y * VGA_WIDTH + x - 1 \in Index
  <2>1. x - 1 \in Columns /\ y * VGA_WIDTH + x - 1 = y * VGA_WIDTH + (x - 1)
    BY <1>1 DEF Columns
  <2>2. QED BY <2>1, CellIndex
<1>3. QED BY <1>2 DEF Row

\* The colour in use fits the attribute byte.
LEMMA ColorType == TypeOK => terminal_color \in 0 .. 255
  BY TerminalConstants DEF TypeOK, LIGHT_GREY_ON_BLACK

\* terminal_initialize, as the first call.
LEMMA InitEstablishesInv == Init => Inv
<1> SUFFICES ASSUME Init PROVE Inv
  OBVIOUS
<1>1. Blank(LIGHT_GREY_ON_BLACK) \in [Index -> Cells]
  <2>1. LIGHT_GREY_ON_BLACK \in 0 .. 255
    BY DEF LIGHT_GREY_ON_BLACK
  <2>2. QED BY <2>1, BlankType
<1>2. 0 \in 0 .. MaxRow /\ 0 \in Columns
  BY TerminalConstants DEF Columns
<1>3. /\ terminal_row \in 0 .. MaxRow /\ terminal_column \in Columns
      /\ terminal_color = LIGHT_GREY_ON_BLACK
      /\ terminal_buffer \in [Index -> Cells]
  BY <1>1, <1>2 DEF Init
<1>4. gone \in Seq([1 .. VGA_WIDTH -> Cells])
  BY DEF Init
<1>5. stray \in BOOLEAN /\ ~stray
  BY Zenon DEF Init
<1>6. QED BY <1>3, <1>4, <1>5 DEF Inv, TypeOK, StoresOnScreen

\* terminal_initialize, as a later call.
LEMMA InitializePreservesInv == Inv /\ terminal_initialize => Inv'
<1> SUFFICES ASSUME Inv, terminal_initialize PROVE Inv'
  OBVIOUS
<1>1. terminal_buffer' \in [Index -> Cells]
  <2>1. Blank(LIGHT_GREY_ON_BLACK) \in [Index -> Cells]
    <3>1. LIGHT_GREY_ON_BLACK \in 0 .. 255
      BY DEF LIGHT_GREY_ON_BLACK
    <3>2. QED BY <3>1, BlankType
  <2>2. QED BY <2>1 DEF terminal_initialize
<1>2. 0 \in 0 .. MaxRow /\ 0 \in Columns
  BY TerminalConstants DEF Columns
<1>3. QED BY <1>1, <1>2 DEF terminal_initialize, Inv, TypeOK, StoresOnScreen

\* terminal_setcolor touches the colour only.
LEMMA SetColorPreservesInv ==
    ASSUME NEW color \in Colors, Inv, terminal_setcolor(color) PROVE Inv'
  BY DEF terminal_setcolor, Inv, TypeOK, StoresOnScreen

\* A newline stores nothing.
LEMMA NewLinePreservesInv == Inv /\ PutNewLine => Inv'
<1> SUFFICES ASSUME Inv, PutNewLine PROVE Inv'
  OBVIOUS
<1>1. terminal_row + 1 \in 0 .. MaxRow /\ terminal_row + 1 < WORD
  BY TerminalConstants DEF Inv, TypeOK, PutNewLine
<1>2. (terminal_row + 1) % WORD = terminal_row + 1
  BY <1>1, TerminalConstants
<1>3. 0 \in Columns
  BY TerminalConstants DEF Columns
<1>4. QED BY <1>1, <1>2, <1>3 DEF PutNewLine, Inv, TypeOK, StoresOnScreen

\* A glyph is stored in a row below VGA_HEIGHT, scrolled or not.
LEMMA GlyphPreservesInv ==
    ASSUME NEW c \in Chars, Inv, PutGlyph(c) PROVE Inv'
<1> DEFINE scroll == MustScroll(terminal_row)
           buffer == IF scroll THEN ScrollUp(terminal_buffer, terminal_color)
                               ELSE terminal_buffer
           row    == IF scroll THEN VGA_HEIGHT - 1 ELSE terminal_row
           at     == row * VGA_WIDTH + terminal_column
<1>1. /\ terminal_buffer \in [Index -> Cells] /\ terminal_color \in 0 .. 255
      /\ terminal_column \in Columns /\ terminal_row \in Nat /\ c \in 0 .. 255
      /\ VGA_WIDTH \in Nat \ {0} /\ VGA_HEIGHT \in Nat \ {0}
  BY ColorType, TerminalConstants DEF Inv, TypeOK
<1>2. row \in 0 .. VGA_HEIGHT - 1
  BY <1>1 DEF MustScroll
<1>3. at \in Index
  BY <1>1, <1>2, CellIndex
<1>4. buffer \in [Index -> Cells]
  BY <1>1, ScrollType
<1>5. terminal_buffer' = [buffer EXCEPT ![at] = vga_entry(c, terminal_color)]
  BY DEF PutGlyph
<1>6. stray' = (stray \/ at \notin Index)
  BY DEF PutGlyph
<1>7. gone' = IF scroll THEN Append(gone, Row(terminal_buffer, 0)) ELSE gone
  BY DEF PutGlyph
<1>8. IF AtLineEnd(terminal_column)
      THEN terminal_column' = 0 /\ terminal_row' = row + 1
      ELSE terminal_column' = terminal_column + 1 /\ terminal_row' = row
  BY DEF PutGlyph
<1>9. terminal_color' = terminal_color
  BY DEF PutGlyph
<1> HIDE DEF scroll, buffer, row, at
<1>10. terminal_buffer' \in [Index -> Cells]
  BY <1>1, <1>3, <1>4, <1>5, EntryType
<1>11. gone' \in Seq([1 .. VGA_WIDTH -> Cells])
  <2>1. Row(terminal_buffer, 0) \in [1 .. VGA_WIDTH -> Cells]
    BY <1>1, RowType
  <2>2. QED BY <1>7, <2>1 DEF Inv, TypeOK
<1>12. terminal_column' \in Columns /\ terminal_row' \in 0 .. MaxRow
  BY <1>1, <1>2, <1>8, TerminalConstants DEF Columns, AtLineEnd
<1>13. stray' = stray
  BY <1>3, <1>6 DEF Inv, TypeOK
<1>14. QED BY <1>9, <1>10, <1>11, <1>12, <1>13 DEF Inv, TypeOK, StoresOnScreen

\* Every step preserves the invariant.
LEMMA NextPreservesInv == Inv /\ [Next]_vars => Inv'
<1> SUFFICES ASSUME Inv, [Next]_vars PROVE Inv'
  OBVIOUS
<1>1. CASE terminal_initialize
  BY <1>1, InitializePreservesInv
<1>2. CASE \E color \in Colors : terminal_setcolor(color)
  BY <1>2, SetColorPreservesInv
<1>3. CASE \E c \in Chars : terminal_putchar(c)
  BY <1>3, NewLinePreservesInv, GlyphPreservesInv DEF terminal_putchar
<1>4. CASE UNCHANGED vars
  BY <1>4 DEF vars, Inv, TypeOK, StoresOnScreen
<1>5. QED BY <1>1, <1>2, <1>3, <1>4 DEF Next

\* The terminal's variables keep their types and every store hits the screen.
THEOREM Invariance == Spec => []Inv
  BY InitEstablishesInv, NextPreservesInv, PTL DEF Spec

(***************************************************************************)
(* terminal_putentryat stores on the screen only, for every screen size    *)
(* and every text.                                                         *)
(***************************************************************************)
THEOREM StoresStayOnScreen == Spec => []StoresOnScreen
<1>1. Inv => StoresOnScreen
  BY DEF Inv
<1>2. QED BY Invariance, <1>1, PTL

\* The cursor's column stays on the screen and every cell holds an entry.
THEOREM TerminalTypeCorrect == Spec => []TypeOK
<1>1. Inv => TypeOK
  BY DEF Inv
<1>2. QED BY Invariance, <1>1, PTL

-----------------------------------------------------------------------------
(***************************************************************************)
(* The screen as the end of a roll of paper, PaperRoll: scrolling is one   *)
(* line more of paper, and a store is a store into one line.               *)
(***************************************************************************)
Lines == [1 .. VGA_WIDTH -> Cells]

Paper(g, b) == g \o [y \in 1 .. VGA_HEIGHT |-> Row(b, y - 1)]

Blanks(color) == [x \in 1 .. VGA_WIDTH |-> vga_entry(SPACE, color)]

\* Every line of the roll: one that is gone, or a row of the screen.
LEMMA PaperLines ==
    ASSUME NEW g \in Seq(Lines), NEW b \in [Index -> Cells]
    PROVE  /\ Paper(g, b) \in Seq(Lines) /\ Len(Paper(g, b)) = Len(g) + VGA_HEIGHT
           /\ \A i \in 1 .. Len(g) : Paper(g, b)[i] = g[i]
           /\ \A y \in 0 .. VGA_HEIGHT - 1 : Paper(g, b)[Len(g) + y + 1] = Row(b, y)
<1>1. PICK s : s = [y \in 1 .. VGA_HEIGHT |-> Row(b, y - 1)]
  OBVIOUS
<1>2. VGA_HEIGHT \in Nat /\ Len(g) \in Nat
  BY TerminalConstants
<1>3. \A y \in 1 .. VGA_HEIGHT : Row(b, y - 1) \in Lines
  <2>1. SUFFICES ASSUME NEW y \in 1 .. VGA_HEIGHT PROVE Row(b, y - 1) \in Lines
    OBVIOUS
  <2>2. y - 1 \in 0 .. VGA_HEIGHT - 1
    BY <1>2
  <2>3. QED BY <2>2, RowType DEF Lines
<1>4. s \in [1 .. VGA_HEIGHT -> Lines]
  BY <1>1, <1>3
<1>5. s \in Seq(Lines) /\ Len(s) = VGA_HEIGHT
  BY <1>2, <1>4
<1>6. Paper(g, b) = g \o s
  BY <1>1 DEF Paper
<1>7. /\ g \o s \in Seq(Lines) /\ Len(g \o s) = Len(g) + Len(s)
      /\ \A i \in 1 .. Len(g) + Len(s) : (g \o s)[i] = IF i <= Len(g) THEN g[i] ELSE s[i - Len(g)]
  BY <1>5, ConcatProperties
<1>8. ASSUME NEW i \in 1 .. Len(g) PROVE (g \o s)[i] = g[i]
  BY <1>2, <1>5, <1>7
<1>9. ASSUME NEW y \in 0 .. VGA_HEIGHT - 1 PROVE (g \o s)[Len(g) + y + 1] = Row(b, y)
  <2>1. /\ Len(g) + y + 1 \in 1 .. Len(g) + Len(s) /\ ~(Len(g) + y + 1 <= Len(g))
        /\ (Len(g) + y + 1) - Len(g) = y + 1 /\ y + 1 \in 1 .. VGA_HEIGHT /\ (y + 1) - 1 = y
    BY <1>2, <1>5
  <2>2. (g \o s)[Len(g) + y + 1] = s[y + 1]
    BY <1>7, <2>1
  <2>3. QED BY <1>1, <2>1, <2>2
<1>10. QED BY <1>5, <1>6, <1>7, <1>8, <1>9

\* Two rolls with the same lines are the same.
LEMMA PaperEqual ==
    ASSUME NEW g \in Seq(Lines), NEW b \in [Index -> Cells], NEW p \in Seq(Lines),
           Len(p) = Len(g) + VGA_HEIGHT, \A i \in 1 .. Len(g) : p[i] = g[i],
           \A y \in 0 .. VGA_HEIGHT - 1 : p[Len(g) + y + 1] = Row(b, y)
    PROVE  p = Paper(g, b)
<1>1. VGA_HEIGHT \in Nat /\ Len(g) \in Nat
  BY TerminalConstants
<1>2. ASSUME NEW i \in 1 .. Len(p) PROVE p[i] = Paper(g, b)[i]
  <2>1. CASE i <= Len(g)
    <3>1. i \in 1 .. Len(g)
      BY <1>1, <2>1
    <3>2. QED BY <3>1, PaperLines
  <2>2. CASE ~(i <= Len(g))
    <3>1. PICK y \in 0 .. VGA_HEIGHT - 1 : i = Len(g) + y + 1
      <4>1. i - Len(g) - 1 \in 0 .. VGA_HEIGHT - 1 /\ i = Len(g) + (i - Len(g) - 1) + 1
        BY <1>1, <2>2
      <4>2. QED BY <4>1
    <3>2. QED BY <3>1, PaperLines
  <2>3. QED BY <2>1, <2>2
<1>3. Paper(g, b) \in Seq(Lines) /\ Len(p) = Len(Paper(g, b))
  BY PaperLines
<1>4. QED BY <1>2, <1>3, SeqEqual

\* The place of a cell: its row and its column, uniquely.
LEMMA CellUnique ==
    ASSUME NEW y \in 0 .. VGA_HEIGHT - 1, NEW r \in 0 .. VGA_HEIGHT - 1,
           NEW x \in Columns, NEW c \in Columns, y * VGA_WIDTH + x = r * VGA_WIDTH + c
    PROVE  y = r /\ x = c
<1>1. /\ VGA_WIDTH \in Nat \ {0} /\ y \in Int /\ r \in Int /\ x \in 0 .. VGA_WIDTH - 1
      /\ c \in 0 .. VGA_WIDTH - 1 /\ y * VGA_WIDTH \in Int /\ r * VGA_WIDTH \in Int
  BY TerminalConstants DEF Columns
<1>2. ~(y < r)
  <2>1. SUFFICES ASSUME y < r PROVE FALSE
    OBVIOUS
  <2>2. y * VGA_WIDTH + VGA_WIDTH <= r * VGA_WIDTH
    BY <1>1, <2>1, RowOrder
  <2>3. QED BY <1>1, <2>2
<1>3. ~(r < y)
  <2>1. SUFFICES ASSUME r < y PROVE FALSE
    OBVIOUS
  <2>2. r * VGA_WIDTH + VGA_WIDTH <= y * VGA_WIDTH
    BY <1>1, <2>1, RowOrder
  <2>3. QED BY <1>1, <2>2
<1>4. y = r
  BY <1>1, <1>2, <1>3
<1>5. QED BY <1>1, <1>4

\* A store at a row and a column of the screen, and at a column of a line.
Stored(b, r, col, e) == [b EXCEPT ![r * VGA_WIDTH + col] = e]
Struck(l, col, e)    == [l EXCEPT ![col + 1] = e]
Printed(p, l, x, e)  == [p EXCEPT ![l][x] = e]

\* A store changes one cell of one row.
LEMMA RowStore ==
    ASSUME NEW b \in [Index -> Cells], NEW r \in 0 .. VGA_HEIGHT - 1, NEW col \in Columns,
           NEW e \in Cells, NEW y \in 0 .. VGA_HEIGHT - 1
    PROVE  Row(Stored(b, r, col, e), y) =
              IF y = r THEN Struck(Row(b, r), col, e) ELSE Row(b, y)
<1>1. VGA_WIDTH \in Nat \ {0} /\ y * VGA_WIDTH \in Int /\ r * VGA_WIDTH \in Int
  BY TerminalConstants
<1>2. PICK at \in Index : at = r * VGA_WIDTH + col
  BY CellIndex
<1>3. PICK d : d = [b EXCEPT ![at] = e] /\ d = Stored(b, r, col, e)
  BY <1>2 DEF Stored
<1>4. d \in [Index -> Cells] /\ \A i \in Index : d[i] = IF i = at THEN e ELSE b[i]
  BY <1>3
<1>5. ASSUME NEW x \in 1 .. VGA_WIDTH
      PROVE  /\ y * VGA_WIDTH + x - 1 \in Index
             /\ y * VGA_WIDTH + x - 1 = at <=> y = r /\ x = col + 1
  <2>1. /\ x - 1 \in Columns /\ y * VGA_WIDTH + x - 1 = y * VGA_WIDTH + (x - 1)
        /\ col \in Int
    BY <1>1 DEF Columns
  <2>2. y * VGA_WIDTH + (x - 1) \in Index
    BY <2>1, CellIndex
  <2>3. y * VGA_WIDTH + (x - 1) = r * VGA_WIDTH + col => y = r /\ x - 1 = col
    BY <2>1, CellUnique
  <2>4. x - 1 = col <=> x = col + 1
    BY <2>1
  <2>5. QED BY <1>2, <2>1, <2>2, <2>3, <2>4
<1>6. \A x \in 1 .. VGA_WIDTH :
        d[y * VGA_WIDTH + x - 1] = IF y = r /\ x = col + 1 THEN e ELSE b[y * VGA_WIDTH + x - 1]
  BY <1>4, <1>5
<1>7. CASE y = r
  <2>1. Struck(Row(b, r), col, e) =
          [x \in 1 .. VGA_WIDTH |-> IF x = col + 1 THEN e ELSE b[r * VGA_WIDTH + x - 1]]
    BY DEF Row, Struck
  <2>2. Row(d, y) = [x \in 1 .. VGA_WIDTH |-> IF x = col + 1 THEN e
                                                ELSE b[r * VGA_WIDTH + x - 1]]
    BY <1>6, <1>7 DEF Row
  <2>3. QED BY <1>2, <1>3, <1>7, <2>1, <2>2
<1>8. CASE y # r
  <2>1. Row(d, y) = Row(b, y)
    BY <1>6, <1>8 DEF Row
  <2>2. QED BY <1>2, <1>3, <1>8, <2>1
<1>9. QED BY <1>7, <1>8

\* A store into the screen is one into the roll.
LEMMA PaperStore ==
    ASSUME NEW g \in Seq(Lines), NEW b \in [Index -> Cells], NEW r \in 0 .. VGA_HEIGHT - 1,
           NEW col \in Columns, NEW e \in Cells
    PROVE  Paper(g, Stored(b, r, col, e)) = Printed(Paper(g, b), Len(g) + r + 1, col + 1, e)
<1>1. PICK d \in [Index -> Cells] : d = Stored(b, r, col, e)
  BY CellIndex DEF Stored
<1>2. PICK n : n = Len(g) + r + 1
  OBVIOUS
<1>3. PICK p \in Seq(Lines) : p = Paper(g, b)
  BY PaperLines
<1>4. /\ VGA_HEIGHT \in Nat /\ Len(g) \in Nat /\ r \in Nat /\ n \in 1 .. Len(p)
      /\ Len(p) = Len(g) + VGA_HEIGHT
  <2>1. VGA_HEIGHT \in Nat /\ Len(g) \in Nat
    BY TerminalConstants
  <2>2. Len(p) = Len(g) + VGA_HEIGHT
    BY <1>3, PaperLines
  <2>3. QED BY <1>2, <2>1, <2>2
<1>5. Struck(Row(b, r), col, e) \in Lines
  BY RowType DEF Lines, Struck
<1>6. p[n] = Row(b, r)
  BY <1>2, <1>3, PaperLines
<1>7. PICK q : q = Printed(p, n, col + 1, e)
  OBVIOUS
<1>8. q = [p EXCEPT ![n] = Struck(Row(b, r), col, e)]
  BY <1>6, <1>7 DEF Struck, Printed
<1>9. q \in Seq(Lines) /\ Len(q) = Len(p)
      /\ \A i \in 1 .. Len(p) : q[i] = IF i = n THEN Struck(Row(b, r), col, e) ELSE p[i]
  <2>1. PICK l \in Lines : l = Struck(Row(b, r), col, e)
    BY <1>5
  <2>2. q = [p EXCEPT ![n] = l]
    BY <1>8, <2>1
  <2>3. QED BY <1>4, <2>1, <2>2, ExceptSeq
<1>10. \A i \in 1 .. Len(g) : q[i] = g[i]
  <2>1. \A i \in 1 .. Len(g) : i \in 1 .. Len(p) /\ i # n
    BY <1>2, <1>4
  <2>2. QED BY <1>3, <1>9, <2>1, PaperLines
<1>11. \A y \in 0 .. VGA_HEIGHT - 1 : q[Len(g) + y + 1] = Row(d, y)
  <2>1. SUFFICES ASSUME NEW y \in 0 .. VGA_HEIGHT - 1 PROVE q[Len(g) + y + 1] = Row(d, y)
    OBVIOUS
  <2>2. Len(g) + y + 1 \in 1 .. Len(p) /\ (Len(g) + y + 1 = n <=> y = r)
    BY <1>2, <1>4
  <2>3. p[Len(g) + y + 1] = Row(b, y)
    BY <1>3, PaperLines
  <2>4. Row(d, y) = IF y = r THEN Struck(Row(b, r), col, e) ELSE Row(b, y)
    BY <1>1, RowStore
  <2>5. QED BY <1>9, <2>2, <2>3, <2>4
<1>12. q = Paper(g, d)
  BY <1>4, <1>9, <1>10, <1>11, PaperEqual
<1>13. QED BY <1>1, <1>2, <1>3, <1>7, <1>12

\* Scrolling moves every row up by one and clears the last.
LEMMA ScrollRows ==
    ASSUME NEW b \in [Index -> Cells], NEW color, NEW y \in 0 .. VGA_HEIGHT - 1
    PROVE  Row(ScrollUp(b, color), y) =
              IF y < VGA_HEIGHT - 1 THEN Row(b, y + 1) ELSE Blanks(color)
<1>1. /\ VGA_WIDTH \in Nat \ {0} /\ VGA_HEIGHT \in Nat \ {0} /\ y \in Nat
      /\ y * VGA_WIDTH \in Int /\ (VGA_HEIGHT - 1) * VGA_WIDTH \in Int
      /\ (y + 1) * VGA_WIDTH = y * VGA_WIDTH + VGA_WIDTH
  BY TerminalConstants
<1>2. ASSUME NEW x \in 1 .. VGA_WIDTH PROVE y * VGA_WIDTH + x - 1 \in Index
  <2>1. x - 1 \in Columns /\ y * VGA_WIDTH + x - 1 = y * VGA_WIDTH + (x - 1)
    BY <1>1 DEF Columns
  <2>2. QED BY <2>1, CellIndex
<1>3. CASE y < VGA_HEIGHT - 1
  <2>1. y * VGA_WIDTH + VGA_WIDTH <= (VGA_HEIGHT - 1) * VGA_WIDTH
    BY <1>1, <1>3, RowOrder
  <2>2. \A x \in 1 .. VGA_WIDTH :
           /\ y * VGA_WIDTH + x - 1 < (VGA_HEIGHT - 1) * VGA_WIDTH
           /\ y * VGA_WIDTH + x - 1 + VGA_WIDTH = (y + 1) * VGA_WIDTH + x - 1
    BY <1>1, <2>1
  <2>3. \A x \in 1 .. VGA_WIDTH :
           ScrollUp(b, color)[y * VGA_WIDTH + x - 1] = b[(y + 1) * VGA_WIDTH + x - 1]
    BY <1>2, <2>2 DEF ScrollUp
  <2>4. QED BY <1>3, <2>3 DEF Row
<1>4. CASE ~(y < VGA_HEIGHT - 1)
  <2>1. y = VGA_HEIGHT - 1
    BY <1>1, <1>4
  <2>2. \A x \in 1 .. VGA_WIDTH : ~(y * VGA_WIDTH + x - 1 < (VGA_HEIGHT - 1) * VGA_WIDTH)
    BY <1>1, <2>1
  <2>3. \A x \in 1 .. VGA_WIDTH :
           ScrollUp(b, color)[y * VGA_WIDTH + x - 1] = vga_entry(SPACE, color)
    BY <1>2, <2>2 DEF ScrollUp
  <2>4. QED BY <1>4, <2>3 DEF Row, Blanks
<1>5. QED BY <1>3, <1>4

\* Scrolling is one blank line more of paper.
LEMMA PaperScroll ==
    ASSUME NEW g \in Seq(Lines), NEW b \in [Index -> Cells], NEW color \in 0 .. 255
    PROVE  Paper(Append(g, Row(b, 0)), ScrollUp(b, color)) = Append(Paper(g, b), Blanks(color))
<1>1. VGA_HEIGHT \in Nat \ {0} /\ Len(g) \in Nat
  BY TerminalConstants
<1>2. Row(b, 0) \in Lines /\ Blanks(color) \in Lines
  <2>1. 0 \in 0 .. VGA_HEIGHT - 1 /\ SPACE \in 0 .. 255
    BY <1>1 DEF SPACE
  <2>2. Row(b, 0) \in Lines
    BY <2>1, RowType DEF Lines
  <2>3. vga_entry(SPACE, color) \in Cells
    BY <2>1, EntryType
  <2>4. QED BY <2>2, <2>3 DEF Lines, Blanks
<1>3. PICK h \in Seq(Lines) : h = Append(g, Row(b, 0))
  BY <1>2, AppendProperties
<1>4. PICK d \in [Index -> Cells] : d = ScrollUp(b, color)
  BY ScrollType
<1>5. PICK p \in Seq(Lines) : p = Paper(g, b)
  BY PaperLines
<1>6. /\ Len(h) = Len(g) + 1 /\ h[Len(g) + 1] = Row(b, 0)
      /\ \A i \in 1 .. Len(g) : h[i] = g[i]
  BY <1>3, <1>2, AppendProperties
<1>7. PICK q \in Seq(Lines) : q = Append(p, Blanks(color))
  BY <1>2, AppendProperties
<1>8. /\ Len(q) = Len(p) + 1 /\ q[Len(p) + 1] = Blanks(color)
      /\ \A i \in 1 .. Len(p) : q[i] = p[i]
  BY <1>2, <1>7, AppendProperties
<1>9. /\ Len(p) = Len(g) + VGA_HEIGHT /\ \A i \in 1 .. Len(g) : p[i] = g[i]
      /\ \A y \in 0 .. VGA_HEIGHT - 1 : p[Len(g) + y + 1] = Row(b, y)
  BY <1>5, PaperLines
<1>10. Len(q) = Len(h) + VGA_HEIGHT
  BY <1>1, <1>6, <1>8, <1>9
<1>11. ASSUME NEW i \in 1 .. Len(h) PROVE q[i] = h[i]
  <2>1. CASE i \in 1 .. Len(g)
    <3>1. i \in 1 .. Len(p)
      BY <1>1, <1>9, <2>1
    <3>2. QED BY <1>6, <1>8, <1>9, <2>1, <3>1
  <2>2. CASE i = Len(g) + 1
    <3>1. i \in 1 .. Len(p) /\ i = Len(g) + 0 + 1 /\ 0 \in 0 .. VGA_HEIGHT - 1
      BY <1>1, <1>9, <2>2
    <3>2. p[i] = Row(b, 0)
      BY <1>9, <3>1
    <3>3. QED BY <1>6, <1>8, <2>2, <3>1, <3>2
  <2>3. QED BY <1>1, <1>6, <2>1, <2>2
<1>12. ASSUME NEW y \in 0 .. VGA_HEIGHT - 1 PROVE q[Len(h) + y + 1] = Row(d, y)
  <2>1. Row(d, y) = IF y < VGA_HEIGHT - 1 THEN Row(b, y + 1) ELSE Blanks(color)
    BY <1>4, ScrollRows
  <2>2. CASE y < VGA_HEIGHT - 1
    <3>1. /\ y + 1 \in 0 .. VGA_HEIGHT - 1 /\ Len(h) + y + 1 = Len(g) + (y + 1) + 1
          /\ Len(h) + y + 1 \in 1 .. Len(p)
      BY <1>1, <1>6, <1>9, <2>2
    <3>2. p[Len(g) + (y + 1) + 1] = Row(b, y + 1)
      BY <1>9, <3>1
    <3>3. QED BY <1>8, <2>1, <2>2, <3>1, <3>2
  <2>3. CASE ~(y < VGA_HEIGHT - 1)
    <3>1. Len(h) + y + 1 = Len(p) + 1
      <4>1. y = VGA_HEIGHT - 1
        BY <1>1, <2>3
      <4>2. QED BY <1>1, <1>6, <1>9, <4>1
    <3>2. QED BY <1>8, <2>1, <2>3, <3>1
  <2>4. QED BY <2>2, <2>3
<1>13. q = Paper(h, d)
  BY <1>10, <1>11, <1>12, PaperEqual
<1>14. QED BY <1>3, <1>4, <1>5, <1>7, <1>13

\* What PaperRoll calls a blank line, on a cleared screen.
LEMMA BlankPaper ==
    ASSUME NEW color \in 0 .. 255
    PROVE  Paper(<<>>, Blank(color)) = [y \in 1 .. VGA_HEIGHT |-> Blanks(color)]
<1>1. VGA_HEIGHT \in Nat \ {0} /\ VGA_WIDTH \in Nat \ {0}
  BY TerminalConstants
<1>2. ASSUME NEW y \in 1 .. VGA_HEIGHT PROVE Row(Blank(color), y - 1) = Blanks(color)
  <2>1. y - 1 \in 0 .. VGA_HEIGHT - 1 /\ (y - 1) * VGA_WIDTH \in Int
    BY <1>1
  <2>2. ASSUME NEW x \in 1 .. VGA_WIDTH PROVE (y - 1) * VGA_WIDTH + x - 1 \in Index
    <3>1. x - 1 \in Columns /\ (y - 1) * VGA_WIDTH + x - 1 = (y - 1) * VGA_WIDTH + (x - 1)
      BY <1>1, <2>1 DEF Columns
    <3>2. QED BY <2>1, <3>1, CellIndex
  <2>3. QED BY <2>2 DEF Row, Blank, Blanks
<1>3. [y \in 1 .. VGA_HEIGHT |-> Row(Blank(color), y - 1)] = [y \in 1 .. VGA_HEIGHT |-> Blanks(color)]
  BY <1>2
<1>4. Blanks(color) \in Lines
  BY SpaceType DEF Lines, Blanks
<1>5. [y \in 1 .. VGA_HEIGHT |-> Blanks(color)] \in Seq(Lines)
  BY <1>1, <1>4
<1>6. QED BY <1>3, <1>5, ConcatEmptySeq DEF Paper

\* PaperRoll's cells are the screen's.
LEMMA RollCells ==
    /\ \A c, k : Roll!Cell(c, k) = vga_entry(c, k)
    /\ \A k : Roll!BlankLine(k) = Blanks(k)
  BY DEF Roll!Cell, Roll!BlankLine, vga_entry, Blanks

\* A cleared terminal is a fresh roll.
LEMMA RollInit == Init => Roll!Init
<1> SUFFICES ASSUME Init PROVE Roll!Init
  OBVIOUS
<1>1. /\ gone = <<>> /\ terminal_buffer = Blank(LIGHT_GREY_ON_BLACK) /\ terminal_row = 0
      /\ terminal_column = 0 /\ terminal_color = LIGHT_GREY_ON_BLACK
  BY DEF Init
<1>2. gone \o [y \in 1 .. VGA_HEIGHT |-> Row(terminal_buffer, y - 1)] =
        [y \in 1 .. VGA_HEIGHT |-> Roll!BlankLine(LIGHT_GREY_ON_BLACK)]
  <2>1. LIGHT_GREY_ON_BLACK \in 0 .. 255
    BY DEF LIGHT_GREY_ON_BLACK
  <2>2. QED BY <1>1, <2>1, BlankPaper, RollCells DEF Paper
<1>3. Len(gone) + Lowest(terminal_row, VGA_HEIGHT) + 1 = 1 /\ terminal_column + 1 = 1
  BY <1>1, TerminalConstants DEF Lowest
<1>4. QED BY <1>1, <1>2, <1>3 DEF Roll!Init, Roll!FreshRoll

\* terminal_initialize starts a new roll.
LEMMA RollInitialize == terminal_initialize => Roll!NewRoll
<1> SUFFICES ASSUME terminal_initialize PROVE Roll!NewRoll
  OBVIOUS
<1>1. /\ gone' = <<>> /\ terminal_buffer' = Blank(LIGHT_GREY_ON_BLACK) /\ terminal_row' = 0
      /\ terminal_column' = 0 /\ terminal_color' = LIGHT_GREY_ON_BLACK
  BY DEF terminal_initialize
<1>2. gone' \o [y \in 1 .. VGA_HEIGHT |-> Row(terminal_buffer', y - 1)] =
        [y \in 1 .. VGA_HEIGHT |-> Roll!BlankLine(LIGHT_GREY_ON_BLACK)]
  <2>1. LIGHT_GREY_ON_BLACK \in 0 .. 255
    BY DEF LIGHT_GREY_ON_BLACK
  <2>2. QED BY <1>1, <2>1, BlankPaper, RollCells DEF Paper
<1>3. Len(gone') + Lowest(terminal_row', VGA_HEIGHT) + 1 = 1 /\ terminal_column' + 1 = 1
  BY <1>1, TerminalConstants DEF Lowest
<1>4. QED BY <1>1, <1>2, <1>3 DEF Roll!NewRoll, Roll!FreshRoll

\* What the invariant says of the mapped variables.
LEMMA RollShape ==
    ASSUME Inv
    PROVE  /\ gone \in Seq(Lines) /\ Len(gone) \in Nat /\ terminal_buffer \in [Index -> Cells]
           /\ terminal_row \in Nat /\ terminal_column \in Columns /\ terminal_column \in Nat
           /\ terminal_color \in 0 .. 255 /\ VGA_HEIGHT \in Nat \ {0} /\ VGA_WIDTH \in Nat \ {0}
           /\ Len(gone \o [y \in 1 .. VGA_HEIGHT |-> Row(terminal_buffer, y - 1)]) =
                 Len(gone) + VGA_HEIGHT
<1>1. /\ gone \in Seq(Lines) /\ Len(gone) \in Nat /\ terminal_buffer \in [Index -> Cells]
      /\ terminal_row \in Nat /\ terminal_column \in Columns /\ VGA_HEIGHT \in Nat \ {0}
      /\ VGA_WIDTH \in Nat \ {0}
  BY TerminalConstants DEF Inv, TypeOK, Lines
<1>2. terminal_color \in 0 .. 255
  BY ColorType DEF Inv
<1>3. terminal_column \in Nat
  BY <1>1 DEF Columns
<1>4. Len(Paper(gone, terminal_buffer)) = Len(gone) + VGA_HEIGHT
  BY <1>1, PaperLines
<1>5. QED BY <1>1, <1>2, <1>3, <1>4 DEF Paper

\* A newline moves down by one line, never by more than one below the screen.
LEMMA RollNewLine == Inv /\ PutNewLine => Roll!NewLine
<1> SUFFICES ASSUME Inv, PutNewLine PROVE Roll!NewLine
  OBVIOUS
<1>1. /\ terminal_column' = 0 /\ terminal_row' = (terminal_row + 1) % WORD
      /\ UNCHANGED <<terminal_color, terminal_buffer, gone>> /\ terminal_row < MaxRow
  BY DEF PutNewLine
<1>2. terminal_row' = terminal_row + 1
  <2>1. terminal_row + 1 \in 0 .. WORD - 1
    BY <1>1, TerminalConstants DEF Inv, TypeOK
  <2>2. QED BY <1>1, <2>1, TerminalConstants
<1>3. PICK n \in Nat : n = Len(gone)
  BY RollShape
<1>4. PICK r \in Nat : r = terminal_row
  BY RollShape
<1>5. n + Lowest(r + 1, VGA_HEIGHT) + 1 =
        IF n + Lowest(r, VGA_HEIGHT) + 1 = (n + VGA_HEIGHT) + 1
        THEN n + Lowest(r, VGA_HEIGHT) + 1 ELSE (n + Lowest(r, VGA_HEIGHT) + 1) + 1
  BY TerminalConstants DEF Lowest
<1>6. Roll!Below = (n + VGA_HEIGHT) + 1
  BY <1>3, RollShape DEF Roll!Below
<1>7. QED BY <1>1, <1>2, <1>3, <1>4, <1>5, <1>6 DEF Roll!NewLine

\* The cursor's arithmetic: n lines are gone, the cursor is in row t.
LEMMA CursorArithmetic ==
    ASSUME NEW n \in Nat, NEW t \in Nat
    PROVE  /\ MustScroll(t) => /\ n + Lowest(t, VGA_HEIGHT) + 1 = (n + VGA_HEIGHT) + 1
                               /\ n + Lowest(t, VGA_HEIGHT) + 1 = (n + 1) + (VGA_HEIGHT - 1) + 1
                               /\ VGA_HEIGHT - 1 \in 0 .. VGA_HEIGHT - 1
           /\ ~MustScroll(t) => /\ n + Lowest(t, VGA_HEIGHT) + 1 # (n + VGA_HEIGHT) + 1
                                /\ n + Lowest(t, VGA_HEIGHT) + 1 = n + t + 1
                                /\ t \in 0 .. VGA_HEIGHT - 1
           /\ \A r \in 0 .. VGA_HEIGHT - 1 :
                 /\ n + Lowest(r + 1, VGA_HEIGHT) + 1 = (n + r + 1) + 1
                 /\ n + Lowest(r, VGA_HEIGHT) + 1 = n + r + 1
<1>1. PICK h \in Nat \ {0} : h = VGA_HEIGHT
  BY TerminalConstants
<1>2. MustScroll(t) <=> t >= h
  BY <1>1 DEF MustScroll
<1>3. \A a : Lowest(a, VGA_HEIGHT) = IF a < h THEN a ELSE h
  BY <1>1 DEF Lowest
<1>4. ASSUME t >= h
      PROVE  /\ n + Lowest(t, VGA_HEIGHT) + 1 = (n + h) + 1
             /\ n + Lowest(t, VGA_HEIGHT) + 1 = (n + 1) + (h - 1) + 1 /\ h - 1 \in 0 .. h - 1
  BY <1>3, <1>4
<1>5. ASSUME ~(t >= h)
      PROVE  /\ n + Lowest(t, VGA_HEIGHT) + 1 # (n + h) + 1
             /\ n + Lowest(t, VGA_HEIGHT) + 1 = n + t + 1 /\ t \in 0 .. h - 1
  BY <1>3, <1>5
<1>6. ASSUME NEW r \in 0 .. h - 1
      PROVE  /\ n + Lowest(r + 1, VGA_HEIGHT) + 1 = (n + r + 1) + 1
             /\ n + Lowest(r, VGA_HEIGHT) + 1 = n + r + 1
  <2>1. r < h /\ (r + 1 < h \/ r + 1 = h)
    OBVIOUS
  <2>2. Lowest(r + 1, VGA_HEIGHT) = r + 1 /\ Lowest(r, VGA_HEIGHT) = r
    BY <1>3, <2>1
  <2>3. QED BY <2>2
<1>7. QED BY <1>1, <1>2, <1>4, <1>5, <1>6

\* A character stored in row r of a screen b, after which g is gone, is printed
\* on the roll the screen and the lines gone were before the store.
LEMMA PrintOnRoll ==
    ASSUME Inv, NEW c \in Chars, NEW g \in Seq(Lines), NEW b \in [Index -> Cells],
           NEW r \in 0 .. VGA_HEIGHT - 1,
           gone' = g, terminal_color' = terminal_color,
           terminal_buffer' = Stored(b, r, terminal_column, vga_entry(c, terminal_color)),
           AtLineEnd(terminal_column) => terminal_column' = 0 /\ terminal_row' = r + 1,
           ~AtLineEnd(terminal_column) =>
               terminal_column' = terminal_column + 1 /\ terminal_row' = r,
           Len(gone) + Lowest(terminal_row, VGA_HEIGHT) + 1 = Len(g) + r + 1,
           Paper(g, b) = IF Len(gone) + Lowest(terminal_row, VGA_HEIGHT) + 1
                              = (Len(gone) + VGA_HEIGHT) + 1
                         THEN Append(Paper(gone, terminal_buffer), Blanks(terminal_color))
                         ELSE Paper(gone, terminal_buffer)
    PROVE  Roll!PrintChar(c)
<1>1. /\ terminal_column \in Columns /\ terminal_column \in Nat /\ terminal_color \in 0 .. 255
      /\ Len(Paper(gone, terminal_buffer)) = Len(gone) + VGA_HEIGHT
  BY RollShape DEF Paper
<1>2. PICK e \in Cells : e = vga_entry(c, terminal_color)
  BY <1>1, EntryType, TerminalConstants
<1>3. Paper(gone', terminal_buffer') =
        Printed(Paper(g, b), Len(g) + r + 1, terminal_column + 1, e)
  <2>1. PICK col \in Columns : col = terminal_column
    BY <1>1
  <2>2. Paper(g, Stored(b, r, col, e)) = Printed(Paper(g, b), Len(g) + r + 1, col + 1, e)
    BY PaperStore
  <2>3. gone' = g /\ terminal_buffer' = Stored(b, r, col, e)
    BY <1>2, <2>1
  <2>4. QED BY <2>1, <2>2, <2>3
<1>4. Roll!Cell(c, terminal_color) = e /\ Roll!BlankLine(terminal_color) = Blanks(terminal_color)
  BY <1>2, RollCells
<1>5. Roll!Below = (Len(gone) + VGA_HEIGHT) + 1
  BY <1>1 DEF Roll!Below, Paper
<1>6. PICK n \in Nat : n = Len(g)
  OBVIOUS
<1>7. CASE AtLineEnd(terminal_column)
  <2>1. terminal_column + 1 = VGA_WIDTH /\ terminal_column' + 1 = 1
    BY <1>7 DEF AtLineEnd
  <2>2. Len(gone') + Lowest(terminal_row', VGA_HEIGHT) + 1 = (Len(g) + r + 1) + 1
    BY <1>6, <1>7, CursorArithmetic
  <2>3. QED BY <1>3, <1>4, <1>5, <2>1, <2>2 DEF Roll!PrintChar, Paper, Printed
<1>8. CASE ~AtLineEnd(terminal_column)
  <2>1. terminal_column + 1 # VGA_WIDTH
    BY <1>8 DEF AtLineEnd
  <2>2. Len(gone') + Lowest(terminal_row', VGA_HEIGHT) + 1 = Len(g) + r + 1
    BY <1>6, <1>8, CursorArithmetic
  <2>3. QED BY <1>3, <1>4, <1>5, <1>8, <2>1, <2>2 DEF Roll!PrintChar, Paper, Printed
<1>9. QED BY <1>7, <1>8

\* A character is printed where the cursor is, on a fresh line if it is below.
LEMMA RollGlyph ==
    ASSUME Inv, NEW c \in Chars, PutGlyph(c) PROVE Roll!PrintChar(c)
<1>1. /\ gone \in Seq(Lines) /\ Len(gone) \in Nat /\ terminal_buffer \in [Index -> Cells]
      /\ terminal_row \in Nat /\ terminal_color \in 0 .. 255 /\ VGA_HEIGHT \in Nat \ {0}
  BY RollShape
<1>2. terminal_color' = terminal_color
  BY DEF PutGlyph
<1>3. CASE MustScroll(terminal_row)
  <2>1. 0 \in 0 .. VGA_HEIGHT - 1 /\ VGA_HEIGHT - 1 \in 0 .. VGA_HEIGHT - 1
    BY <1>1
  <2>2. Row(terminal_buffer, 0) \in Lines
    BY <1>1, <2>1, RowType DEF Lines
  <2>3. PICK g \in Seq(Lines) : g = Append(gone, Row(terminal_buffer, 0))
    BY <1>1, <2>2, AppendProperties
  <2>4. Len(g) = Len(gone) + 1
    BY <1>1, <2>2, <2>3, AppendProperties
  <2>5. PICK b \in [Index -> Cells] : b = ScrollUp(terminal_buffer, terminal_color)
    BY <1>1, ScrollType
  <2>6. PICK r \in 0 .. VGA_HEIGHT - 1 : r = VGA_HEIGHT - 1
    BY <2>1
  <2>7. gone' = g
    BY <1>3, <2>3 DEF PutGlyph
  <2>8. terminal_buffer' = Stored(b, r, terminal_column, vga_entry(c, terminal_color))
    BY <1>3, <2>5, <2>6 DEF PutGlyph, Stored
  <2>9. /\ AtLineEnd(terminal_column) => terminal_column' = 0 /\ terminal_row' = r + 1
        /\ ~AtLineEnd(terminal_column) =>
               terminal_column' = terminal_column + 1 /\ terminal_row' = r
    BY <1>3, <2>6 DEF PutGlyph
  <2>10. /\ Len(gone) + Lowest(terminal_row, VGA_HEIGHT) + 1 = (Len(gone) + VGA_HEIGHT) + 1
         /\ Len(gone) + Lowest(terminal_row, VGA_HEIGHT) + 1 =
              (Len(gone) + 1) + (VGA_HEIGHT - 1) + 1
    BY <1>1, <1>3, CursorArithmetic
  <2>11. Paper(g, b) = Append(Paper(gone, terminal_buffer), Blanks(terminal_color))
    BY <1>1, <2>3, <2>5, PaperScroll
  <2>12. Len(gone) + Lowest(terminal_row, VGA_HEIGHT) + 1 = Len(g) + r + 1
    BY <2>4, <2>6, <2>10
  <2>13. QED BY <1>2, <2>7, <2>8, <2>9, <2>10, <2>11, <2>12, PrintOnRoll
<1>4. CASE ~MustScroll(terminal_row)
  <2>1. /\ Len(gone) + Lowest(terminal_row, VGA_HEIGHT) + 1 # (Len(gone) + VGA_HEIGHT) + 1
        /\ Len(gone) + Lowest(terminal_row, VGA_HEIGHT) + 1 = Len(gone) + terminal_row + 1
        /\ terminal_row \in 0 .. VGA_HEIGHT - 1
    BY <1>1, <1>4, CursorArithmetic
  <2>2. PICK g \in Seq(Lines) : g = gone
    BY <1>1
  <2>3. PICK b \in [Index -> Cells] : b = terminal_buffer
    BY <1>1
  <2>4. PICK r \in 0 .. VGA_HEIGHT - 1 : r = terminal_row
    BY <2>1
  <2>5. gone' = g
    BY <1>4, <2>2 DEF PutGlyph
  <2>6. terminal_buffer' = Stored(b, r, terminal_column, vga_entry(c, terminal_color))
    BY <1>4, <2>3, <2>4 DEF PutGlyph, Stored
  <2>7. /\ AtLineEnd(terminal_column) => terminal_column' = 0 /\ terminal_row' = r + 1
        /\ ~AtLineEnd(terminal_column) =>
               terminal_column' = terminal_column + 1 /\ terminal_row' = r
    BY <1>4, <2>4 DEF PutGlyph
  <2>8. QED BY <1>2, <2>1, <2>2, <2>3, <2>4, <2>5, <2>6, <2>7, PrintOnRoll
<1>5. QED BY <1>3, <1>4

\* Setting a colour changes the ink.
LEMMA RollSetColor ==
    ASSUME NEW color, terminal_setcolor(color) PROVE Roll!SetInk(color)
  BY DEF terminal_setcolor, Roll!SetInk

\* Every step of the terminal is one of the roll, or leaves the roll alone.
LEMMA RollNext == Inv /\ [Next]_vars => [Roll!Next]_(Roll!vars)
<1> SUFFICES ASSUME Inv, [Next]_vars PROVE [Roll!Next]_(Roll!vars)
  OBVIOUS
<1>1. CASE terminal_initialize
  BY <1>1, RollInitialize DEF Roll!Next
<1>2. ASSUME NEW color \in Colors, terminal_setcolor(color) PROVE Roll!Next
  BY <1>2, RollSetColor DEF Roll!Next
<1>3. ASSUME NEW c \in Chars, terminal_putchar(c) PROVE Roll!Next
  <2>1. CASE c = NEWLINE
    <3>1. PutNewLine
      BY <1>3, <2>1 DEF terminal_putchar
    <3>2. Roll!NewLine
      BY <3>1, RollNewLine
    <3>3. QED BY <3>2 DEF Roll!Next
  <2>2. CASE c # NEWLINE
    <3>1. PutGlyph(c)
      BY <1>3, <2>2 DEF terminal_putchar
    <3>2. Roll!PrintChar(c)
      BY <3>1, RollGlyph
    <3>3. QED BY <2>2, <3>2 DEF Roll!Next
  <2>3. QED BY <2>1, <2>2
<1>4. CASE UNCHANGED vars
  BY <1>4 DEF vars, Roll!vars
<1>5. QED BY <1>1, <1>2, <1>3, <1>4 DEF Next

(***************************************************************************)
(* terminal.c keeps a terminal's promise for every screen size: whatever   *)
(* characters terminal_putchar is given, the lines scrolled off and the    *)
(* screen together are the roll of paper PaperRoll describes.              *)
(***************************************************************************)
THEOREM TerminalImplementsRoll == Spec => ImplementsPaperRoll
<1>1. Init => Roll!Init
  BY RollInit
<1>2. Inv /\ [Next]_vars => [Roll!Next]_(Roll!vars)
  BY RollNext
<1>3. Spec => []Inv
  BY Invariance
<1>4. QED BY <1>1, <1>2, <1>3, PTL DEF Spec, ImplementsPaperRoll, Roll!Spec

=============================================================================
