----------------------------- MODULE PaperRoll -----------------------------
(***************************************************************************)
(* What a text terminal promises: characters are printed one after the     *)
(* other on a roll of paper that only grows, and the screen shows the last *)
(* Height lines of the roll.  Printed lines never change once the cursor   *)
(* has left them.                                                          *)
(*                                                                         *)
(* Paper is fed only when a character is printed below the screen, so any  *)
(* number of newlines at the bottom advances to the next line only.        *)
(***************************************************************************)
EXTENDS Integers, Sequences

CONSTANTS Width, Height, Chars, Colors, NEWLINE, SPACE, DEFAULT

VARIABLES
    paper,              \* the lines of the roll, each a sequence of cells
    line, column,       \* the cursor: a line number of the roll, a column
    ink                 \* the colour in use

vars == <<paper, line, column, ink>>

Below == Len(paper) + 1         \* the line below the screen

\* A character with the top bit set keeps no colour of its own.
Cell(c, k) == [char |-> c, attr |-> IF c < 128 THEN k ELSE 255]
BlankLine(k) == [x \in 1 .. Width |-> Cell(SPACE, k)]

FreshRoll ==
    /\ paper = [y \in 1 .. Height |-> BlankLine(DEFAULT)]
    /\ line = 1 /\ column = 1 /\ ink = DEFAULT

NewRoll == FreshRoll'

NewLine ==
    /\ line' = IF line = Below THEN line ELSE line + 1
    /\ column' = 1
    /\ UNCHANGED <<paper, ink>>

PrintChar(c) ==
    LET fed == IF line = Below THEN Append(paper, BlankLine(ink)) ELSE paper IN
    /\ paper' = [fed EXCEPT ![line][column] = Cell(c, ink)]
    /\ IF column = Width THEN column' = 1 /\ line' = line + 1
                         ELSE column' = column + 1 /\ UNCHANGED line
    /\ UNCHANGED ink

SetInk(k) == ink' = k /\ UNCHANGED <<paper, line, column>>

Init == FreshRoll
Next ==
    \/ NewRoll
    \/ NewLine
    \/ \E c \in Chars \ {NEWLINE} : PrintChar(c)
    \/ \E k \in Colors : SetInk(k)

Spec == Init /\ [][Next]_vars

=============================================================================
