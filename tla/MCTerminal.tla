----------------------------- MODULE MCTerminal -----------------------------
(* A screen of two lines of two cells; 'A', a byte above 127 and newline.  *)
EXTENDS Terminal

MCChars  == {NEWLINE, 65, 200}
MCColors == {7, 12}
=============================================================================
