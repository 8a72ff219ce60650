------------------------------ MODULE Keyboard ------------------------------
(***************************************************************************)
(* The keyboard driver's decoding of scancodes, kernel/keyboard.c.         *)
(*                                                                         *)
(* A character is the key that printed it and the case it was printed in:  *)
(* the tables differ per key only in which of two glyphs they hold.        *)
(***************************************************************************)
EXTENDS Integers

SCAN_LEFTCTRL   == 29
SCAN_LEFTSHIFT  == 42
SCAN_RIGHTSHIFT == 54
SCAN_LEFTALT    == 56
SCAN_CAPSLOCK   == 58
Shifts == {SCAN_LEFTSHIFT, SCAN_RIGHTSHIFT}

\* The indices that hold a letter, and those that hold any character at all.
Letters  == (16 .. 25) \cup (30 .. 38) \cup (44 .. 50)
Printing == (2 .. 28) \cup (30 .. 41) \cup (43 .. 53) \cup {55, 57, 75, 79}

\* Backspace, tab, newline, '*', ' ', '-' and '+': alike in both tables.
OneGlyph == {14, 15, 28, 55, 57, 75, 79}

Scancodes == 0 .. 127
NoChar == [key |-> 0, upper |-> FALSE]
KeyChars == [key : Scancodes, upper : BOOLEAN]

KeyboardState == [shift_pressed : BOOLEAN, ctrl_pressed : BOOLEAN,
                  alt_pressed : BOOLEAN, caps_lock : BOOLEAN]

ClearedState == [shift_pressed |-> FALSE, ctrl_pressed |-> FALSE,
                 alt_pressed |-> FALSE, caps_lock |-> FALSE]

CapsLockIsShift(ks, sc) ==
    IF sc \notin Printing
    THEN NoChar
    ELSE [key |-> sc, upper |-> ks.shift_pressed \/ ks.caps_lock]

keyboard_scancode_to_char(ks, sc) ==
    IF sc \notin Printing
    THEN NoChar
    ELSE [key |-> sc,
          upper |-> CASE sc \in Letters  -> ks.shift_pressed # ks.caps_lock
                      [] sc \in OneGlyph -> FALSE
                      [] OTHER           -> ks.shift_pressed]

\* The first switch of keyboard_handler: a release, its high bit taken off.
KeyRelease(ks, sc) ==
    CASE sc \in Shifts        -> [ks EXCEPT !.shift_pressed = FALSE]
      [] sc = SCAN_LEFTCTRL   -> [ks EXCEPT !.ctrl_pressed = FALSE]
      [] sc = SCAN_LEFTALT    -> [ks EXCEPT !.alt_pressed = FALSE]
      [] OTHER                -> ks

\* The second switch: a press of a modifier.
KeyPress(ks, sc) ==
    CASE sc \in Shifts        -> [ks EXCEPT !.shift_pressed = TRUE]
      [] sc = SCAN_LEFTCTRL   -> [ks EXCEPT !.ctrl_pressed = TRUE]
      [] sc = SCAN_LEFTALT    -> [ks EXCEPT !.alt_pressed = TRUE]
      [] sc = SCAN_CAPSLOCK   -> [ks EXCEPT !.caps_lock = ~ks.caps_lock]
      [] OTHER                -> ks

IsRelease(byte) == byte >= 128

ReleaseLooksLikePress(ks, byte) == KeyPress(ks, byte % 128)

\* keyboard_state after keyboard_handler has read byte.
StateAfter(ks, byte) ==
    IF IsRelease(byte) THEN KeyRelease(ks, byte % 128) ELSE KeyPress(ks, byte)

Modifiers == Shifts \cup {SCAN_LEFTCTRL, SCAN_LEFTALT, SCAN_CAPSLOCK}

\* The character keyboard_handler prints for byte; NoChar for none.
CharPrinted(ks, byte) ==
    IF IsRelease(byte) \/ byte \in Modifiers
    THEN NoChar
    ELSE keyboard_scancode_to_char(ks, byte)

=============================================================================
