------------------------------ MODULE MCInput ------------------------------
(***************************************************************************)
(* Both shifts, Ctrl, Caps Lock and the letter 'a'; a timer above the      *)
(* keyboard's level and the slave's first request below it; a page fault   *)
(* and an exception that has no gate.                                      *)
(***************************************************************************)
EXTENDS Input

MCKeys    == {SCAN_LEFTSHIFT, SCAN_RIGHTSHIFT, SCAN_LEFTCTRL,
              SCAN_CAPSLOCK, 30}
MCDevices == {0, 8}
MCExceptions == {14, 20}
=============================================================================
