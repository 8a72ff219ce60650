------------------------------- MODULE MCHeap -------------------------------
(***************************************************************************)
(* A heap of 28 bytes in a 7-bit address space.  MCRequests covers zero,   *)
(* both sides of the alignment, the exact size of the heap and one more;   *)
(* MCHugeRequests adds a size whose sum with heap_position wraps around.   *)
(***************************************************************************)
EXTENDS Heap

MCRequests     == {0, 1, 8, 9, 24, 25}
MCHugeRequests == {8, WORD - 8}
=============================================================================
