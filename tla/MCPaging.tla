------------------------------ MODULE MCPaging ------------------------------
(***************************************************************************)
(* Paging on five frames and three tables of four entries: frames 0 and 1  *)
(* become tables at boot, 2 and 3 are low memory (3 the kernel's in one    *)
(* run), and 4 lies above the identity map.                                *)
(***************************************************************************)
EXTENDS Paging

MCReserved    == {3}
MCClientPages == {4, 5, 8}
MCWatched     == {5}
MCFlagSets    == {{"RW"}, {"P", "US"}}
MCJunk        == {[frame |-> 2, flags |-> {"P", "RW", "US"}]}
=============================================================================
