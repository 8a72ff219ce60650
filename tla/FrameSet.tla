------------------------------ MODULE FrameSet ------------------------------
(***************************************************************************)
(* What a physical frame allocator promises its clients: a pool of frame   *)
(* numbers from which the lowest one is granted, and to which a released   *)
(* frame returns.  A call that finds the pool empty is refused with NULL.  *)
(*                                                                         *)
(* Frame addresses are C pointers, so frame 0 and NULL are one value: the  *)
(* client that receives frame 0 sees a refusal and never owns the frame.   *)
(***************************************************************************)
EXTENDS Naturals

CONSTANT Managed        \* the frame numbers the allocator manages

VARIABLES
    pool,               \* frames that may still be granted
    owned,              \* frames the clients hold
    ret                 \* what the last call of the allocator returned

NULL == 0

vars == <<pool, owned, ret>>

Init == pool = Managed /\ owned = {} /\ ret = NULL

Grant(f) ==
    /\ f \in pool
    /\ \A g \in pool : f <= g
    /\ pool'  = pool \ {f}
    /\ owned' = owned \cup ({f} \ {NULL})
    /\ ret'   = f

Refuse ==
    /\ pool = {}
    /\ ret' = NULL
    /\ UNCHANGED <<pool, owned>>

Release(f) ==
    /\ f \in owned
    /\ pool'  = pool \cup {f}
    /\ owned' = owned \ {f}
    /\ UNCHANGED ret

Next == \/ \E f \in Managed : Grant(f) \/ Release(f)
        \/ Refuse

Spec == Init /\ [][Next]_vars

=============================================================================
