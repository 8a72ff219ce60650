--------------------------- MODULE FrameAllocator ---------------------------
(***************************************************************************)
(* The physical frame allocator of kernel/memory.c: a bitmap of n_frames   *)
(* bits kept in words of BITS bits, scanned from the bottom.               *)
(*                                                                         *)
(* A word is the set of the offsets of its one bits, so `|= 1 << off' and  *)
(* `&= ~(1 << off)' are set union and difference.  Addresses are counted   *)
(* in units of PAGE_SIZE: the address a call returns is the frame number,  *)
(* and NULL is frame 0.                                                    *)
(***************************************************************************)
EXTENDS Integers

CONSTANTS
    BITS,               \* bits in a word of the bitmap (32 in the code)
    n_frames            \* number of physical frames (65536 in the code)

ASSUME FrameConstants == BITS \in Nat \ {0} /\ n_frames \in Nat

VARIABLES
    frames,             \* the bitmap
    owned,              \* history: frames granted to a client and not freed
    ret                 \* the last value alloc_frame returned

vars == <<frames, owned, ret>>

NULL == 0

(***************************************************************************)
(* INDEX_FROM_BIT(n_frames) words are cleared and scanned; when n_frames   *)
(* is no multiple of BITS, the frames of the last partial word are never   *)
(* managed.                                                                *)
(***************************************************************************)
INDEX_FROM_BIT(b)  == b \div BITS
OFFSET_FROM_BIT(b) == b % BITS

Offsets == 0 .. BITS - 1
ScansPartialWord == 0 .. INDEX_FROM_BIT(n_frames)
Words   == 0 .. INDEX_FROM_BIT(n_frames) - 1
Managed == 0 .. INDEX_FROM_BIT(n_frames) * BITS - 1
AllOnes == Offsets

ClearedBitmap == [w \in Words |-> {}]

SetWrongBit(fr, f) ==
    [fr EXCEPT ![INDEX_FROM_BIT(f)] = @ \cup {INDEX_FROM_BIT(f)}]

SetFrame(fr, f) ==
    [fr EXCEPT ![INDEX_FROM_BIT(f)] = @ \cup {OFFSET_FROM_BIT(f)}]

ClearWord(fr, f) ==
    [fr EXCEPT ![INDEX_FROM_BIT(f)] = {}]

ClearFrame(fr, f) ==
    [fr EXCEPT ![INDEX_FROM_BIT(f)] = @ \ {OFFSET_FROM_BIT(f)}]

\* The bitmap's bit for frame f; the allocator's client view of `in use'.
TestFrame(fr, f) == OFFSET_FROM_BIT(f) \in fr[INDEX_FROM_BIT(f)]

SkipsPartlyUsedWords(fr, i, j) ==
    /\ j \notin fr[i]
    /\ \A k \in Words   : k < i => fr[k] # {}
    /\ \A k \in Offsets : k < j => k \in fr[i]

(***************************************************************************)
(* first_free_frame() returns i * 32 + j: words below i are skipped        *)
(* because they equal 0xFFFFFFFF, bits below j because they are set.       *)
(***************************************************************************)
FirstFree(fr, i, j) ==
    /\ j \notin fr[i]
    /\ \A k \in Words   : k < i => fr[k] = AllOnes
    /\ \A k \in Offsets : k < j => k \in fr[i]

\* first_free_frame() falls through both loops and returns (uint32_t)-1.
NoFreeFrame(fr) == \A i \in Words : fr[i] = AllOnes

(***************************************************************************)
(* The results alloc_frame() can have on bitmap fr (there is exactly one): *)
(* the address returned and the bitmap left behind.                        *)
(***************************************************************************)
AllocOutcomes(fr) ==
    IF NoFreeFrame(fr)
    THEN {[frame |-> NULL, bits |-> fr]}
    ELSE {[frame |-> ij[1] * BITS + ij[2],
           bits  |-> SetFrame(fr, ij[1] * BITS + ij[2])] :
             ij \in {w \in Words \X Offsets : FirstFree(fr, w[1], w[2])}}

-----------------------------------------------------------------------------
\* paging_init() clears the bitmap before the first allocation.
Init == frames = ClearedBitmap /\ owned = {} /\ ret = NULL

(***************************************************************************)
(* A client takes a NULL result for a refusal, so it does not own frame 0. *)
(***************************************************************************)
alloc_frame ==
    \E o \in AllocOutcomes(frames) :
        /\ frames' = o.bits
        /\ owned'  = owned \cup ({o.frame} \ {NULL})
        /\ ret'    = o.frame

free_frame(f) ==
    /\ f \in owned
    /\ frames' = ClearFrame(frames, f)
    /\ owned'  = owned \ {f}
    /\ UNCHANGED ret

Next == alloc_frame \/ \E f \in Managed : free_frame(f)

Spec == Init /\ [][Next]_vars

-----------------------------------------------------------------------------
Used == {f \in Managed : TestFrame(frames, f)}

TypeOK ==
    /\ frames \in [Words -> SUBSET Offsets]
    /\ owned \subseteq Managed
    /\ ret \in Managed \cup {NULL}

(***************************************************************************)
(* The bitmap and the clients agree: a frame's bit is set exactly when a   *)
(* client owns the frame, frame 0 aside, which is marked by the first call *)
(* of alloc_frame and which no client can own or return.                   *)
(***************************************************************************)
BitmapMatchesOwners ==
    /\ NULL \notin owned
    /\ Used \ {NULL} = owned

(***************************************************************************)
(* The bitmap allocator implements the pool of FrameSet: it grants the     *)
(* lowest frame that is not in use, and refuses only when there is none.   *)
(***************************************************************************)
Pool == INSTANCE FrameSet WITH pool <- Managed \ Used

ImplementsFrameSet == Pool!Spec

=============================================================================
