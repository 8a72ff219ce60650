------------------------ MODULE FrameAllocatorProofs ------------------------
(***************************************************************************)
(* Proofs about the frame allocator for every number of frames and every   *)
(* word size.                                                              *)
(*                                                                         *)
(* The bitmap addresses frame f by word f \div BITS and bit f % BITS.  The *)
(* lemmas first show that this addressing is a bijection, then what        *)
(* setting, clearing and scanning mean for frames instead of bits; the     *)
(* theorems about the specification only use those.  TypeOK and            *)
(* BitmapMatchesOwners are together inductive as they stand.               *)
(***************************************************************************)
EXTENDS FrameAllocator, TLAPS

\* Division with remainder, as INDEX_FROM_BIT and OFFSET_FROM_BIT use it.
LEMMA DivMod ==
    ASSUME NEW a \in Nat, NEW d \in Nat \ {0}
    PROVE  /\ a \div d \in Nat
           /\ a % d \in 0 .. d - 1
           /\ a = ((a \div d) * d) + (a % d)
  OBVIOUS

\* Multiples of the word size keep the order of the words.
LEMMA MulMono ==
    ASSUME NEW i \in Int, NEW k \in Int, NEW d \in Nat, i <= k
    PROVE  i * d <= k * d
  OBVIOUS

\* Products of integers are integers.
LEMMA MulType == ASSUME NEW i \in Int, NEW d \in Int PROVE i * d \in Int
  OBVIOUS

\* The next word starts one word size further.
LEMMA MulSucc == ASSUME NEW i \in Int, NEW d \in Int PROVE (i + 1) * d = i * d + d
  OBVIOUS

\* No two pairs of a word and a bit address the same frame.
LEMMA Unique ==
    ASSUME NEW d \in Nat \ {0}, NEW i \in Int, NEW k \in Int,
           NEW j \in 0 .. d - 1, NEW l \in 0 .. d - 1,
           i * d + j = k * d + l
    PROVE  i = k /\ j = l
<1>1. CASE i < k
  <2>1. (i + 1) * d <= k * d
    BY <1>1, MulMono
  <2>2. QED BY <2>1, MulSucc, MulType
<1>2. CASE k < i
  <2>1. (k + 1) * d <= i * d
    BY <1>2, MulMono
  <2>2. QED BY <2>1, MulSucc, MulType
<1>3. CASE i = k
  BY <1>3, MulType
<1>4. QED BY <1>1, <1>2, <1>3

-----------------------------------------------------------------------------
Bitmap == [Words -> SUBSET Offsets]

\* The number of words cleared and scanned is a natural number.
LEMMA WordCount == INDEX_FROM_BIT(n_frames) \in Nat
  BY FrameConstants, DivMod DEF INDEX_FROM_BIT

\* i * 32 + j, the result of first_free_frame, is a frame at word i, bit j.
LEMMA FrameOfWord ==
    ASSUME NEW i \in Words, NEW j \in Offsets
    PROVE  /\ i * BITS + j \in Managed
           /\ INDEX_FROM_BIT(i * BITS + j) = i
           /\ OFFSET_FROM_BIT(i * BITS + j) = j
<1> DEFINE N == INDEX_FROM_BIT(n_frames)
           f == i * BITS + j
<1>1. /\ N \in Nat /\ BITS \in Nat \ {0} /\ i \in Nat /\ i + 1 <= N
      /\ j \in Nat /\ j < BITS
  BY WordCount, FrameConstants DEF Words, Offsets
<1>2. i * BITS \in Nat /\ N * BITS \in Nat
  BY <1>1
<1>3. i * BITS + BITS <= N * BITS
  BY <1>1, MulMono, MulSucc
<1>4. f \in Nat /\ f < N * BITS
  BY <1>1, <1>2, <1>3
<1>5. f \in Managed
  BY <1>4, <1>2 DEF Managed
<1>6. /\ f \div BITS \in Nat /\ f % BITS \in 0 .. BITS - 1
      /\ f = ((f \div BITS) * BITS) + (f % BITS)
  BY <1>4, <1>1, DivMod
<1>7. f \div BITS = i /\ f % BITS = j
  <2> HIDE DEF f
  <2>1. f = i * BITS + j
    BY DEF f
  <2>2. QED BY <1>1, <1>6, <2>1, Unique
<1>8. QED BY <1>5, <1>7 DEF INDEX_FROM_BIT, OFFSET_FROM_BIT

\* Every managed frame has its bit in a word of the bitmap.
LEMMA WordOfFrame ==
    ASSUME NEW f \in Managed
    PROVE  /\ INDEX_FROM_BIT(f) \in Words
           /\ OFFSET_FROM_BIT(f) \in Offsets
           /\ f = INDEX_FROM_BIT(f) * BITS + OFFSET_FROM_BIT(f)
<1> DEFINE N == INDEX_FROM_BIT(n_frames)
           i == INDEX_FROM_BIT(f)
           j == OFFSET_FROM_BIT(f)
<1>1. N \in Nat /\ BITS \in Nat \ {0} /\ N * BITS \in Nat
  BY WordCount, FrameConstants
<1>2. f \in Nat /\ f < N * BITS
  BY <1>1 DEF Managed
<1>3. i \in Nat /\ j \in Offsets /\ f = i * BITS + j
  BY <1>1, <1>2, DivMod DEF INDEX_FROM_BIT, OFFSET_FROM_BIT, Offsets
<1> HIDE DEF i, j, N
<1>4. i < N
  <2>1. SUFFICES ASSUME N <= i PROVE FALSE
    BY <1>1, <1>3
  <2>2. N * BITS <= i * BITS /\ i * BITS \in Nat
    BY <2>1, <1>1, <1>3, MulMono
  <2>3. QED BY <2>2, <1>1, <1>2, <1>3 DEF Offsets
<1>5. QED BY <1>1, <1>3, <1>4 DEF Words, i, j, N

\* set_frame marks its frame and no other.
LEMMA SetFrameEffect ==
    ASSUME NEW fr \in Bitmap, NEW f \in Managed
    PROVE  /\ SetFrame(fr, f) \in Bitmap
           /\ \A g \in Managed : TestFrame(SetFrame(fr, f), g) <=> g = f \/ TestFrame(fr, g)
<1>1. SetFrame(fr, f) \in Bitmap
  BY WordOfFrame DEF SetFrame, Bitmap
<1>2. ASSUME NEW g \in Managed
      PROVE  TestFrame(SetFrame(fr, f), g) <=> g = f \/ TestFrame(fr, g)
  <2>1. CASE INDEX_FROM_BIT(g) = INDEX_FROM_BIT(f)
    <3>1. OFFSET_FROM_BIT(g) = OFFSET_FROM_BIT(f) <=> g = f
      BY <2>1, WordOfFrame
    <3>2. SetFrame(fr, f)[INDEX_FROM_BIT(g)] = fr[INDEX_FROM_BIT(g)] \cup {OFFSET_FROM_BIT(f)}
      BY <2>1, WordOfFrame DEF SetFrame, Bitmap
    <3>3. QED BY <3>1, <3>2 DEF TestFrame
  <2>2. CASE INDEX_FROM_BIT(g) # INDEX_FROM_BIT(f)
    <3>1. SetFrame(fr, f)[INDEX_FROM_BIT(g)] = fr[INDEX_FROM_BIT(g)]
      BY <2>2, WordOfFrame DEF SetFrame, Bitmap
    <3>2. QED BY <2>2, <3>1 DEF TestFrame
  <2>3. QED BY <2>1, <2>2
<1>3. QED BY <1>1, <1>2

\* clear_frame unmarks its frame and no other.
LEMMA ClearFrameEffect ==
    ASSUME NEW fr \in Bitmap, NEW f \in Managed
    PROVE  /\ ClearFrame(fr, f) \in Bitmap
           /\ \A g \in Managed : TestFrame(ClearFrame(fr, f), g) <=> g # f /\ TestFrame(fr, g)
<1>1. ClearFrame(fr, f) \in Bitmap
  BY WordOfFrame DEF ClearFrame, Bitmap
<1>2. ASSUME NEW g \in Managed
      PROVE  TestFrame(ClearFrame(fr, f), g) <=> g # f /\ TestFrame(fr, g)
  <2>1. CASE INDEX_FROM_BIT(g) = INDEX_FROM_BIT(f)
    <3>1. OFFSET_FROM_BIT(g) = OFFSET_FROM_BIT(f) <=> g = f
      BY <2>1, WordOfFrame
    <3>2. ClearFrame(fr, f)[INDEX_FROM_BIT(g)] = fr[INDEX_FROM_BIT(g)] \ {OFFSET_FROM_BIT(f)}
      BY <2>1, WordOfFrame DEF ClearFrame, Bitmap
    <3>3. QED BY <3>1, <3>2 DEF TestFrame
  <2>2. CASE INDEX_FROM_BIT(g) # INDEX_FROM_BIT(f)
    <3>1. ClearFrame(fr, f)[INDEX_FROM_BIT(g)] = fr[INDEX_FROM_BIT(g)]
      BY <2>2, WordOfFrame DEF ClearFrame, Bitmap
    <3>2. QED BY <2>2, <3>1 DEF TestFrame
  <2>3. QED BY <2>1, <2>2
<1>3. QED BY <1>1, <1>2

\* What first_free_frame finds is the lowest frame not marked.
LEMMA FirstFreeIsLowest ==
    ASSUME NEW fr \in Bitmap, NEW i \in Words, NEW j \in Offsets, FirstFree(fr, i, j)
    PROVE  /\ ~TestFrame(fr, i * BITS + j)
           /\ \A g \in Managed : ~TestFrame(fr, g) => i * BITS + j <= g
<1>1. ~TestFrame(fr, i * BITS + j)
  BY FrameOfWord DEF TestFrame, FirstFree
<1>2. ASSUME NEW g \in Managed, ~TestFrame(fr, g)
      PROVE  i * BITS + j <= g
  <2> DEFINE k == INDEX_FROM_BIT(g)
             l == OFFSET_FROM_BIT(g)
  <2>1. k \in Words /\ l \in Offsets /\ g = k * BITS + l /\ l \notin fr[k]
    BY <1>2, WordOfFrame DEF TestFrame
  <2> HIDE DEF k, l
  <2>2. ~(k < i)
    BY <2>1 DEF FirstFree, AllOnes
  <2>3. k = i => ~(l < j)
    BY <2>1 DEF FirstFree
  <2>4. BITS \in Nat \ {0} /\ i \in Nat /\ k \in Nat /\ j \in 0 .. BITS - 1 /\ l \in 0 .. BITS - 1
    BY <2>1, FrameConstants, WordCount DEF Words, Offsets
  <2>5. CASE k = i
    BY <2>1, <2>3, <2>4, <2>5
  <2>6. CASE i < k
    <3>1. i * BITS + BITS <= k * BITS /\ i * BITS \in Nat /\ k * BITS \in Nat
      BY <2>4, <2>6, MulMono, MulSucc
    <3>2. QED BY <2>1, <2>4, <3>1
  <2>7. QED BY <2>2, <2>4, <2>5, <2>6
<1>3. QED BY <1>1, <1>2

\* first_free_frame gives up only when every frame is marked.
LEMMA NoFreeFrameMeansFull ==
    ASSUME NEW fr \in Bitmap, NoFreeFrame(fr), NEW g \in Managed
    PROVE  TestFrame(fr, g)
  BY WordOfFrame DEF NoFreeFrame, TestFrame, AllOnes

-----------------------------------------------------------------------------
(***************************************************************************)
(* What alloc_frame's outcome is in terms of frames: a grant of the lowest *)
(* unmarked frame, which it marks, or a refusal on a full bitmap.          *)
(***************************************************************************)
LEMMA AllocEffect ==
    ASSUME NEW fr \in Bitmap, NEW o \in AllocOutcomes(fr)
    PROVE  \/ /\ \A g \in Managed : TestFrame(fr, g)
              /\ o.frame = NULL /\ o.bits = fr
           \/ /\ o.frame \in Managed /\ ~TestFrame(fr, o.frame)
              /\ \A g \in Managed : ~TestFrame(fr, g) => o.frame <= g
              /\ o.bits \in Bitmap
              /\ \A g \in Managed : TestFrame(o.bits, g) <=> g = o.frame \/ TestFrame(fr, g)
<1>1. CASE NoFreeFrame(fr)
  BY <1>1, NoFreeFrameMeansFull DEF AllocOutcomes
<1>2. CASE ~NoFreeFrame(fr)
  <2>1. PICK w \in Words \X Offsets :
          /\ FirstFree(fr, w[1], w[2])
          /\ o = [frame |-> w[1] * BITS + w[2], bits |-> SetFrame(fr, w[1] * BITS + w[2])]
    BY <1>2 DEF AllocOutcomes
  <2> DEFINE f == w[1] * BITS + w[2]
  <2>2. w[1] \in Words /\ w[2] \in Offsets
    OBVIOUS
  <2>3. f \in Managed
    BY <2>2, FrameOfWord
  <2>4. /\ ~TestFrame(fr, f)
        /\ \A g \in Managed : ~TestFrame(fr, g) => f <= g
    BY <2>1, <2>2, FirstFreeIsLowest
  <2>5. o.frame = f /\ o.bits = SetFrame(fr, f)
    BY <2>1
  <2> HIDE DEF f
  <2>6. QED BY <2>3, <2>4, <2>5, SetFrameEffect
<1>3. QED BY <1>1, <1>2

\* The inductive invariant.
Inv == TypeOK /\ BitmapMatchesOwners

\* A cleared bitmap and no owner agree.
LEMMA InitEstablishesInv == Init => Inv
<1> SUFFICES ASSUME Init PROVE Inv
  OBVIOUS
<1>1. frames \in Bitmap /\ \A f \in Managed : ~TestFrame(frames, f)
  BY WordOfFrame DEF Init, ClearedBitmap, TestFrame, Bitmap
<1>2. QED BY <1>1 DEF Init, Inv, TypeOK, BitmapMatchesOwners, Used, Bitmap

\* alloc_frame marks the frame it grants; a refusal changes nothing.
LEMMA AllocPreservesInv == Inv /\ alloc_frame => Inv'
<1> SUFFICES ASSUME Inv, alloc_frame PROVE Inv'
  OBVIOUS
<1>1. frames \in Bitmap
  BY DEF Inv, TypeOK, Bitmap
<1>2. PICK o \in AllocOutcomes(frames) :
        frames' = o.bits /\ owned' = owned \cup ({o.frame} \ {NULL}) /\ ret' = o.frame
  BY DEF alloc_frame
<1>3. CASE o.frame = NULL /\ o.bits = frames
  <2>1. frames' = frames /\ owned' = owned /\ ret' = NULL
    BY <1>2, <1>3
  <2>2. Used' = Used
    BY <2>1 DEF Used, TestFrame
  <2>3. QED BY <2>1, <2>2 DEF Inv, TypeOK, BitmapMatchesOwners
<1>4. CASE /\ o.frame \in Managed
           /\ o.bits \in Bitmap
           /\ \A g \in Managed : TestFrame(o.bits, g) <=> g = o.frame \/ TestFrame(frames, g)
  <2>1. Used' = Used \cup {o.frame}
    BY <1>2, <1>4 DEF Used
  <2>2. TypeOK'
    BY <1>2, <1>4 DEF Inv, TypeOK, Bitmap
  <2>3. BitmapMatchesOwners'
    BY <1>2, <2>1 DEF Inv, BitmapMatchesOwners
  <2>4. QED BY <2>2, <2>3 DEF Inv
<1>5. QED BY <1>1, <1>2, <1>3, <1>4, AllocEffect

\* free_frame unmarks the frame its owner gives back.
LEMMA FreePreservesInv ==
    ASSUME NEW f \in Managed, Inv, free_frame(f) PROVE Inv'
<1>1. frames \in Bitmap /\ f \in owned
  BY DEF Inv, TypeOK, Bitmap, free_frame
<1>2. frames' \in Bitmap /\ Used' = Used \ {f}
  BY <1>1, ClearFrameEffect DEF free_frame, Used
<1>3. TypeOK'
  BY <1>2 DEF Inv, TypeOK, Bitmap, free_frame
<1>4. BitmapMatchesOwners'
  BY <1>1, <1>2 DEF Inv, BitmapMatchesOwners, free_frame
<1>5. QED BY <1>3, <1>4 DEF Inv

\* Every step preserves the invariant.
LEMMA NextPreservesInv == Inv /\ [Next]_vars => Inv'
<1> SUFFICES ASSUME Inv, [Next]_vars PROVE Inv'
  OBVIOUS
<1>1. CASE alloc_frame
  BY <1>1, AllocPreservesInv
<1>2. CASE \E f \in Managed : free_frame(f)
  BY <1>2, FreePreservesInv
<1>3. CASE UNCHANGED vars
  BY <1>3 DEF vars, Inv, TypeOK, BitmapMatchesOwners, Used, TestFrame
<1>4. QED BY <1>1, <1>2, <1>3 DEF Next

\* The inductive invariant holds in every reachable state of the allocator.
THEOREM Invariance == Spec => []Inv
  BY InitEstablishesInv, NextPreservesInv, PTL DEF Spec

\* The allocator's variables keep their types.
THEOREM TypeCorrect == Spec => []TypeOK
<1>1. Inv => TypeOK
  BY DEF Inv
<1>2. QED BY Invariance, <1>1, PTL

(***************************************************************************)
(* The bitmap and the clients agree for ever: no frame is granted twice    *)
(* and none is lost, frame 0 aside.                                        *)
(***************************************************************************)
THEOREM BitmapCorrect == Spec => []BitmapMatchesOwners
<1>1. Inv => BitmapMatchesOwners
  BY DEF Inv
<1>2. QED BY Invariance, <1>1, PTL

-----------------------------------------------------------------------------
\* The cleared bitmap is the full pool.
LEMMA InitRefines == Init => Pool!Init
<1> SUFFICES ASSUME Init PROVE Pool!Init
  OBVIOUS
<1>1. \A f \in Managed : ~TestFrame(frames, f)
  BY WordOfFrame DEF Init, ClearedBitmap, TestFrame
<1>2. Used = {}
  BY <1>1 DEF Used
<1>3. QED BY <1>2 DEF Init, Pool!Init, NULL, Pool!NULL

\* alloc_frame grants the least frame of the pool, or refuses on an empty one.
LEMMA AllocRefines == Inv /\ alloc_frame => Pool!Next
<1> SUFFICES ASSUME Inv, alloc_frame PROVE Pool!Next
  OBVIOUS
<1>1. frames \in Bitmap
  BY DEF Inv, TypeOK, Bitmap
<1>2. PICK o \in AllocOutcomes(frames) :
        frames' = o.bits /\ owned' = owned \cup ({o.frame} \ {NULL}) /\ ret' = o.frame
  BY DEF alloc_frame
<1>3. CASE /\ \A g \in Managed : TestFrame(frames, g)
           /\ o.frame = NULL /\ o.bits = frames
  <2>1. Managed \ Used = {} /\ Used' = Used /\ owned' = owned /\ ret' = NULL
    BY <1>2, <1>3 DEF Used, TestFrame
  <2>2. Pool!Refuse
    BY <2>1 DEF Pool!Refuse, NULL, Pool!NULL
  <2>3. QED BY <2>2 DEF Pool!Next
<1>4. CASE /\ o.frame \in Managed /\ ~TestFrame(frames, o.frame)
           /\ \A g \in Managed : ~TestFrame(frames, g) => o.frame <= g
           /\ \A g \in Managed : TestFrame(o.bits, g) <=> g = o.frame \/ TestFrame(frames, g)
  <2>1. Used' = Used \cup {o.frame}
    BY <1>2, <1>4 DEF Used
  <2>2. /\ o.frame \in Managed \ Used
        /\ \A g \in Managed \ Used : o.frame <= g
    BY <1>4 DEF Used
  <2>3. (Managed \ Used)' = (Managed \ Used) \ {o.frame}
    BY <2>1
  <2>4. Pool!Grant(o.frame)
    BY <1>2, <2>2, <2>3 DEF Pool!Grant, NULL, Pool!NULL
  <2>5. QED BY <1>4, <2>4 DEF Pool!Next
<1>5. QED BY <1>1, <1>2, <1>3, <1>4, AllocEffect

\* free_frame returns a frame to the pool.
LEMMA FreeRefines ==
    ASSUME NEW f \in Managed, Inv, free_frame(f) PROVE Pool!Next
<1>1. frames \in Bitmap
  BY DEF Inv, TypeOK, Bitmap
<1>2. Used' = Used \ {f}
  BY <1>1, ClearFrameEffect DEF free_frame, Used
<1>3. (Managed \ Used)' = (Managed \ Used) \cup {f}
  BY <1>2
<1>4. Pool!Release(f)
  BY <1>3 DEF free_frame, Pool!Release
<1>5. QED BY <1>4 DEF Pool!Next

(***************************************************************************)
(* The bitmap allocator of memory.c implements the pool of frames of       *)
(* FrameSet.                                                               *)
(***************************************************************************)
THEOREM Refinement == Spec => ImplementsFrameSet
<1>1. Inv /\ [Next]_vars => [Pool!Next]_(Pool!vars)
  <2> SUFFICES ASSUME Inv, [Next]_vars PROVE [Pool!Next]_(Pool!vars)
    OBVIOUS
  <2>1. CASE alloc_frame
    BY <2>1, AllocRefines
  <2>2. CASE \E f \in Managed : free_frame(f)
    BY <2>2, FreeRefines
  <2>3. CASE UNCHANGED vars
    BY <2>3 DEF vars, Pool!vars, Used, TestFrame
  <2>4. QED BY <2>1, <2>2, <2>3 DEF Next
<1>2. QED BY Invariance, InitRefines, <1>1, PTL DEF Spec, ImplementsFrameSet, Pool!Spec

=============================================================================
