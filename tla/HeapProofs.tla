----------------------------- MODULE HeapProofs -----------------------------
(***************************************************************************)
(* Proofs about the kernel heap, for every heap, word size and set of      *)
(* requests that fits (RequestsFit): without that hypothesis the wrapping  *)
(* sums of kmalloc break both theorems.                                    *)
(*                                                                         *)
(* BlocksSound is not inductive: it says nothing of heap_position, where   *)
(* the next block will start.  HeapInv adds that heap_position is aligned, *)
(* inside the heap and not below the end of any block, and what the heap's *)
(* variables are before heap_init.                                         *)
(***************************************************************************)
EXTENDS Heap, TLAPS

PositionSound ==
    IF Ready
    THEN /\ heap_end = HEAP_MEMORY_END
         /\ heap_position \in HEAP_MEMORY_START .. HEAP_MEMORY_END
         /\ heap_position % 8 = 0
    ELSE heap_end = 0 /\ heap_position = 0 /\ blocks = <<>>

BlocksBelowPosition == \A i \in DOMAIN blocks : BlockEnd(blocks[i]) <= heap_position

HeapInv ==
    TypeOK /\ PositionSound /\ BlocksBelowPosition /\ BlocksSound /\ RefusalIsFinal

(***************************************************************************)
(* (size + 7) & ~7 rounds up to a multiple of 8 when size + 7 does not     *)
(* wrap around.                                                            *)
(***************************************************************************)
LEMMA AlignRoundsUp ==
    ASSUME NEW size \in Nat, size + 7 < WORD
    PROVE  /\ Align8(size) \in Nat
           /\ Align8(size) % 8 = 0
           /\ size <= Align8(size) /\ Align8(size) <= size + 7
<1>1. WORD \in Nat \ {0}
  BY HeapConstants
<1>2. (size + 7) % WORD = size + 7
  BY <1>1
<1>3. Align8(size) = ((size + 7) \div 8) * 8
  BY <1>2 DEF Align8
<1>4. QED BY <1>3

\* A size clients ask for, inside the bounds that keep every sum from wrapping.
LEMMA RequestBounds ==
    ASSUME RequestsFit, NEW size \in Requests
    PROVE  /\ size \in Nat /\ size + 7 < WORD
           /\ HEAP_MEMORY_END + size + 7 < WORD
           /\ HEAP_MEMORY_START \in Nat \ {0} /\ HEAP_MEMORY_END \in Nat
           /\ WORD \in Nat \ {0}
  BY HeapConstants DEF RequestsFit

\* A sum below the word size is what the machine computes.
LEMMA NoWrap == ASSUME NEW a \in Nat, NEW w \in Nat \ {0}, a < w PROVE a % w = a
  OBVIOUS

\* .bss: no block, nothing refused.
LEMMA InitEstablishesHeapInv == Init => HeapInv
<1> SUFFICES ASSUME Init PROVE HeapInv
  OBVIOUS
<1>1. 0 \in Addresses
  BY HeapConstants DEF Addresses
<1>2. TypeOK
  BY <1>1 DEF Init, TypeOK
<1>3. DOMAIN blocks = {}
  BY DEF Init
<1>4. QED
  BY <1>2, <1>3 DEF Init, HeapInv, PositionSound, BlocksBelowPosition, BlocksSound,
                    RefusalIsFinal, Ready

\* heap_init starts with an empty heap.
LEMMA HeapInitPreservesHeapInv == HeapInv /\ heap_init => HeapInv'
<1> SUFFICES ASSUME HeapInv, heap_init PROVE HeapInv'
  OBVIOUS
<1>1. blocks = <<>> /\ blocks' = <<>> /\ DOMAIN blocks' = {}
  BY DEF HeapInv, PositionSound, heap_init
<1>2. /\ HEAP_MEMORY_START \in Addresses /\ HEAP_MEMORY_START % 8 = 0
      /\ HEAP_MEMORY_START \in HEAP_MEMORY_START .. HEAP_MEMORY_END
      /\ HEAP_MEMORY_START # 0
  BY HeapConstants DEF Addresses
<1>3. TypeOK'
  BY <1>1, <1>2 DEF HeapInv, TypeOK, heap_init
<1>4. PositionSound'
  BY <1>2 DEF PositionSound, Ready, heap_init
<1>5. (BlocksBelowPosition /\ BlocksSound /\ RefusalIsFinal)'
  BY <1>1 DEF BlocksBelowPosition, BlocksSound, RefusalIsFinal, heap_init
<1>6. QED BY <1>3, <1>4, <1>5 DEF HeapInv

\* A kmalloc that returns NULL changes nothing but the history.
LEMMA RefusePreservesHeapInv ==
    ASSUME RequestsFit, HeapInv, NEW size \in Requests, KmallocRefuses(size)
    PROVE  HeapInv'
<1>1. /\ heap_start' = heap_start /\ heap_end' = heap_end /\ blocks' = blocks
      /\ heap_position' = heap_position /\ kfreed' = kfreed
      /\ refused' = refused \cup {size}
  BY DEF KmallocRefuses
<1>2. TypeOK'
  BY <1>1 DEF HeapInv, TypeOK
<1>3. (PositionSound /\ BlocksBelowPosition /\ BlocksSound)'
  BY <1>1 DEF HeapInv, PositionSound, BlocksBelowPosition, BlocksSound, Ready
<1>4. ASSUME Ready PROVE heap_position + Align8(size) > heap_end
  <2>1. /\ heap_position \in Nat /\ heap_end = HEAP_MEMORY_END
        /\ heap_position <= HEAP_MEMORY_END
    BY <1>4, RequestBounds DEF HeapInv, PositionSound
  <2>2. Align8(size) \in Nat /\ Align8(size) <= size + 7
    BY RequestBounds, AlignRoundsUp
  <2>3. heap_position + Align8(size) \in Nat /\ heap_position + Align8(size) < WORD
    BY <2>1, <2>2, RequestBounds
  <2>4. (heap_position + Align8(size)) % WORD = heap_position + Align8(size)
    BY <2>3, RequestBounds, NoWrap
  <2>5. QED BY <2>4 DEF KmallocRefuses, DoesNotFit
<1>5. RefusalIsFinal'
  BY <1>1, <1>4 DEF HeapInv, RefusalIsFinal, Ready
<1>6. QED BY <1>2, <1>3, <1>5 DEF HeapInv

\* A kmalloc that succeeds places its block between heap_position and heap_end.
LEMMA GrantPreservesHeapInv ==
    ASSUME RequestsFit, HeapInv, NEW size \in Requests, KmallocGrants(size)
    PROVE  HeapInv'
<1> DEFINE a == Align8(size)
           b == [start |-> heap_position, size |-> size]
<1>1. /\ a \in Nat /\ a % 8 = 0 /\ size <= a /\ a <= size + 7
      /\ size \in Nat /\ size + 7 < WORD /\ HEAP_MEMORY_END + size + 7 < WORD
      /\ HEAP_MEMORY_START \in Nat \ {0} /\ HEAP_MEMORY_END \in Nat
      /\ WORD \in Nat \ {0}
  BY RequestBounds, AlignRoundsUp
<1>2. heap_start' = heap_start /\ heap_end' = heap_end /\ kfreed' = kfreed
  BY DEF KmallocGrants
<1>3. /\ heap_position' = (heap_position + a) % WORD
      /\ ~((heap_position + a) % WORD > heap_end)
  BY DEF KmallocGrants, DoesNotFit
<1> HIDE DEF a
<1>4. CASE ~Ready
  <2>1. heap_position = 0 /\ heap_end = 0 /\ blocks = <<>>
    BY <1>4 DEF HeapInv, PositionSound
  <2>2. a % WORD = a
    BY <1>1, NoWrap
  <2>3. heap_position' = 0
    BY <1>1, <1>3, <2>1, <2>2
  <2>4. blocks' = blocks /\ refused' = refused \cup {size}
    BY <2>1 DEF KmallocGrants, NULL
  <2>5. TypeOK'
    BY <1>2, <2>1, <2>3, <2>4 DEF HeapInv, TypeOK
  <2>6. QED
    BY <1>2, <1>4, <2>1, <2>3, <2>4, <2>5
       DEF HeapInv, PositionSound, BlocksBelowPosition, BlocksSound, RefusalIsFinal, Ready
<1>5. CASE Ready
  <2>1. /\ heap_end = HEAP_MEMORY_END /\ heap_position \in Nat
        /\ HEAP_MEMORY_START <= heap_position /\ heap_position <= HEAP_MEMORY_END
        /\ heap_position % 8 = 0
    BY <1>1, <1>5 DEF HeapInv, PositionSound
  <2>2. (heap_position + a) % WORD = heap_position + a
    BY <1>1, <2>1, NoWrap
  <2>3. heap_position' = heap_position + a /\ heap_position + a <= HEAP_MEMORY_END
    BY <1>1, <1>3, <2>1, <2>2
  <2>4. blocks' = Append(blocks, b) /\ refused' = refused
    BY <1>1, <2>1 DEF KmallocGrants, NULL
  <2>5. b \in Block
    BY <1>1, <2>1 DEF Block, Addresses
  <2>6. blocks \in Seq(Block) /\ blocks' \in Seq(Block)
    BY <2>4, <2>5 DEF HeapInv, TypeOK
  <2>7. /\ Len(blocks) \in Nat /\ DOMAIN blocks = 1 .. Len(blocks)
        /\ DOMAIN blocks' = 1 .. Len(blocks) + 1
        /\ blocks'[Len(blocks) + 1] = b
        /\ \A i \in DOMAIN blocks : blocks'[i] = blocks[i]
    BY <2>4, <2>5, <2>6
  <2>8. \A i \in DOMAIN blocks : blocks[i].start \in Nat /\ blocks[i].size \in Nat
    <3>1. \A i \in DOMAIN blocks : blocks[i] \in Block
      BY <2>6, <2>7
    <3>2. \A c \in Block : c.start \in Nat /\ c.size \in Nat
      BY <1>1 DEF Block, Addresses
    <3>3. QED BY <3>1, <3>2
  <2>9. BlockEnd(b) = heap_position + size /\ b.start = heap_position
    BY DEF BlockEnd
  <2>10. heap_position' \in Addresses
    BY <1>1, <2>1, <2>3 DEF Addresses
  <2>11. TypeOK'
    BY <1>2, <2>4, <2>6, <2>7, <2>10 DEF HeapInv, TypeOK
  <2>12. PositionSound'
    BY <1>1, <1>2, <1>5, <2>1, <2>3 DEF PositionSound, Ready
  <2>13. BlocksBelowPosition'
    <3> SUFFICES ASSUME NEW i \in DOMAIN blocks' PROVE BlockEnd(blocks'[i]) <= heap_position'
      BY DEF BlocksBelowPosition, BlockEnd
    <3>1. CASE i = Len(blocks) + 1
      BY <1>1, <2>1, <2>3, <2>7, <2>9, <3>1
    <3>2. CASE i \in DOMAIN blocks
      <4>1. BlockEnd(blocks[i]) <= heap_position /\ BlockEnd(blocks[i]) \in Nat
        BY <3>2, <2>8 DEF HeapInv, BlocksBelowPosition, BlockEnd
      <4>2. QED BY <4>1, <1>1, <2>1, <2>3, <2>7, <3>2
    <3>3. QED BY <2>7, <3>1, <3>2
  <2>14. BlocksSound'
    <3>1. BlockInHeap(b)
      BY <1>1, <2>1, <2>3, <2>9 DEF BlockInHeap
    <3>2. ASSUME NEW i \in DOMAIN blocks' PROVE BlockInHeap(blocks'[i])
      BY <2>7, <3>1 DEF HeapInv, BlocksSound
    <3>3. ASSUME NEW i \in DOMAIN blocks', NEW j \in DOMAIN blocks', i < j
          PROVE  BlockEnd(blocks'[i]) <= blocks'[j].start
      <4>1. i \in DOMAIN blocks
        BY <2>7, <3>3
      <4>2. CASE j = Len(blocks) + 1
        BY <2>7, <2>9, <4>1, <4>2 DEF HeapInv, BlocksBelowPosition
      <4>3. CASE j \in DOMAIN blocks
        BY <2>7, <3>3, <4>1, <4>3 DEF HeapInv, BlocksSound
      <4>4. QED BY <2>7, <4>2, <4>3
    <3>4. QED BY <3>2, <3>3 DEF BlocksSound, BlockInHeap, BlockEnd
  <2>15. RefusalIsFinal'
    <3> SUFFICES ASSUME NEW s \in refused PROVE heap_position' + Align8(s) > heap_end'
      BY <2>4 DEF RefusalIsFinal
    <3>1. heap_position + Align8(s) > heap_end
      BY <1>5 DEF HeapInv, RefusalIsFinal
    <3>2. Align8(s) \in Nat
      BY RequestBounds, AlignRoundsUp DEF HeapInv, TypeOK
    <3>3. QED BY <1>1, <1>2, <2>1, <2>3, <3>1, <3>2
  <2>16. QED BY <2>11, <2>12, <2>13, <2>14, <2>15 DEF HeapInv
<1>6. QED BY <1>4, <1>5

\* kfree leaves the heap as it is.
LEMMA KfreePreservesHeapInv ==
    ASSUME HeapInv, NEW i \in DOMAIN blocks, kfree(i) PROVE HeapInv'
  BY DEF kfree, HeapInv, TypeOK, PositionSound, BlocksBelowPosition, BlocksSound,
         RefusalIsFinal, Ready

\* Every step preserves the invariant.
LEMMA NextPreservesHeapInv ==
    ASSUME RequestsFit PROVE HeapInv /\ [Next]_vars => HeapInv'
<1> SUFFICES ASSUME HeapInv, [Next]_vars PROVE HeapInv'
  OBVIOUS
<1>1. CASE heap_init
  BY <1>1, HeapInitPreservesHeapInv
<1>2. CASE \E size \in Requests : kmalloc(size)
  BY <1>2, RefusePreservesHeapInv, GrantPreservesHeapInv DEF kmalloc
<1>3. CASE \E i \in DOMAIN blocks : kfree(i)
  BY <1>3, KfreePreservesHeapInv
<1>4. CASE UNCHANGED vars
  BY <1>4 DEF vars, HeapInv, TypeOK, PositionSound, BlocksBelowPosition, BlocksSound,
              RefusalIsFinal, Ready
<1>5. QED BY <1>1, <1>2, <1>3, <1>4 DEF Next

\* The inductive invariant holds in every reachable state.
LEMMA HeapInvariance == ASSUME RequestsFit PROVE Spec => []HeapInv
  BY InitEstablishesHeapInv, NextPreservesHeapInv, PTL DEF Spec

(***************************************************************************)
(* kmalloc hands out aligned, disjoint blocks inside the heap, for any     *)
(* number of calls of any sizes that fit.                                  *)
(***************************************************************************)
THEOREM HeapBlocksSound == ASSUME RequestsFit PROVE Spec => []BlocksSound
<1>1. HeapInv => BlocksSound
  BY DEF HeapInv
<1>2. QED BY HeapInvariance, <1>1, PTL

(***************************************************************************)
(* What an initialised heap has refused once it refuses for ever.          *)
(***************************************************************************)
THEOREM HeapRefusalIsFinal == ASSUME RequestsFit PROVE Spec => []RefusalIsFinal
<1>1. HeapInv => RefusalIsFinal
  BY DEF HeapInv
<1>2. QED BY HeapInvariance, <1>1, PTL

\* heap_position, the blocks and the refusals have their types.
THEOREM HeapTypeCorrect == ASSUME RequestsFit PROVE Spec => []TypeOK
<1>1. HeapInv => TypeOK
  BY DEF HeapInv
<1>2. QED BY HeapInvariance, <1>1, PTL

=============================================================================
