-------------------------------- MODULE Heap --------------------------------
(***************************************************************************)
(* The kernel heap of kernel/memory.c: kmalloc() moves heap_position up    *)
(* through [HEAP_MEMORY_START, HEAP_MEMORY_END) and kfree() does nothing.  *)
(* Addresses and sizes are unsigned words: sums are taken modulo WORD.     *)
(***************************************************************************)
EXTENDS Integers, Sequences

CONSTANTS
    WORD,               \* 2^32: one more than the largest size_t
    HEAP_MEMORY_START,
    HEAP_MEMORY_END,
    Requests,           \* the sizes clients ask for
    MaxBlocks           \* bound on the blocks handed out

NULL == 0

ASSUME HeapConstants ==
    /\ WORD \in Nat \ {0} /\ WORD % 8 = 0
    /\ HEAP_MEMORY_START \in 1 .. WORD - 1 /\ HEAP_MEMORY_START % 8 = 0
    /\ HEAP_MEMORY_END \in HEAP_MEMORY_START .. WORD - 1
    /\ Requests \subseteq 0 .. WORD - 1
    /\ MaxBlocks \in Nat

VARIABLES
    heap_start, heap_end, heap_position,
    blocks,             \* history: the blocks handed out, in order
    kfreed,             \* history: the indices of blocks passed to kfree
    refused             \* history: the sizes answered NULL since heap_init

vars == <<heap_start, heap_end, heap_position, blocks, kfreed, refused>>

AlignDown(size) == (size \div 8) * 8

\* (size + 7) & ~7
Align8(size) == (((size + 7) % WORD) \div 8) * 8

\* The test `heap_position + size > heap_end', size already aligned.
DoesNotFit(pos, size, end) == (pos + size) % WORD > end

-----------------------------------------------------------------------------
\* Before heap_init the heap's variables are those of .bss: all zero.
Init ==
    /\ heap_start = 0 /\ heap_end = 0 /\ heap_position = 0
    /\ blocks = <<>> /\ kfreed = {} /\ refused = {}

Ready == heap_start # 0

SwapsHeapBounds ==
    /\ ~Ready
    /\ heap_start' = HEAP_MEMORY_END
    /\ heap_end' = HEAP_MEMORY_START
    /\ heap_position' = HEAP_MEMORY_START
    /\ refused' = {}
    /\ UNCHANGED <<blocks, kfreed>>

heap_init ==
    /\ ~Ready
    /\ heap_start' = HEAP_MEMORY_START
    /\ heap_end' = HEAP_MEMORY_END
    /\ heap_position' = HEAP_MEMORY_START
    /\ refused' = {}
    /\ UNCHANGED <<blocks, kfreed>>

KmallocRefuses(size) ==
    /\ DoesNotFit(heap_position, Align8(size), heap_end)
    /\ refused' = refused \cup {size}
    /\ UNCHANGED <<heap_start, heap_end, heap_position, blocks, kfreed>>

(***************************************************************************)
(* A result of address 0 is NULL to its caller: before heap_init,          *)
(* kmalloc(0) passes the test and still hands out nothing.                 *)
(***************************************************************************)
KmallocGrants(size) ==
    /\ ~DoesNotFit(heap_position, Align8(size), heap_end)
    /\ Len(blocks) < MaxBlocks
    /\ heap_position' = (heap_position + Align8(size)) % WORD
    /\ IF heap_position = NULL
       THEN refused' = refused \cup {size} /\ UNCHANGED blocks
       ELSE /\ blocks' = Append(blocks, [start |-> heap_position, size |-> size])
            /\ UNCHANGED refused
    /\ UNCHANGED <<heap_start, heap_end, kfreed>>

kmalloc(size) == KmallocRefuses(size) \/ KmallocGrants(size)

RewindsHeap(i) ==
    /\ i \in DOMAIN blocks \ kfreed
    /\ kfreed' = kfreed \cup {i}
    /\ heap_position' = blocks[i].start
    /\ UNCHANGED <<heap_start, heap_end, blocks, refused>>

kfree(i) ==
    /\ i \in DOMAIN blocks \ kfreed
    /\ kfreed' = kfreed \cup {i}
    /\ UNCHANGED <<heap_start, heap_end, heap_position, blocks, refused>>

Next ==
    \/ heap_init
    \/ \E size \in Requests : kmalloc(size)
    \/ \E i \in DOMAIN blocks : kfree(i)

Spec == Init /\ [][Next]_vars

-----------------------------------------------------------------------------
Addresses == 0 .. WORD - 1
Block == [start : Addresses, size : Addresses]
BlockEnd(b) == b.start + b.size

TypeOK ==
    /\ heap_start \in {0, HEAP_MEMORY_START}
    /\ heap_end \in {0, HEAP_MEMORY_END}
    /\ heap_position \in Addresses
    /\ blocks \in Seq(Block)
    /\ kfreed \subseteq DOMAIN blocks
    /\ refused \subseteq Requests

\* No request reaches the top of the address space from inside the heap.
RequestsFit == \A r \in Requests : HEAP_MEMORY_END + r + 7 < WORD

(***************************************************************************)
(* Every block kmalloc handed out lies inside the heap with all the bytes  *)
(* asked for, is 8-byte aligned, and does not overlap any other block,     *)
(* freed blocks included.                                                  *)
(***************************************************************************)
BlockInHeap(b) ==
    /\ HEAP_MEMORY_START <= b.start
    /\ BlockEnd(b) <= HEAP_MEMORY_END
    /\ b.start % 8 = 0

BlocksSound ==
    /\ \A i \in DOMAIN blocks : BlockInHeap(blocks[i])
    /\ \A i, j \in DOMAIN blocks :
           i < j => BlockEnd(blocks[i]) <= blocks[j].start

(***************************************************************************)
(* A refusal of an initialised heap is final: what has been answered NULL  *)
(* once does not fit now either, whatever was passed to kfree since.       *)
(***************************************************************************)
RefusalIsFinal ==
    Ready => \A s \in refused : heap_position + Align8(s) > heap_end

(***************************************************************************)
(* `return NULL; // Out of heap memory': a block that was granted lies in  *)
(* the heap, for every size_t a client may pass.                           *)
(***************************************************************************)
GrantedBlocksFit == \A i \in DOMAIN blocks : BlockInHeap(blocks[i])

=============================================================================
