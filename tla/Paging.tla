------------------------------- MODULE Paging -------------------------------
(***************************************************************************)
(* Two-level paging of kernel/memory.c on top of the frame allocator:      *)
(* paging_init() builds the identity map of the first IDENTITY_PAGES pages *)
(* one map_page() at a time, then turns paging on; after that the kernel's *)
(* clients allocate frames, free them and map them.                        *)
(*                                                                         *)
(* Addresses are counted in pages: a pointer is a frame or page number and *)
(* NULL is 0.  A page-table entry is a frame and the set of its flag bits. *)
(* Once paging is on, the code's own stores through physical pointers go   *)
(* through the page tables it is building, and fault where those map       *)
(* nothing.  The processor (external) walks the tables whenever it likes   *)
(* and keeps what it finds; memory.c has no invlpg, and its one store to   *)
(* CR3 comes before paging is on.                                          *)
(***************************************************************************)
EXTENDS Integers, Sequences

CONSTANTS
    BITS, n_frames,     \* the frame bitmap, see FrameAllocator
    ENTRIES,            \* entries of a page table (1024)
    TABLES,             \* page tables of a directory (1024)
    IDENTITY_PAGES,     \* pages paging_init maps onto themselves (1024)
    Reserved,           \* frames of kernel image, bitmap and heap (memory.h)
    ClientPages,        \* pages clients map
    Watched,            \* those of them whose translation the processor keeps
    FlagSets,           \* flag arguments clients pass
    Junk                \* what a page-table entry of unused memory may hold

VARIABLES
    frames, owned, ret, \* the frame allocator's
    tables,             \* kernel_directory.tables
    tables_physical,    \* kernel_directory.tables_physical
    mem,                \* physical memory, each frame read as a page table
    boot,               \* next page paging_init maps
    paging,             \* the paging bit of CR0
    faulted,            \* a page fault with no handler: the machine stops
    call,               \* the map_page in progress and how far it is
    tlb,                \* the translations the processor keeps
    asked,              \* history: the last map_page of each page
    remapped,           \* history: pages mapped more than once
    exposed,            \* history: pages read from a table not yet cleared
    early               \* history: pages read between the stores of their entry

pageVars == <<tables, tables_physical, mem, asked, remapped, faulted, call>>
tlbVars  == <<tlb, exposed, early>>
vars == <<frames, owned, ret, pageVars, tlbVars, boot, paging>>

FA == INSTANCE FrameAllocator

NULL    == 0
NoFrame == -1
Frames  == 0 .. n_frames - 1
Slots   == 0 .. ENTRIES - 1
Dirs    == 0 .. TABLES - 1
Pages   == 0 .. TABLES * ENTRIES - 1

\* table_index, and page_index % 1024
TableOf(v) == v \div ENTRIES
SlotOf(v)  == v % ENTRIES

Flags   == {"P", "RW", "US", "PWT", "PCD"}
Entries == [frame : Frames, flags : SUBSET Flags]
Rights  == {"RW", "US"}
NotAsked == [frame |-> NoFrame, flags |-> {}]

PresentFirst == <<"P", "frame", "RW", "US", "PWT", "PCD">>

\* The stores into a page's entry at the end of map_page, in their order.
Fields == <<"frame", "P", "RW", "US", "PWT", "PCD">>

\* A call is at 0 until its new table is cleared, then at its next store.
Calls  == [page : Pages, frame : Frames, flags : SUBSET Flags, at : 0 .. Len(Fields)]
NoCall == [page |-> 0, frame |-> NoFrame, flags |-> {}, at |-> 0]

ASSUME PagingConstants ==
    /\ ENTRIES \in Nat \ {0} /\ TABLES \in Nat \ {0}
    /\ n_frames \in Nat \ {0} /\ BITS \in Nat \ {0}
    /\ n_frames <= TABLES * ENTRIES /\ n_frames % BITS = 0
    /\ IDENTITY_PAGES \in 2 .. ENTRIES /\ IDENTITY_PAGES <= n_frames
    /\ Reserved \subseteq Frames /\ Reserved \cap {0, 1} = {}
    /\ ClientPages \subseteq IDENTITY_PAGES .. TABLES * ENTRIES - 1
    /\ Watched \subseteq ClientPages
    /\ FlagSets \subseteq SUBSET Flags /\ Junk \subseteq Entries

-----------------------------------------------------------------------------
(***************************************************************************)
(* Nothing keeps alloc_frame from giving a new table a frame of the        *)
(* kernel, the bitmap or the heap, or one whose number the identity map    *)
(* does not cover.  The call that does so goes on as the code does, and    *)
(* faults or writes where its pointer leads; no call follows it, since the *)
(* code, its bitmap or its tables may be overwritten by then.  A client    *)
(* only holds and maps its frames: its own stores are not modelled.        *)
(***************************************************************************)
Intact == \A t \in Dirs : tables[t] < IDENTITY_PAGES /\ tables[t] \notin Reserved
Idle   == Intact /\ ~faulted /\ call = NoCall

(***************************************************************************)
(* The processor's page walk: the frame page v reaches and what it may do  *)
(* there, which both levels must grant; NotAsked for a fault.              *)
(***************************************************************************)
Walk(v) ==
    LET pde == tables_physical[TableOf(v)]
        pte == mem[pde.frame][SlotOf(v)]
    IN  IF "P" \in pde.flags /\ "P" \in pte.flags
        THEN [frame |-> pte.frame, flags |-> pde.flags \cap pte.flags \cap Rights]
        ELSE NotAsked

\* The physical frame behind the kernel pointer f.
Reach(f) == IF paging THEN Walk(f).frame ELSE f

KeepsOldEntries == [frame |-> 0, flags |-> {"P", "RW"}]

\* The loop `Clear the new page table': writable, not present.
ClearedEntry == [frame |-> 0, flags |-> {"RW"}]

\* tables_physical[i] = new_table | flags | 0x01
DirEntry(tf, fl) == [frame |-> tf, flags |-> fl \cup {"P"}]

IgnoresUserFlag(e, c) ==
    IF Fields[c.at] = "frame" THEN [e EXCEPT !.frame = c.frame]
    ELSE [e EXCEPT !.flags = IF Fields[c.at] \in c.flags \cup {"P", "US"}
                             THEN @ \cup {Fields[c.at]} ELSE @ \ {Fields[c.at]}]

\* The store call c is at, into entry e; present is always stored as 1.
StoreField(e, c) ==
    IF Fields[c.at] = "frame" THEN [e EXCEPT !.frame = c.frame]
    ELSE [e EXCEPT !.flags = IF Fields[c.at] \in c.flags \cup {"P"}
                             THEN @ \cup {Fields[c.at]} ELSE @ \ {Fields[c.at]}]

-----------------------------------------------------------------------------
Fault == faulted' = TRUE /\ UNCHANGED <<mem, call>>

\* map_page enters with its arguments; `at' is where it goes on from.
EnterCall(v, p, fl, at) ==
    /\ call' = [page |-> v, frame |-> p, flags |-> fl, at |-> at]
    /\ asked' = [asked EXCEPT ![v] = [frame |-> p, flags |-> fl]]
    /\ remapped' = IF asked[v] = NotAsked THEN remapped ELSE remapped \cup {v}
    /\ UNCHANGED <<mem, faulted>>

\* map_page when the page's table exists.
MapInTable(v, p, fl) ==
    /\ tables[TableOf(v)] # NULL
    /\ EnterCall(v, p, fl, 1)
    /\ UNCHANGED <<frames, ret, tables, tables_physical>>

(***************************************************************************)
(* map_page when tables[i] is NULL: alloc_frame's result is used as it is, *)
(* without a test for NULL, and stands in the directory before the loop    *)
(* that clears it.                                                         *)
(***************************************************************************)
MapNewTable(v, p, fl) ==
    LET t == TableOf(v) IN
    /\ tables[t] = NULL
    /\ \E o \in FA!AllocOutcomes(frames) :
         /\ frames' = o.bits
         /\ ret' = o.frame
         /\ tables' = [tables EXCEPT ![t] = o.frame]
         /\ tables_physical' = [tables_physical EXCEPT ![t] = DirEntry(o.frame, fl)]
    /\ EnterCall(v, p, fl, 0)

map_page(v, p, fl) == MapInTable(v, p, fl) \/ MapNewTable(v, p, fl)

(***************************************************************************)
(* The loop that clears the new table, through the pointer new_table.  It  *)
(* is one step: a walk in its middle finds an entry of before or after it, *)
(* or one of before with frame 0, and counts as exposed in each case.      *)
(***************************************************************************)
ClearTable ==
    LET d == Reach(tables_physical[TableOf(call.page)].frame) IN
    /\ call # NoCall /\ call.at = 0 /\ ~faulted
    /\ \/ d = NoFrame /\ Fault
       \/ /\ d # NoFrame
          /\ mem' = [mem EXCEPT ![d] = [s \in Slots |-> ClearedEntry]]
          /\ call' = [call EXCEPT !.at = 1]
          /\ UNCHANGED faulted
    /\ UNCHANGED <<frames, owned, ret, tables, tables_physical, asked, remapped,
                   tlbVars, boot, paging>>

\* One of the stores into the page's entry; map_page returns after the last.
StoreEntry ==
    LET d == Reach(tables[TableOf(call.page)]) IN
    /\ call.at > 0 /\ ~faulted
    /\ \/ d = NoFrame /\ Fault
       \/ /\ d # NoFrame
          /\ mem' = [mem EXCEPT ![d][SlotOf(call.page)] = StoreField(@, call)]
          /\ call' = IF call.at = Len(Fields) THEN NoCall ELSE [call EXCEPT !.at = @ + 1]
          /\ UNCHANGED faulted
    /\ UNCHANGED <<frames, owned, ret, tables, tables_physical, asked, remapped,
                   tlbVars, boot, paging>>

(***************************************************************************)
(* The processor keeps a translation it has walked, between any two steps  *)
(* of the code.  It keeps none that is not present.  Dropping one and      *)
(* walking again is another fill.                                          *)
(***************************************************************************)
Fill(v) ==
    /\ paging /\ ~faulted
    /\ Walk(v) # NotAsked
    /\ tlb' = [tlb EXCEPT ![v] = Walk(v)]
    /\ exposed' = IF call # NoCall /\ call.at = 0 /\ TableOf(call.page) = TableOf(v)
                  THEN exposed \cup {v} ELSE exposed
    /\ early' = IF call.at > 0 /\ call.page = v THEN early \cup {v} ELSE early
    /\ UNCHANGED <<frames, owned, ret, pageVars, boot, paging>>

-----------------------------------------------------------------------------
\* paging_init up to the identity map: bitmap and directory are cleared.
Init ==
    /\ FA!Init
    /\ tables = [t \in Dirs |-> NULL]
    /\ tables_physical = [t \in Dirs |-> [frame |-> 0, flags |-> {}]]
    /\ \E j \in Junk : mem = [f \in Frames |-> [s \in Slots |-> j]]
    /\ boot = 0
    /\ paging = FALSE
    /\ faulted = FALSE
    /\ call = NoCall
    /\ tlb = [v \in Watched |-> NotAsked]
    /\ asked = [v \in Pages |-> NotAsked]
    /\ remapped = {} /\ exposed = {} /\ early = {}

BootMapOnePageTooMany ==
    /\ Idle /\ boot <= IDENTITY_PAGES
    /\ map_page(boot, boot, {"P", "RW"})
    /\ boot' = boot + 1
    /\ UNCHANGED <<owned, paging, tlbVars>>

BootMap ==
    /\ Idle /\ boot < IDENTITY_PAGES
    /\ map_page(boot, boot, {"P", "RW"})
    /\ boot' = boot + 1
    /\ UNCHANGED <<owned, paging, tlbVars>>

EnableBeforeMapping ==
    /\ Idle /\ boot = 1 /\ ~paging
    /\ paging' = TRUE
    /\ UNCHANGED <<frames, owned, ret, pageVars, tlbVars, boot>>

EnableOnePageEarly ==
    /\ Idle /\ boot >= IDENTITY_PAGES - 1 /\ ~paging
    /\ boot' = IDENTITY_PAGES
    /\ paging' = TRUE
    /\ UNCHANGED <<frames, owned, ret, pageVars, tlbVars>>

\* switch_directory(&kernel_directory) and the paging bit of CR0.
EnablePaging ==
    /\ Idle /\ boot = IDENTITY_PAGES /\ ~paging
    /\ paging' = TRUE
    /\ UNCHANGED <<frames, owned, ret, pageVars, tlbVars, boot>>

ClientAlloc ==
    /\ Idle /\ paging
    /\ FA!alloc_frame
    /\ UNCHANGED <<pageVars, tlbVars, boot, paging>>

\* There is no unmap_page: a client frees only frames it never mapped.
ClientFree(f) ==
    /\ Idle /\ paging
    /\ \A v \in ClientPages : asked[v].frame # f
    /\ FA!free_frame(f)
    /\ UNCHANGED <<pageVars, tlbVars, boot, paging>>

ClientMap(v, f, fl) ==
    /\ Idle /\ paging
    /\ f \in owned
    /\ map_page(v, f, fl)
    /\ UNCHANGED <<owned, boot, paging, tlbVars>>

Next ==
    \/ BootMap
    \/ ClearTable
    \/ StoreEntry
    \/ EnablePaging
    \/ ClientAlloc
    \/ \E f \in Frames : ClientFree(f)
    \/ \E v \in ClientPages, f \in Frames, fl \in FlagSets : ClientMap(v, f, fl)
    \/ \E v \in Watched : Fill(v)

Spec == Init /\ [][Next]_vars

-----------------------------------------------------------------------------
TypeOK ==
    /\ FA!TypeOK
    /\ tables \in [Dirs -> Frames]
    /\ tables_physical \in [Dirs -> Entries]
    /\ mem \in [Frames -> [Slots -> Entries]]
    /\ boot \in 0 .. IDENTITY_PAGES
    /\ paging \in BOOLEAN /\ faulted \in BOOLEAN
    /\ call \in Calls \cup {NoCall}
    /\ tlb \in [Watched -> Entries \cup {NotAsked}]
    /\ asked \in [Pages -> Entries \cup {NotAsked}]
    /\ remapped \subseteq Pages /\ exposed \subseteq Watched /\ early \subseteq Watched

(***************************************************************************)
(* memory.c, `identity mapping for first 4MB': once paging is on, every    *)
(* identity page reaches the frame of its own number, writable and for the *)
(* kernel only, whatever the clients map, and even when map_page has run   *)
(* out of frames, as long as the page tables lie in memory of their own.   *)
(* Page 0 is left out: see IdentityMapComplete.                            *)
(***************************************************************************)
IdentityMap ==
    paging /\ Intact => \A v \in 1 .. IDENTITY_PAGES - 1 :
                           Walk(v) = [frame |-> v, flags |-> {"RW"}]

(***************************************************************************)
(* memory.c, `Map kernel memory (identity mapping for first 4MB)', taken   *)
(* literally: page 0 is mapped too.                                        *)
(***************************************************************************)
IdentityMapComplete ==
    paging => \A v \in 0 .. IDENTITY_PAGES - 1 : Walk(v).frame = v

(***************************************************************************)
(* Between calls the page tables mean exactly what the calls of map_page   *)
(* asked for: a page reaches the frame of the last map_page for it, and a  *)
(* page nobody mapped reaches nothing, whatever memory held before and     *)
(* whichever table was created in between.                                 *)
(***************************************************************************)
MappedAsAsked ==
    Idle => \A v \in Pages \ {0} : Walk(v).frame = asked[v].frame

(***************************************************************************)
(* A page never grants more than its map_page asked for.  It may grant     *)
(* less: the directory entry keeps the flags of the first mapping in its   *)
(* table, so a right is missing only if some page of that table was mapped *)
(* without it, or mapped again (its first mapping may have lacked it).     *)
(***************************************************************************)
RightsAsAsked ==
    Idle => \A v \in {p \in Pages \ {0} : asked[p] # NotAsked} :
        /\ Walk(v).flags \subseteq asked[v].flags
        /\ \A r \in (asked[v].flags \cap Rights) \ Walk(v).flags :
             \E u \in Pages :
                /\ TableOf(u) = TableOf(v) /\ asked[u] # NotAsked
                /\ r \notin asked[u].flags \/ u \in remapped

(***************************************************************************)
(* What the processor keeps is what the page tables hold, but for pages    *)
(* mapped again, since memory.c has no invlpg, and pages it has read from  *)
(* a new table before the clearing loop had passed.  A page it has read    *)
(* between the stores of its entry is translated to the right frame, since *)
(* frame is stored before present, but may stay writable although asked    *)
(* read-only: rw is stored after present, over the loop's rw = 1.          *)
(***************************************************************************)
TranslationsCurrent ==
    Intact => \A v \in Watched \ (remapped \cup exposed) : tlb[v] # NotAsked =>
        /\ tlb[v].frame = Walk(v).frame
        /\ tlb[v].flags \subseteq Walk(v).flags \cup {"RW"}
        /\ v \notin early => tlb[v] = Walk(v)

(***************************************************************************)
(* A frame that holds a page table belongs to one directory slot only, is  *)
(* marked in the bitmap, and is never a frame a client owns.               *)
(***************************************************************************)
TableFramesPrivate ==
    \A t \in Dirs : tables[t] # NULL =>
        /\ tables[t] \in FA!Used \ owned
        /\ tables_physical[t].frame = tables[t]
        /\ \A u \in Dirs \ {t} : tables[u] # tables[t]

(***************************************************************************)
(* map_page faults in two cases only: alloc_frame had no frame left for a  *)
(* new table, and page 0, being unmapped, turns the store through NULL     *)
(* into a fault; or a table lies at or above the end of the identity map,  *)
(* where the code's pointer to it is mapped to nothing.                    *)
(***************************************************************************)
FaultsExplained ==
    faulted => \/ ret = NULL /\ FA!Used = Frames
               \/ \E t \in Dirs : tables[t] >= IDENTITY_PAGES

(***************************************************************************)
(* memory.h's memory map: the kernel's and the heap's memory is theirs.    *)
(***************************************************************************)
ReservedNeverGranted == FA!Used \cap Reserved = {}

=============================================================================
