---------------------------- MODULE PagingProofs ----------------------------
(***************************************************************************)
(* Proofs about paging, for every size of memory, bitmap words, directory  *)
(* and page tables, every reserved range and every client.                 *)
(*                                                                         *)
(* None of the properties is inductive alone.  PagingInv joins them: which *)
(* frames are whose (FramesOwned, DirectorySound), how far paging_init has *)
(* come (BootOrder), what a directory slot without a table implies         *)
(* (SlotsUnused), where a call of map_page stands (CallSound) and, as long *)
(* as every table lies in the identity map, what each entry of each table  *)
(* is, the one being stored included (MemSound).                           *)
(***************************************************************************)
EXTENDS Paging, TLAPS

FAP == INSTANCE FrameAllocatorProofs

BOOT_FLAGS == {"P", "RW"}

\* A call of map_page has put a table into slot t and not yet cleared it.
Pending(t) == call # NoCall /\ call.at = 0 /\ TableOf(call.page) = t

\* A call of map_page is among the stores into page v's entry.
Storing(v) == call.at > 0 /\ call.page = v

\* A page's entry once all its fields are stored.
PageEntry(p, fl) == [frame |-> p, flags |-> fl \cup {"P"}]

\* The entry that means what map_page was last asked for.
EntryFor(a) == IF a = NotAsked THEN ClearedEntry ELSE PageEntry(a.frame, a.flags)

\* The fields of entry e that call c has stored.
SoFar(e, c) ==
    /\ c.at > 1 => e.frame = c.frame
    /\ c.at > 2 => "P" \in e.flags
    /\ c.at > 3 => ("RW" \in e.flags <=> "RW" \in c.flags)
    /\ c.at > 4 => ("US" \in e.flags <=> "US" \in c.flags)
    /\ c.at > 5 => ("PWT" \in e.flags <=> "PWT" \in c.flags)

\* The fields of entry e that call c has still to store, if e was cleared.
StillClear(e, c) ==
    /\ c.at <= 2 => "P" \notin e.flags
    /\ c.at <= 4 => "US" \notin e.flags

\* The entry of page v in its table.
EntryOf(v) == mem[tables_physical[TableOf(v)].frame][SlotOf(v)]

FramesOwned ==
    /\ owned \subseteq FA!Used /\ NULL \notin owned
    /\ boot = 0 => FA!Used = {}
    /\ boot = 1 => FA!Used = {NULL}
    /\ boot > 0 => NULL \in FA!Used

BootOrder ==
    /\ paging => boot = IDENTITY_PAGES
    /\ ~paging => owned = {} /\ ~faulted /\ \A v \in Watched : tlb[v] = NotAsked
    /\ boot = 0 => call = NoCall
    /\ boot < 2 => tables[0] = NULL /\ \A v \in Pages \ {0} : asked[v] = NotAsked
    /\ boot >= 2 => tables[0] = 1
    /\ boot >= 1 => tables_physical[0].flags = BOOT_FLAGS
    /\ call # NoCall /\ ~paging =>
           /\ call.page = boot - 1 /\ call.frame = boot - 1 /\ call.flags = BOOT_FLAGS
           /\ call.at = 0 => boot \in {1, 2}
    /\ call # NoCall /\ paging =>
           /\ call.page \in ClientPages
           /\ call.at = 0 => TableOf(call.page) # 0

DirectorySound ==
    \A t \in Dirs :
        /\ tables_physical[t].frame = tables[t]
        /\ tables[t] # NULL => /\ tables[t] \in FA!Used \ owned
                               /\ "P" \in tables_physical[t].flags
                               /\ \A u \in Dirs \ {t} : tables[u] # tables[t]
        /\ tables[t] = NULL /\ "P" \in tables_physical[t].flags =>
               Pending(t) \/ (t = 0 /\ boot = 1)

SlotsUnused ==
    \A t \in Dirs : "P" \notin tables_physical[t].flags =>
        /\ \A v \in Pages : TableOf(v) = t => asked[v] = NotAsked
        /\ \A v \in Watched : TableOf(v) = t => tlb[v] = NotAsked

RightsSource ==
    \A t \in Dirs : "P" \in tables_physical[t].flags =>
        \E u \in Pages : /\ TableOf(u) = t /\ asked[u] # NotAsked
                         /\ \/ tables_physical[t].flags = asked[u].flags \cup {"P"}
                            \/ u \in remapped

\* A call in progress: only its own table may lie above the identity map.
CallSound ==
    call # NoCall =>
        LET t == TableOf(call.page) IN
        /\ "P" \in tables_physical[t].flags
        /\ asked[call.page] = [frame |-> call.frame, flags |-> call.flags]
        /\ \A u \in Dirs : tables[u] >= IDENTITY_PAGES => u = t
        /\ call.at > 0 /\ call.page \in Watched \ (remapped \cup exposed \cup early) =>
               tlb[call.page] = NotAsked
        /\ call.at = 0 =>
             /\ \A v \in Pages \ {0, call.page} : TableOf(v) = t => asked[v] = NotAsked
             /\ \A v \in Watched \ exposed : TableOf(v) = t => tlb[v] = NotAsked
             /\ paging /\ tables[t] = NULL => ret = NULL /\ FA!Used = Frames

IdentityEntries ==
    boot >= 2 /\ ~Pending(0) =>
        /\ mem[1][0] = ClearedEntry
        /\ \A v \in 1 .. boot - 1 : ~Storing(v) => mem[1][v] = PageEntry(v, BOOT_FLAGS)

EntriesAsAsked ==
    \A v \in Pages \ {0} :
        "P" \in tables_physical[TableOf(v)].flags /\ ~Pending(TableOf(v)) /\ ~Storing(v) =>
            EntryOf(v) = EntryFor(asked[v])

EntryInProgress ==
    call.at > 0 =>
        /\ SoFar(EntryOf(call.page), call)
        /\ call.page \notin remapped => StillClear(EntryOf(call.page), call)

KeptSound ==
    \A v \in Watched \ (remapped \cup exposed) : tlb[v] # NotAsked =>
        /\ tlb[v].frame = Walk(v).frame
        /\ tlb[v].flags \subseteq Walk(v).flags \cup {"RW"}
        /\ v \notin early => tlb[v] = Walk(v)

MemSound == IdentityEntries /\ EntriesAsAsked /\ EntryInProgress /\ KeptSound

\* Every table lies where the identity map maps it to itself.
Low == \A t \in Dirs : tables[t] < IDENTITY_PAGES

PagingInv ==
    /\ TypeOK /\ FramesOwned /\ BootOrder /\ DirectorySound /\ SlotsUnused
    /\ RightsSource /\ CallSound /\ FaultsExplained
    /\ Low => MemSound

-----------------------------------------------------------------------------
\* The bitmap's own assumptions follow from those of paging.
LEMMA BitmapConstants == FAP!FrameConstants
  BY PagingConstants DEF FAP!FrameConstants

\* The numbers the code starts with are frames, pages, slots and tables.
LEMMA SmallNumbers ==
    /\ 0 \in Frames /\ 1 \in Frames /\ 0 \in Dirs /\ 0 \in Slots
    /\ IDENTITY_PAGES \in Nat /\ 2 <= IDENTITY_PAGES
    /\ \A v \in 0 .. IDENTITY_PAGES - 1 : v \in Pages /\ v \in Frames /\ v \in Slots
    /\ \A f \in Frames : f \in Pages
    /\ ClientPages \subseteq Pages /\ Watched \subseteq ClientPages
    /\ \A v \in ClientPages : v \in Nat /\ v >= IDENTITY_PAGES
<1>1. TABLES * ENTRIES \in Nat /\ n_frames \in Nat
  BY PagingConstants
<1>2. QED BY <1>1, PagingConstants DEF Frames, Dirs, Slots, Pages

\* A page number is a table and a slot, and no two pages share both.
LEMMA PageSplit ==
    /\ \A v \in Pages : TableOf(v) \in Dirs /\ SlotOf(v) \in Slots
    /\ \A u, v \in Pages : TableOf(u) = TableOf(v) /\ SlotOf(u) = SlotOf(v) => u = v
    /\ \A v \in 0 .. IDENTITY_PAGES - 1 : TableOf(v) = 0 /\ SlotOf(v) = v
<1>1. ENTRIES \in Nat \ {0} /\ TABLES \in Nat \ {0} /\ TABLES * ENTRIES \in Nat
  BY PagingConstants
<1>2. ASSUME NEW v \in Pages
      PROVE  /\ TableOf(v) \in Nat /\ SlotOf(v) \in Slots
             /\ v = TableOf(v) * ENTRIES + SlotOf(v)
  <2>1. v \in Nat
    BY <1>1 DEF Pages
  <2>2. /\ v \div ENTRIES \in Nat /\ v % ENTRIES \in 0 .. ENTRIES - 1
        /\ v = ((v \div ENTRIES) * ENTRIES) + (v % ENTRIES)
    BY <1>1, <2>1, FAP!DivMod, BitmapConstants
  <2>3. QED BY <2>2 DEF TableOf, SlotOf, Slots
<1>3. ASSUME NEW v \in Pages PROVE TableOf(v) \in Dirs
  <2>1. SUFFICES ASSUME TABLES <= TableOf(v) PROVE FALSE
    BY <1>1, <1>2 DEF Dirs
  <2>2. TABLES * ENTRIES <= TableOf(v) * ENTRIES /\ TableOf(v) * ENTRIES \in Nat
    BY <1>1, <1>2, <2>1, FAP!MulMono, BitmapConstants
  <2>3. QED BY <1>1, <1>2, <2>2 DEF Pages, Slots
<1>4. ASSUME NEW v \in 0 .. IDENTITY_PAGES - 1 PROVE TableOf(v) = 0 /\ SlotOf(v) = v
  <2>1. v \in Nat /\ v < ENTRIES
    BY PagingConstants
  <2>2. QED BY <1>1, <2>1 DEF TableOf, SlotOf
<1>5. QED BY <1>2, <1>3, <1>4

\* The words of the bitmap cover the frames exactly.
LEMMA ManagedIsFrames == FA!Managed = Frames
<1>1. n_frames \in Nat /\ BITS \in Nat \ {0} /\ n_frames % BITS = 0
  BY PagingConstants
<1>2. n_frames = (n_frames \div BITS) * BITS + (n_frames % BITS)
  BY <1>1, FAP!DivMod, BitmapConstants
<1>3. (n_frames \div BITS) * BITS = n_frames
  BY <1>1, <1>2
<1>4. QED BY <1>3 DEF FA!Managed, FA!INDEX_FROM_BIT, Frames

Bitmaps == [FA!Words -> SUBSET FA!Offsets]
UsedIn(fr) == {f \in Frames : FA!TestFrame(fr, f)}

\* The frames the bitmap marks.
LEMMA UsedFrames == FA!Used = UsedIn(frames) /\ FA!Used' = UsedIn(frames')
  BY ManagedIsFrames DEF FA!Used, UsedIn

\* alloc_frame's result in terms of frames, from the frame allocator's lemma.
LEMMA AllocGrants ==
    ASSUME NEW fr \in Bitmaps, NEW o \in FA!AllocOutcomes(fr)
    PROVE  \/ UsedIn(fr) = Frames /\ o.frame = NULL /\ o.bits = fr
           \/ /\ o.frame \in Frames \ UsedIn(fr) /\ o.bits \in Bitmaps
              /\ \A g \in Frames \ UsedIn(fr) : o.frame <= g
              /\ UsedIn(o.bits) = UsedIn(fr) \cup {o.frame}
<1>1. /\ Bitmaps = FAP!Bitmap /\ Frames = FAP!Managed
      /\ \A b, f : FA!TestFrame(b, f) <=> FAP!TestFrame(b, f)
  BY ManagedIsFrames
     DEF Bitmaps, FAP!Bitmap, FA!Words, FAP!Words, FA!Offsets, FAP!Offsets, FA!Managed,
         FAP!Managed, FA!TestFrame, FAP!TestFrame, FA!INDEX_FROM_BIT,
         FAP!INDEX_FROM_BIT, FA!OFFSET_FROM_BIT, FAP!OFFSET_FROM_BIT
<1>2. o \in FAP!AllocOutcomes(fr)
  BY DEF FA!AllocOutcomes, FAP!AllocOutcomes, FA!NoFreeFrame, FAP!NoFreeFrame,
         FA!FirstFree, FAP!FirstFree, FA!SetFrame, FAP!SetFrame, FA!AllOnes, FAP!AllOnes,
         FA!Words, FAP!Words, FA!Offsets, FAP!Offsets, FA!NULL, FAP!NULL,
         FA!INDEX_FROM_BIT, FAP!INDEX_FROM_BIT, FA!OFFSET_FROM_BIT, FAP!OFFSET_FROM_BIT
<1>3. \/ /\ \A g \in Frames : FA!TestFrame(fr, g)
         /\ o.frame = NULL /\ o.bits = fr
      \/ /\ o.frame \in Frames /\ ~FA!TestFrame(fr, o.frame)
         /\ \A g \in Frames : ~FA!TestFrame(fr, g) => o.frame <= g
         /\ o.bits \in Bitmaps
         /\ \A g \in Frames : FA!TestFrame(o.bits, g) <=> g = o.frame \/ FA!TestFrame(fr, g)
  <2>1. FAP!NULL = NULL
    BY DEF NULL, FAP!NULL
  <2>2. fr \in FAP!Bitmap
    BY <1>1
  <2>3. QED BY <1>1, <1>2, <2>1, <2>2, FAP!AllocEffect, BitmapConstants
<1>4. QED BY <1>3 DEF UsedIn

\* free_frame unmarks its frame.
LEMMA FreeUnmarks ==
    ASSUME NEW fr \in Bitmaps, NEW f \in Frames
    PROVE  /\ FA!ClearFrame(fr, f) \in Bitmaps
           /\ UsedIn(FA!ClearFrame(fr, f)) = UsedIn(fr) \ {f}
<1>1. /\ Bitmaps = FAP!Bitmap /\ Frames = FAP!Managed
      /\ \A b, g : FA!TestFrame(b, g) <=> FAP!TestFrame(b, g)
      /\ FA!ClearFrame(fr, f) = FAP!ClearFrame(fr, f)
  BY ManagedIsFrames
     DEF Bitmaps, FAP!Bitmap, FA!Words, FAP!Words, FA!Offsets, FAP!Offsets, FA!Managed,
         FAP!Managed, FA!TestFrame, FAP!TestFrame, FA!INDEX_FROM_BIT,
         FAP!INDEX_FROM_BIT, FA!OFFSET_FROM_BIT, FAP!OFFSET_FROM_BIT,
         FA!ClearFrame, FAP!ClearFrame
<1>2. fr \in FAP!Bitmap /\ f \in FAP!Managed
  BY <1>1
<1>3. /\ FAP!ClearFrame(fr, f) \in FAP!Bitmap
      /\ \A g \in FAP!Managed :
           FAP!TestFrame(FAP!ClearFrame(fr, f), g) <=> g # f /\ FAP!TestFrame(fr, g)
  BY <1>2, FAP!ClearFrameEffect, BitmapConstants
<1>4. QED BY <1>1, <1>3 DEF UsedIn

-----------------------------------------------------------------------------
\* What the parts of TypeOK say, with the bitmap's frames as frames.
LEMMA Types ==
    ASSUME TypeOK
    PROVE  /\ frames \in Bitmaps /\ owned \subseteq Frames /\ ret \in Frames
           /\ tables \in [Dirs -> Frames] /\ tables_physical \in [Dirs -> Entries]
           /\ mem \in [Frames -> [Slots -> Entries]]
           /\ boot \in 0 .. IDENTITY_PAGES /\ paging \in BOOLEAN /\ faulted \in BOOLEAN
           /\ call \in Calls \cup {NoCall}
           /\ tlb \in [Watched -> Entries \cup {NotAsked}]
           /\ asked \in [Pages -> Entries \cup {NotAsked}]
           /\ remapped \subseteq Pages /\ exposed \subseteq Watched /\ early \subseteq Watched
<1>1. FA!NULL \in Frames
  BY SmallNumbers DEF FA!NULL
<1>2. QED BY <1>1, ManagedIsFrames DEF TypeOK, FA!TypeOK, Bitmaps

\* And the way back.
LEMMA TypesSuffice ==
    ASSUME /\ frames \in Bitmaps /\ owned \subseteq Frames /\ ret \in Frames
           /\ tables \in [Dirs -> Frames] /\ tables_physical \in [Dirs -> Entries]
           /\ mem \in [Frames -> [Slots -> Entries]]
           /\ boot \in 0 .. IDENTITY_PAGES /\ paging \in BOOLEAN /\ faulted \in BOOLEAN
           /\ call \in Calls \cup {NoCall}
           /\ tlb \in [Watched -> Entries \cup {NotAsked}]
           /\ asked \in [Pages -> Entries \cup {NotAsked}]
           /\ remapped \subseteq Pages /\ exposed \subseteq Watched /\ early \subseteq Watched
    PROVE  TypeOK
  BY ManagedIsFrames DEF TypeOK, FA!TypeOK, Bitmaps

\* The same for the state after a step.
LEMMA TypesSufficeAfter ==
    ASSUME /\ frames' \in Bitmaps /\ owned' \subseteq Frames /\ ret' \in Frames
           /\ tables' \in [Dirs -> Frames] /\ tables_physical' \in [Dirs -> Entries]
           /\ mem' \in [Frames -> [Slots -> Entries]]
           /\ boot' \in 0 .. IDENTITY_PAGES /\ paging' \in BOOLEAN /\ faulted' \in BOOLEAN
           /\ call' \in Calls \cup {NoCall}
           /\ tlb' \in [Watched -> Entries \cup {NotAsked}]
           /\ asked' \in [Pages -> Entries \cup {NotAsked}]
           /\ remapped' \subseteq Pages /\ exposed' \subseteq Watched /\ early' \subseteq Watched
    PROVE  TypeOK'
  BY ManagedIsFrames DEF TypeOK, FA!TypeOK, Bitmaps

\* The six stores, by number.
LEMMA FieldOrder ==
    /\ Len(Fields) = 6
    /\ Fields[1] = "frame" /\ Fields[2] = "P" /\ Fields[3] = "RW"
    /\ Fields[4] = "US" /\ Fields[5] = "PWT" /\ Fields[6] = "PCD"
  BY DEF Fields

\* Entries and calls carry frames and flag bits.
LEMMA EntryTypes ==
    /\ ClearedEntry \in Entries /\ NotAsked \notin Entries /\ NoCall \notin Calls
    /\ \A p \in Frames, fl \in SUBSET Flags :
           /\ PageEntry(p, fl) \in Entries /\ DirEntry(p, fl) \in Entries
           /\ [frame |-> p, flags |-> fl] \in Entries
    /\ \A e \in Entries : e.frame \in Frames /\ e.flags \in SUBSET Flags
    /\ \A c \in Calls : /\ c.page \in Pages /\ c.frame \in Frames
                         /\ c.flags \in SUBSET Flags /\ c.at \in 0 .. 6
<1>1. 0 \in Frames /\ NoFrame \notin Frames
  BY SmallNumbers DEF Frames, NoFrame
<1>2. Len(Fields) = 6
  BY FieldOrder
<1>3. QED BY <1>1, <1>2 DEF ClearedEntry, Entries, NotAsked, NoCall, Calls, PageEntry, DirEntry, Flags

\* The walk only looks at present entries of both levels.
LEMMA WalkCases ==
    ASSUME NEW v \in Pages
    PROVE  LET pde == tables_physical[TableOf(v)]
               pte == mem[pde.frame][SlotOf(v)]
           IN  /\ "P" \notin pde.flags \/ "P" \notin pte.flags => Walk(v) = NotAsked
               /\ "P" \in pde.flags /\ "P" \in pte.flags =>
                    Walk(v) = [frame |-> pte.frame, flags |-> pde.flags \cap pte.flags \cap Rights]
  BY DEF Walk

\* What a call in progress may be, and that NoCall is none.
LEMMA CallTypes ==
    ASSUME PagingInv
    PROVE  /\ call # NoCall => /\ call \in Calls /\ call.page \in Pages
                               /\ call.frame \in Frames /\ call.flags \in SUBSET Flags
                               /\ call.at \in 0 .. 6
                               /\ TableOf(call.page) \in Dirs /\ SlotOf(call.page) \in Slots
           /\ call.at > 0 => call # NoCall
<1>1. call \in Calls \cup {NoCall}
  BY Types DEF PagingInv
<1>2. NoCall.at = 0
  BY DEF NoCall
<1>3. QED BY <1>1, <1>2, EntryTypes, PageSplit

\* While every table is low, the identity map is as the tables hold it;
\* page 0 was lost with its table.
LEMMA IdentityWalk ==
    ASSUME PagingInv, Low, paging
    PROVE  /\ \A v \in 1 .. IDENTITY_PAGES - 1 : Walk(v) = [frame |-> v, flags |-> {"RW"}]
           /\ Walk(0) = NotAsked
<1>1. /\ boot = IDENTITY_PAGES /\ boot >= 2 /\ tables[0] = 1
      /\ tables_physical[0].flags = BOOT_FLAGS /\ tables_physical[0].frame = 1
  BY SmallNumbers DEF PagingInv, BootOrder, DirectorySound
<1>2. ~Pending(0) /\ \A v \in 1 .. IDENTITY_PAGES - 1 : ~Storing(v)
  <2>1. call # NoCall => /\ call.page \in ClientPages
                         /\ call.at = 0 => TableOf(call.page) # 0
    BY DEF PagingInv, BootOrder
  <2>2. call.at > 0 => call.page >= IDENTITY_PAGES /\ call.page \in Nat
    BY <2>1, CallTypes, SmallNumbers
  <2>3. QED BY <2>1, <2>2, SmallNumbers DEF Pending, Storing
<1>3. /\ mem[1][0] = ClearedEntry
      /\ \A v \in 1 .. IDENTITY_PAGES - 1 : mem[1][v] = PageEntry(v, BOOT_FLAGS)
  BY <1>1, <1>2 DEF PagingInv, MemSound, IdentityEntries
<1>4. ASSUME NEW v \in 1 .. IDENTITY_PAGES - 1
      PROVE  Walk(v) = [frame |-> v, flags |-> {"RW"}]
  <2>1. v \in Pages /\ TableOf(v) = 0 /\ SlotOf(v) = v
    BY SmallNumbers, PageSplit
  <2>2. PageEntry(v, BOOT_FLAGS) = [frame |-> v, flags |-> BOOT_FLAGS] /\ "P" \in BOOT_FLAGS
    BY DEF PageEntry, BOOT_FLAGS
  <2>3. Walk(v) = [frame |-> v, flags |-> BOOT_FLAGS \cap BOOT_FLAGS \cap Rights]
    <3>1. mem[1][v] = [frame |-> v, flags |-> BOOT_FLAGS]
      BY <1>3, <2>2
    <3>2. /\ tables_physical[TableOf(v)].flags = BOOT_FLAGS
          /\ mem[tables_physical[TableOf(v)].frame][SlotOf(v)] = [frame |-> v, flags |-> BOOT_FLAGS]
      BY <1>1, <2>1, <3>1
    <3>3. QED BY <2>2, <3>2 DEF Walk
  <2>4. BOOT_FLAGS \cap BOOT_FLAGS \cap Rights = {"RW"}
    BY DEF BOOT_FLAGS, Rights
  <2>5. QED BY <2>3, <2>4
<1>5. Walk(0) = NotAsked
  <2>1. TableOf(0) = 0 /\ SlotOf(0) = 0
    BY SmallNumbers, PageSplit
  <2>2. QED BY <1>1, <1>3, <2>1 DEF Walk, ClearedEntry
<1>6. QED BY <1>4, <1>5

\* While every table is low, the code's pointer to a table reaches it.
LEMMA ReachTable ==
    ASSUME PagingInv, Low, NEW t \in Dirs
    PROVE  /\ paging /\ tables[t] = NULL => Reach(tables[t]) = NoFrame
           /\ ~paging \/ tables[t] # NULL =>
                Reach(tables[t]) = tables[t] /\ tables[t] \in Frames /\ tables[t] # NoFrame
<1>1. tables[t] \in Frames /\ tables[t] # NoFrame /\ tables[t] < IDENTITY_PAGES
  BY Types DEF PagingInv, Low, Frames, NoFrame
<1>2. CASE ~paging
  BY <1>1, <1>2 DEF Reach
<1>3. CASE paging /\ tables[t] = NULL
  BY <1>3, IdentityWalk DEF Reach, NULL, NotAsked
<1>4. CASE paging /\ tables[t] # NULL
  <2>1. tables[t] \in 1 .. IDENTITY_PAGES - 1
    BY <1>1, <1>4, SmallNumbers DEF Frames, NULL
  <2>2. QED BY <1>1, <1>4, <2>1, IdentityWalk DEF Reach
<1>5. QED BY <1>2, <1>3, <1>4

\* What a pointer reaches, if anything, is a frame.
LEMMA ReachIsFrame ==
    ASSUME PagingInv, NEW f \in Frames
    PROVE  Reach(f) \in Frames \cup {NoFrame}
<1>1. f \in Pages /\ TableOf(f) \in Dirs /\ SlotOf(f) \in Slots
  BY SmallNumbers, PageSplit
<1>2. tables_physical[TableOf(f)] \in Entries
  BY <1>1, Types DEF PagingInv
<1>3. mem[tables_physical[TableOf(f)].frame][SlotOf(f)] \in Entries
  BY <1>1, <1>2, Types, EntryTypes DEF PagingInv
<1>4. mem[tables_physical[TableOf(f)].frame][SlotOf(f)].frame \in Frames
  BY <1>3, EntryTypes
<1>5. QED BY <1>1, <1>4, WalkCases DEF Reach, NotAsked

\* Between calls the walk of a page gives what was asked for it.
LEMMA WalkAsked ==
    ASSUME PagingInv, Low, call = NoCall, NEW v \in Pages \ {0}
    PROVE  /\ asked[v] = NotAsked =>
                /\ Walk(v) = NotAsked
                /\ "P" \in tables_physical[TableOf(v)].flags => EntryOf(v) = ClearedEntry
           /\ asked[v] # NotAsked =>
                /\ "P" \in tables_physical[TableOf(v)].flags
                /\ Walk(v) = [frame |-> asked[v].frame,
                              flags |-> tables_physical[TableOf(v)].flags
                                          \cap (asked[v].flags \cup {"P"}) \cap Rights]
<1> DEFINE t == TableOf(v)
<1>1. t \in Dirs /\ ~Pending(t) /\ ~Storing(v)
  BY PageSplit DEF Pending, Storing, NoCall
<1>2. CASE "P" \notin tables_physical[t].flags
  <2>1. asked[v] = NotAsked
    BY <1>1, <1>2 DEF PagingInv, SlotsUnused
  <2>2. QED BY <1>2, <2>1 DEF Walk
<1>3. CASE "P" \in tables_physical[t].flags
  <2>1. EntryOf(v) = EntryFor(asked[v])
    BY <1>1, <1>3 DEF PagingInv, MemSound, EntriesAsAsked
  <2>2. QED BY <1>3, <2>1 DEF Walk, EntryOf, EntryFor, ClearedEntry, PageEntry
<1>4. QED BY <1>2, <1>3

\* paging_init with a cleared bitmap and directory.
LEMMA InitEstablishesPagingInv == Init => PagingInv
<1> SUFFICES ASSUME Init PROVE PagingInv
  OBVIOUS
<1>1. frames = FA!ClearedBitmap /\ owned = {} /\ ret = 0
  BY DEF Init, FA!Init, FA!NULL
<1>2. frames \in Bitmaps
  BY <1>1 DEF FA!ClearedBitmap, Bitmaps
<1>3. UsedIn(frames) = {}
  <2>1. \A f \in Frames : FA!INDEX_FROM_BIT(f) \in FA!Words
    <3>1. FA!INDEX_FROM_BIT(n_frames) = FAP!INDEX_FROM_BIT(n_frames) /\ FA!Words = FAP!Words
          /\ FAP!Managed = Frames /\ \A f : FA!INDEX_FROM_BIT(f) = FAP!INDEX_FROM_BIT(f)
      BY ManagedIsFrames DEF FA!INDEX_FROM_BIT, FAP!INDEX_FROM_BIT, FA!Words, FAP!Words,
                             FA!Managed, FAP!Managed
    <3>2. QED BY <3>1, FAP!WordOfFrame, BitmapConstants
  <2>2. QED BY <1>1, <2>1 DEF UsedIn, FA!TestFrame, FA!ClearedBitmap
<1>4. /\ tables = [t \in Dirs |-> 0]
      /\ tables_physical = [t \in Dirs |-> [frame |-> 0, flags |-> {}]]
      /\ boot = 0 /\ paging = FALSE /\ faulted = FALSE /\ call = NoCall
      /\ tlb = [v \in Watched |-> NotAsked] /\ asked = [v \in Pages |-> NotAsked]
      /\ remapped = {} /\ exposed = {} /\ early = {}
  BY DEF Init, NULL
<1>5. TypeOK
  <2>1. mem \in [Frames -> [Slots -> Entries]]
    BY PagingConstants DEF Init
  <2>2. [frame |-> 0, flags |-> {}] \in Entries
    BY SmallNumbers DEF Entries
  <2>3. 0 \in 0 .. IDENTITY_PAGES
    BY SmallNumbers
  <2>4. paging \in BOOLEAN /\ faulted \in BOOLEAN
    BY <1>4, Zenon
  <2>5. QED BY <1>1, <1>2, <1>4, <2>1, <2>2, <2>3, <2>4, SmallNumbers, TypesSuffice
<1>6. FramesOwned
  BY <1>1, <1>3, <1>4, UsedFrames DEF FramesOwned
<1>7. BootOrder
  BY <1>1, <1>4, SmallNumbers DEF BootOrder, NULL
<1>8. DirectorySound /\ SlotsUnused /\ RightsSource
  BY <1>4, PageSplit DEF DirectorySound, SlotsUnused, RightsSource, NULL
<1>9. CallSound /\ FaultsExplained
  BY <1>4 DEF CallSound, FaultsExplained
<1>10. MemSound
  <2>1. IdentityEntries /\ EntriesAsAsked
    BY <1>4, PageSplit DEF IdentityEntries, EntriesAsAsked
  <2>2. EntryInProgress /\ KeptSound
    BY <1>4 DEF EntryInProgress, KeptSound, NoCall
  <2>3. QED BY <2>1, <2>2 DEF MemSound
<1>11. QED BY <1>5, <1>6, <1>7, <1>8, <1>9, <1>10 DEF PagingInv

-----------------------------------------------------------------------------
\* A step that changes frames and owners only, and between calls.
LEMMA AllocatorStep ==
    ASSUME PagingInv, Idle, paging, UNCHANGED <<pageVars, tlbVars, boot, paging>>,
           frames' \in Bitmaps, owned' \subseteq UsedIn(frames'), NULL \notin owned',
           NULL \in UsedIn(frames'), ret' \in Frames,
           \A t \in Dirs : tables[t] # NULL => tables[t] \in UsedIn(frames') \ owned'
    PROVE  PagingInv'
<1>1. /\ tables' = tables /\ tables_physical' = tables_physical /\ mem' = mem
      /\ asked' = asked /\ remapped' = remapped /\ faulted' = faulted /\ call' = call
      /\ tlb' = tlb /\ exposed' = exposed /\ early' = early /\ boot' = boot
      /\ paging' = paging /\ call = NoCall /\ ~faulted
  BY DEF pageVars, tlbVars, Idle
<1>2. /\ boot = IDENTITY_PAGES /\ boot >= 2
  BY SmallNumbers DEF PagingInv, BootOrder
<1>3. TypeOK'
  <2>1. owned' \subseteq Frames
    BY DEF UsedIn
  <2>2. QED BY <1>1, <2>1, Types, TypesSufficeAfter DEF PagingInv
<1>4. FramesOwned'
  BY <1>1, <1>2, UsedFrames DEF FramesOwned
<1>5. BootOrder'
  BY <1>1 DEF PagingInv, BootOrder
<1>6. DirectorySound'
  BY <1>1, UsedFrames DEF PagingInv, DirectorySound, Pending
<1>7. SlotsUnused' /\ RightsSource'
  BY <1>1 DEF PagingInv, SlotsUnused, RightsSource
<1>8. CallSound' /\ FaultsExplained'
  BY <1>1 DEF CallSound, FaultsExplained
<1>9. Low' => MemSound'
  BY <1>1 DEF PagingInv, Low, MemSound, IdentityEntries, EntriesAsAsked, EntryInProgress,
              KeptSound, Pending, Storing, EntryOf, Walk
<1>10. QED BY <1>3, <1>4, <1>5, <1>6, <1>7, <1>8, <1>9 DEF PagingInv

\* A client's alloc_frame: the frame was nobody's.
LEMMA ClientAllocPreserves == PagingInv /\ ClientAlloc => PagingInv'
<1> SUFFICES ASSUME PagingInv, ClientAlloc PROVE PagingInv'
  OBVIOUS
<1>1. PICK o \in FA!AllocOutcomes(frames) :
        frames' = o.bits /\ owned' = owned \cup ({o.frame} \ {NULL}) /\ ret' = o.frame
  BY DEF ClientAlloc, FA!alloc_frame, FA!NULL, NULL
<1>2. Idle /\ paging /\ UNCHANGED <<pageVars, tlbVars, boot, paging>>
  BY DEF ClientAlloc
<1>3. /\ frames \in Bitmaps /\ owned \subseteq UsedIn(frames) /\ NULL \notin owned
      /\ NULL \in UsedIn(frames) /\ NULL \in Frames
      /\ \A t \in Dirs : tables[t] # NULL => tables[t] \in UsedIn(frames) \ owned
  BY <1>2, Types, UsedFrames, SmallNumbers
     DEF PagingInv, FramesOwned, BootOrder, DirectorySound, NULL
<1>4. /\ frames' \in Bitmaps /\ owned' \subseteq UsedIn(frames') /\ NULL \notin owned'
      /\ NULL \in UsedIn(frames') /\ ret' \in Frames
      /\ \A t \in Dirs : tables[t] # NULL => tables[t] \in UsedIn(frames') \ owned'
  <2>1. CASE UsedIn(frames) = Frames /\ o.frame = NULL /\ o.bits = frames
    BY <1>1, <1>3, <2>1
  <2>2. CASE /\ o.frame \in Frames \ UsedIn(frames) /\ o.bits \in Bitmaps
             /\ UsedIn(o.bits) = UsedIn(frames) \cup {o.frame}
    BY <1>1, <1>3, <2>2
  <2>3. QED BY <1>3, <2>1, <2>2, AllocGrants
<1>5. QED BY <1>2, <1>4, AllocatorStep

\* A client's free_frame: the frame was the client's, hence no table.
LEMMA ClientFreePreserves ==
    ASSUME PagingInv, NEW f \in Frames, ClientFree(f) PROVE PagingInv'
<1>1. /\ Idle /\ paging /\ UNCHANGED <<pageVars, tlbVars, boot, paging>>
      /\ f \in owned /\ frames' = FA!ClearFrame(frames, f) /\ owned' = owned \ {f}
      /\ ret' = ret
  BY DEF ClientFree, FA!free_frame
<1>2. /\ frames \in Bitmaps /\ owned \subseteq UsedIn(frames) /\ NULL \notin owned
      /\ NULL \in UsedIn(frames) /\ ret \in Frames
      /\ \A t \in Dirs : tables[t] # NULL => tables[t] \in UsedIn(frames) \ owned
  BY <1>1, Types, UsedFrames, SmallNumbers
     DEF PagingInv, FramesOwned, BootOrder, DirectorySound
<1>3. frames' \in Bitmaps /\ UsedIn(frames') = UsedIn(frames) \ {f}
  BY <1>1, <1>2, FreeUnmarks
<1>4. /\ owned' \subseteq UsedIn(frames') /\ NULL \notin owned' /\ NULL \in UsedIn(frames')
      /\ ret' \in Frames
      /\ \A t \in Dirs : tables[t] # NULL => tables[t] \in UsedIn(frames') \ owned'
  BY <1>1, <1>2, <1>3
<1>5. QED BY <1>1, <1>3, <1>4, AllocatorStep

\* Turning paging on: the identity map is complete by then.
LEMMA EnablePreserves == PagingInv /\ EnablePaging => PagingInv'
<1> SUFFICES ASSUME PagingInv, EnablePaging PROVE PagingInv'
  OBVIOUS
<1>1. /\ tables' = tables /\ tables_physical' = tables_physical /\ mem' = mem
      /\ asked' = asked /\ remapped' = remapped /\ faulted' = faulted /\ call' = call
      /\ tlb' = tlb /\ exposed' = exposed /\ early' = early /\ boot' = boot
      /\ frames' = frames /\ owned' = owned /\ ret' = ret /\ paging' = TRUE
      /\ call = NoCall /\ ~faulted /\ boot = IDENTITY_PAGES
  BY DEF EnablePaging, pageVars, tlbVars, Idle
<1>2. TypeOK'
  BY <1>1, Types, TypesSufficeAfter DEF PagingInv
<1>3. FA!Used' = FA!Used
  BY <1>1, UsedFrames
<1>4. FramesOwned' /\ DirectorySound'
  BY <1>1, <1>3 DEF PagingInv, FramesOwned, DirectorySound, Pending
<1>5. BootOrder'
  BY <1>1, SmallNumbers DEF PagingInv, BootOrder
<1>6. SlotsUnused' /\ RightsSource'
  BY <1>1 DEF PagingInv, SlotsUnused, RightsSource
<1>7. CallSound' /\ FaultsExplained'
  BY <1>1 DEF CallSound, FaultsExplained
<1>8. Low' => MemSound'
  BY <1>1 DEF PagingInv, Low, MemSound, IdentityEntries, EntriesAsAsked, EntryInProgress,
              KeptSound, Pending, Storing, EntryOf, Walk
<1>9. QED BY <1>2, <1>4, <1>5, <1>6, <1>7, <1>8 DEF PagingInv

\* The processor keeps what it walked; only present entries can be kept.
LEMMA FillPreserves ==
    ASSUME PagingInv, NEW v \in Watched, Fill(v) PROVE PagingInv'
<1>1. /\ tables' = tables /\ tables_physical' = tables_physical /\ mem' = mem
      /\ asked' = asked /\ remapped' = remapped /\ faulted' = faulted /\ call' = call
      /\ boot' = boot /\ paging' = paging
      /\ frames' = frames /\ owned' = owned /\ ret' = ret /\ paging
  BY DEF Fill, pageVars
<1>2. /\ Walk(v) # NotAsked /\ tlb' = [tlb EXCEPT ![v] = Walk(v)]
      /\ exposed' = IF Pending(TableOf(v)) THEN exposed \cup {v} ELSE exposed
      /\ early' = IF Storing(v) THEN early \cup {v} ELSE early
  BY DEF Fill, Pending, Storing
<1>3. v \in Pages /\ TableOf(v) \in Dirs /\ SlotOf(v) \in Slots
  BY SmallNumbers, PageSplit
<1>4. "P" \in tables_physical[TableOf(v)].flags
  BY <1>2 DEF Walk
<1>5. Walk(v) \in Entries
  <2>1. tables_physical[TableOf(v)] \in Entries
    BY <1>3, Types DEF PagingInv
  <2>2. mem[tables_physical[TableOf(v)].frame][SlotOf(v)] \in Entries
    BY <1>3, <2>1, Types, EntryTypes DEF PagingInv
  <2>3. QED BY <1>2, <2>1, <2>2 DEF Walk, Entries
<1>6. TypeOK'
  BY <1>1, <1>2, <1>5, Types, TypesSufficeAfter DEF PagingInv
<1>7. FA!Used' = FA!Used
  BY <1>1, UsedFrames
<1>8. FramesOwned' /\ DirectorySound' /\ FaultsExplained'
  BY <1>1, <1>7 DEF PagingInv, FramesOwned, DirectorySound, FaultsExplained, Pending
<1>9. BootOrder' /\ RightsSource'
  BY <1>1 DEF PagingInv, BootOrder, RightsSource
<1>10. \A u \in Watched : tlb'[u] = IF u = v THEN Walk(v) ELSE tlb[u]
  BY <1>2, Types DEF PagingInv
<1>11. SlotsUnused'
  BY <1>1, <1>4, <1>10 DEF PagingInv, SlotsUnused
<1>12. exposed \subseteq exposed' /\ early \subseteq early'
  BY <1>2
<1>13. CallSound'
  <2> SUFFICES ASSUME call # NoCall PROVE CallSound'
    BY <1>1 DEF CallSound
  <2> DEFINE t == TableOf(call.page)
  <2>1. ASSUME call.at > 0, call.page \in Watched \ (remapped \cup exposed' \cup early')
        PROVE  tlb'[call.page] = NotAsked
    <3>1. call.page # v
      BY <1>2, <2>1 DEF Storing
    <3>2. QED BY <1>10, <1>12, <2>1, <3>1 DEF PagingInv, CallSound
  <2>2. ASSUME call.at = 0, NEW u \in Watched \ exposed', TableOf(u) = t
        PROVE  tlb'[u] = NotAsked
    <3>1. u # v
      BY <1>2, <2>2 DEF Pending
    <3>2. QED BY <1>10, <1>12, <2>2, <3>1 DEF PagingInv, CallSound
  <2>3. QED BY <1>1, <1>7, <2>1, <2>2 DEF PagingInv, CallSound
<1>14. ASSUME Low PROVE MemSound'
  <2>1. IdentityEntries' /\ EntriesAsAsked' /\ EntryInProgress'
    BY <1>1, <1>14 DEF PagingInv, MemSound, IdentityEntries, EntriesAsAsked, EntryInProgress,
                       Pending, Storing, EntryOf
  <2>2. \A u : Walk(u)' = Walk(u)
    BY <1>1 DEF Walk
  <2>3. KeptSound'
    <3> SUFFICES ASSUME NEW u \in Watched \ (remapped \cup exposed'), tlb'[u] # NotAsked
                 PROVE  /\ tlb'[u].frame = Walk(u).frame
                        /\ tlb'[u].flags \subseteq Walk(u).flags \cup {"RW"}
                        /\ u \notin early' => tlb'[u] = Walk(u)
      BY <1>1, <2>2 DEF KeptSound
    <3>1. CASE u = v
      BY <1>10, <3>1
    <3>2. CASE u # v
      BY <1>10, <1>12, <1>14, <3>2 DEF PagingInv, MemSound, KeptSound
    <3>3. QED BY <3>1, <3>2
  <2>4. QED BY <2>1, <2>3 DEF MemSound
<1>15. Low' => Low
  BY <1>1 DEF Low
<1>16. QED BY <1>6, <1>8, <1>9, <1>11, <1>13, <1>14, <1>15 DEF PagingInv

-----------------------------------------------------------------------------
\* The call after its next store.
Advanced(c) == [c EXCEPT !.at = @ + 1]

\* The store number c.at adds its field to those stored, and keeps the others.
LEMMA FieldStored ==
    ASSUME NEW e \in Entries, NEW c \in Calls, c.at > 0, SoFar(e, c)
    PROVE  /\ StoreField(e, c) \in Entries
           /\ c.at < 6 => /\ Advanced(c) \in Calls /\ SoFar(StoreField(e, c), Advanced(c))
                          /\ Advanced(c).page = c.page /\ Advanced(c).frame = c.frame
                          /\ Advanced(c).flags = c.flags /\ Advanced(c).at > 0
           /\ c.at = 6 => StoreField(e, c) = PageEntry(c.frame, c.flags)
           /\ c.at < 6 /\ StillClear(e, c) => StillClear(StoreField(e, c), Advanced(c))
           /\ StillClear(e, c) /\ "P" \in e.flags =>
                /\ StoreField(e, c).frame = e.frame /\ "P" \in StoreField(e, c).flags
                /\ "US" \in e.flags => "US" \in StoreField(e, c).flags
<1>1. /\ e.frame \in Frames /\ e.flags \in SUBSET Flags /\ c.page \in Pages
      /\ c.frame \in Frames /\ c.flags \in SUBSET Flags /\ c.at \in 1 .. 6
      /\ e = [frame |-> e.frame, flags |-> e.flags]
      /\ c = [page |-> c.page, frame |-> c.frame, flags |-> c.flags, at |-> c.at]
  BY EntryTypes DEF Entries, Calls
<1>2. c.at < 6 => /\ Advanced(c) \in Calls /\ Advanced(c).at = c.at + 1
                  /\ Advanced(c).page = c.page /\ Advanced(c).frame = c.frame
                  /\ Advanced(c).flags = c.flags /\ Advanced(c).at > 0
  BY <1>1, FieldOrder DEF Advanced, Calls
<1> DEFINE s == StoreField(e, c)
<1>3. CASE c.at = 1
  <2>1. s = [frame |-> c.frame, flags |-> e.flags]
    BY <1>1, <1>3, FieldOrder DEF StoreField
  <2> HIDE DEF s
  <2>2. s \in Entries /\ s.frame = c.frame /\ s.flags = e.flags
    BY <1>1, <2>1 DEF Entries
  <2>3. QED BY <1>2, <1>3, <2>2 DEF SoFar, StillClear, s
<1>4. ASSUME c.at \in 2 .. 6
      PROVE  /\ s = [frame |-> e.frame, flags |-> IF Fields[c.at] \in c.flags \cup {"P"}
                                                  THEN e.flags \cup {Fields[c.at]}
                                                  ELSE e.flags \ {Fields[c.at]}]
             /\ Fields[c.at] \in Flags /\ s \in Entries
  <2>1. Fields[c.at] \in Flags /\ Fields[c.at] # "frame"
    BY <1>4, FieldOrder DEF Flags
  <2>2. s = [frame |-> e.frame, flags |-> IF Fields[c.at] \in c.flags \cup {"P"}
                                          THEN e.flags \cup {Fields[c.at]}
                                          ELSE e.flags \ {Fields[c.at]}]
    BY <1>1, <2>1 DEF StoreField
  <2>3. QED BY <1>1, <2>1, <2>2 DEF Entries
<1>5. CASE c.at = 2
  <2>1. s.frame = e.frame /\ s.flags = e.flags \cup {"P"} /\ s \in Entries
    BY <1>4, <1>5, FieldOrder
  <2> HIDE DEF s
  <2>2. QED BY <1>2, <1>5, <2>1 DEF SoFar, StillClear, s
<1>6. CASE c.at = 3
  <2>1. /\ s.frame = e.frame /\ s \in Entries
        /\ s.flags = IF "RW" \in c.flags THEN e.flags \cup {"RW"} ELSE e.flags \ {"RW"}
    BY <1>4, <1>6, FieldOrder
  <2> HIDE DEF s
  <2>2. QED BY <1>2, <1>6, <2>1 DEF SoFar, StillClear, s
<1>7. CASE c.at = 4
  <2>1. /\ s.frame = e.frame /\ s \in Entries
        /\ s.flags = IF "US" \in c.flags THEN e.flags \cup {"US"} ELSE e.flags \ {"US"}
    BY <1>4, <1>7, FieldOrder
  <2> HIDE DEF s
  <2>2. QED BY <1>2, <1>7, <2>1 DEF SoFar, StillClear, s
<1>8. CASE c.at = 5
  <2>1. /\ s.frame = e.frame /\ s \in Entries
        /\ s.flags = IF "PWT" \in c.flags THEN e.flags \cup {"PWT"} ELSE e.flags \ {"PWT"}
    BY <1>4, <1>8, FieldOrder
  <2> HIDE DEF s
  <2>2. QED BY <1>2, <1>8, <2>1 DEF SoFar, StillClear, s
<1>9. CASE c.at = 6
  <2>1. /\ s.frame = e.frame /\ s \in Entries
        /\ s.flags = IF "PCD" \in c.flags THEN e.flags \cup {"PCD"} ELSE e.flags \ {"PCD"}
        /\ s = [frame |-> s.frame, flags |-> s.flags]
    BY <1>4, <1>9, FieldOrder
  <2> HIDE DEF s
  <2>2. s.frame = c.frame /\ s.flags = c.flags \cup {"P"}
    BY <1>1, <1>9, <2>1 DEF SoFar, Flags
  <2>3. s = PageEntry(c.frame, c.flags)
    BY <2>1, <2>2 DEF PageEntry
  <2>4. QED BY <1>2, <1>9, <2>1, <2>3 DEF SoFar, StillClear, s
<1>10. QED BY <1>1, <1>3, <1>5, <1>6, <1>7, <1>8, <1>9

-----------------------------------------------------------------------------
(***************************************************************************)
(* map_page is entered by a client, once paging is on, or by paging_init.  *)
(***************************************************************************)
ByClient(v) == paging /\ v \in ClientPages /\ boot' = boot

ByPagingInit(v, p, fl) ==
    /\ ~paging /\ boot < IDENTITY_PAGES /\ boot' = boot + 1
    /\ v = boot /\ p = boot /\ fl = BOOT_FLAGS

\* What entering map_page changes, whether or not the table exists.
LEMMA Entered ==
    ASSUME PagingInv, NEW v \in Pages, NEW p \in Frames, NEW fl \in SUBSET Flags,
           NEW a \in {0, 1}, EnterCall(v, p, fl, a)
    PROVE  /\ call' \in Calls /\ call' # NoCall
           /\ call'.page = v /\ call'.frame = p /\ call'.flags = fl /\ call'.at = a
           /\ asked' \in [Pages -> Entries \cup {NotAsked}]
           /\ asked'[v] = [frame |-> p, flags |-> fl] /\ asked'[v] # NotAsked
           /\ \A u \in Pages \ {v} : asked'[u] = asked[u]
           /\ remapped' \subseteq Pages /\ remapped \subseteq remapped'
           /\ v \notin remapped' => asked[v] = NotAsked
           /\ \A u \in remapped' \ remapped : u = v
           /\ mem' = mem /\ faulted' = faulted
<1>1. /\ call' = [page |-> v, frame |-> p, flags |-> fl, at |-> a]
      /\ asked' = [asked EXCEPT ![v] = [frame |-> p, flags |-> fl]]
      /\ remapped' = IF asked[v] = NotAsked THEN remapped ELSE remapped \cup {v}
      /\ mem' = mem /\ faulted' = faulted
  BY DEF EnterCall
<1>2. call' \in Calls
  <2>1. a \in 0 .. Len(Fields)
    BY FieldOrder
  <2>2. QED BY <1>1, <2>1 DEF Calls
<1>3. [frame |-> p, flags |-> fl] \in Entries
  BY EntryTypes
<1>4. asked \in [Pages -> Entries \cup {NotAsked}] /\ remapped \subseteq Pages
  BY Types DEF PagingInv
<1>5. QED BY <1>1, <1>2, <1>3, <1>4, EntryTypes

\* map_page is entered for a page whose table exists: nothing is stored yet.
LEMMA MapInTableStep ==
    ASSUME PagingInv, Idle, NEW v \in Pages \ {0}, NEW p \in Frames, NEW fl \in SUBSET Flags,
           MapInTable(v, p, fl), UNCHANGED <<owned, paging, tlbVars>>,
           ByClient(v) \/ ByPagingInit(v, p, fl)
    PROVE  PagingInv'
<1> DEFINE t == TableOf(v)
<1>1. /\ tables[t] # NULL /\ EnterCall(v, p, fl, 1)
      /\ frames' = frames /\ ret' = ret /\ tables' = tables
      /\ tables_physical' = tables_physical
      /\ owned' = owned /\ paging' = paging /\ tlb' = tlb /\ exposed' = exposed
      /\ early' = early /\ call = NoCall /\ ~faulted /\ Intact
  BY DEF MapInTable, Idle, tlbVars
<1>2. /\ call' \in Calls /\ call' # NoCall
      /\ call'.page = v /\ call'.frame = p /\ call'.flags = fl /\ call'.at = 1
      /\ asked' \in [Pages -> Entries \cup {NotAsked}]
      /\ asked'[v] = [frame |-> p, flags |-> fl] /\ asked'[v] # NotAsked
      /\ \A u \in Pages \ {v} : asked'[u] = asked[u]
      /\ remapped' \subseteq Pages /\ remapped \subseteq remapped'
      /\ v \notin remapped' => asked[v] = NotAsked
      /\ mem' = mem /\ faulted' = faulted
  <2>1. 1 \in {0, 1} /\ v \in Pages
    OBVIOUS
  <2>2. QED BY <1>1, <2>1, Entered
<1>3. t \in Dirs /\ "P" \in tables_physical[t].flags /\ Low /\ Low'
  BY <1>1, PageSplit DEF PagingInv, DirectorySound, Intact, Low
<1>4. /\ ByPagingInit(v, p, fl) => boot >= 2 /\ boot \in Nat /\ boot' = boot + 1 /\ v = boot
      /\ ByClient(v) => boot = IDENTITY_PAGES /\ boot' = boot /\ v >= IDENTITY_PAGES
                        /\ v \in Nat
      /\ boot \in 0 .. IDENTITY_PAGES /\ boot' \in 0 .. IDENTITY_PAGES /\ boot >= 2
  <2>1. boot \in 0 .. IDENTITY_PAGES
    BY Types DEF PagingInv
  <2>2. CASE ByClient(v)
    BY <2>1, <2>2, SmallNumbers DEF ByClient, ByPagingInit, PagingInv, BootOrder
  <2>3. CASE ByPagingInit(v, p, fl)
    <3>1. v \in 0 .. IDENTITY_PAGES - 1 /\ boot \in Nat
      BY <2>1, <2>3, SmallNumbers DEF ByPagingInit
    <3>2. t = 0
      BY <3>1, PageSplit
    <3>3. boot >= 2
      BY <1>1, <3>1, <3>2 DEF PagingInv, BootOrder
    <3>4. QED BY <2>1, <2>3, <3>1, <3>3, SmallNumbers DEF ByClient, ByPagingInit
  <2>4. QED BY <2>2, <2>3
<1>5. FA!Used' = FA!Used
  BY <1>1, UsedFrames
<1>6. TypeOK'
  BY <1>1, <1>2, <1>4, Types, TypesSufficeAfter DEF PagingInv
<1>7. FramesOwned'
  BY <1>1, <1>4, <1>5 DEF PagingInv, FramesOwned
<1>8. BootOrder'
  <2>1. CASE ByClient(v)
    BY <1>1, <1>2, <1>4, <2>1 DEF ByClient, PagingInv, BootOrder
  <2>2. CASE ByPagingInit(v, p, fl)
    BY <1>1, <1>2, <1>4, <2>2 DEF ByPagingInit, PagingInv, BootOrder
  <2>3. QED BY <2>1, <2>2
<1>9. DirectorySound'
  BY <1>1, <1>2, <1>4, <1>5 DEF PagingInv, DirectorySound, Pending
<1>10. SlotsUnused' /\ RightsSource'
  <2>1. SlotsUnused'
    BY <1>1, <1>2, <1>3 DEF PagingInv, SlotsUnused
  <2>2. ASSUME NEW q \in Dirs, "P" \in tables_physical[q].flags
        PROVE  \E u \in Pages : /\ TableOf(u) = q /\ asked'[u] # NotAsked
                                /\ \/ tables_physical[q].flags = asked'[u].flags \cup {"P"}
                                   \/ u \in remapped'
    <3>1. PICK u \in Pages : /\ TableOf(u) = q /\ asked[u] # NotAsked
                             /\ \/ tables_physical[q].flags = asked[u].flags \cup {"P"}
                                \/ u \in remapped
      BY <2>2 DEF PagingInv, RightsSource
    <3>2. CASE u = v
      BY <1>2, <3>1, <3>2
    <3>3. CASE u # v
      BY <1>2, <3>1, <3>3
    <3>4. QED BY <3>2, <3>3
  <2>3. QED BY <1>1, <2>1, <2>2 DEF RightsSource
<1>11. asked[v] = NotAsked => Walk(v) = NotAsked /\ EntryOf(v) = ClearedEntry
  BY <1>1, <1>3, WalkAsked
<1>12. ASSUME v \in Watched \ (remapped' \cup exposed) PROVE tlb[v] = NotAsked
  <2>1. v \notin remapped /\ Walk(v) = NotAsked /\ tlb[v] \in Entries \cup {NotAsked}
    BY <1>2, <1>11, <1>12, Types DEF PagingInv
  <2>2. tlb[v] # NotAsked => tlb[v].frame = Walk(v).frame
    BY <1>3, <1>12, <2>1 DEF PagingInv, MemSound, KeptSound
  <2>3. Walk(v).frame = NoFrame /\ NoFrame \notin Frames
    BY <2>1 DEF NotAsked, NoFrame, Frames
  <2>4. QED BY <2>1, <2>2, <2>3, EntryTypes
<1>13. CallSound' /\ FaultsExplained'
  <2>1. \A u \in Dirs : ~(tables[u] >= IDENTITY_PAGES)
    BY <1>3, Types, SmallNumbers DEF PagingInv, Low, Frames
  <2>2. FaultsExplained'
    BY <1>1, <1>2 DEF FaultsExplained
  <2>3. QED BY <1>1, <1>2, <1>3, <1>12, <2>1, <2>2 DEF CallSound
<1>14. MemSound'
  <2>1. \A u \in Dirs : ~Pending(u) /\ ~Pending(u)'
    BY <1>1, <1>2 DEF Pending
  <2>2. \A u \in Pages : ~Storing(u) /\ (Storing(u)' <=> u = v)
    BY <1>1, <1>2 DEF Storing, NoCall
  <2>3. \A u : EntryOf(u)' = EntryOf(u) /\ Walk(u)' = Walk(u)
    BY <1>1, <1>2 DEF EntryOf, Walk
  <2>4. IdentityEntries'
    <3>1. 0 \in Dirs
      BY SmallNumbers
    <3>2. /\ mem[1][0] = ClearedEntry
          /\ \A w \in 1 .. boot - 1 : ~Storing(w) => mem[1][w] = PageEntry(w, BOOT_FLAGS)
      BY <1>3, <1>4, <2>1, <3>1 DEF PagingInv, MemSound, IdentityEntries
    <3>3. PICK n \in 0 .. IDENTITY_PAGES, b \in 0 .. IDENTITY_PAGES :
             n = boot' /\ b = boot /\ (n = b \/ (n = b + 1 /\ v = b))
      BY <1>4
    <3>4. ASSUME NEW w \in 1 .. n - 1 PROVE w \in Pages /\ (w # v => w \in 1 .. b - 1)
      <4>1. IDENTITY_PAGES \in Nat /\ n \in Int /\ b \in Int /\ n <= IDENTITY_PAGES
        BY <3>3, SmallNumbers
      <4>2. w \in 0 .. IDENTITY_PAGES - 1
        BY <4>1
      <4>3. w \in Pages
        BY <4>2, SmallNumbers
      <4>4. CASE n = b
        BY <4>1, <4>3, <4>4
      <4>5. CASE n = b + 1 /\ v = b
        BY <4>1, <4>3, <4>5
      <4>6. QED BY <3>3, <4>3, <4>4, <4>5
    <3>5. ASSUME NEW w \in 1 .. boot' - 1, ~Storing(w)'
          PROVE  mem'[1][w] = PageEntry(w, BOOT_FLAGS)
      <4>1. w \in Pages /\ w # v /\ w \in 1 .. boot - 1
        BY <2>2, <3>3, <3>4, <3>5
      <4>2. QED BY <1>2, <2>2, <3>2, <4>1
    <3>6. PageEntry(1, BOOT_FLAGS)' = PageEntry(1, BOOT_FLAGS) /\ mem'[1][0] = ClearedEntry
      BY <1>2, <3>2
    <3>7. QED BY <3>5, <3>6 DEF IdentityEntries, ClearedEntry, PageEntry, BOOT_FLAGS
  <2>5. EntriesAsAsked'
    <3> SUFFICES ASSUME NEW u \in Pages \ {0}, "P" \in tables_physical[TableOf(u)].flags, u # v
                 PROVE  EntryOf(u) = EntryFor(asked'[u])
      BY <1>1, <2>2, <2>3 DEF EntriesAsAsked, EntryFor
    <3>1. TableOf(u) \in Dirs
      BY PageSplit
    <3>2. QED BY <1>2, <1>3, <2>1, <2>2, <3>1 DEF PagingInv, MemSound, EntriesAsAsked
  <2>6. EntryInProgress'
    <3>1. SoFar(EntryOf(v), call')
      BY <1>2 DEF SoFar
    <3>2. v \notin remapped' => StillClear(EntryOf(v), call')
      BY <1>2, <1>11 DEF StillClear, ClearedEntry
    <3>3. QED BY <1>2, <2>3, <3>1, <3>2 DEF EntryInProgress, SoFar, StillClear
  <2>7. KeptSound'
    BY <1>1, <1>2, <1>3, <1>12, <2>3 DEF PagingInv, MemSound, KeptSound
  <2>8. QED BY <2>4, <2>5, <2>6, <2>7 DEF MemSound
<1>15. QED BY <1>6, <1>7, <1>8, <1>9, <1>10, <1>13, <1>14 DEF PagingInv

-----------------------------------------------------------------------------
(***************************************************************************)
(* map_page entered for a page without a table: by a client, or by the     *)
(* first two calls of paging_init, the second of which takes the NULL that *)
(* the first was given for a missing table.                                *)
(***************************************************************************)
\* What alloc_frame and the directory stores do.
TableGiven(t, g) ==
    /\ frames' \in Bitmaps /\ UsedIn(frames') = UsedIn(frames) \cup {g}
    /\ \/ g \notin UsedIn(frames) /\ \A h \in Frames \ UsedIn(frames) : g <= h
       \/ UsedIn(frames) = Frames /\ g = NULL
    /\ ret' = g
    /\ tables' = [tables EXCEPT ![t] = g]

\* The frame such a step gives to slot t of the directory.
LEMMA NewTableGiven ==
    ASSUME PagingInv, NEW v \in Pages, NEW p \in Frames, NEW fl \in SUBSET Flags,
           MapNewTable(v, p, fl)
    PROVE  \E g \in Frames :
              /\ TableGiven(TableOf(v), g)
              /\ tables_physical' = [tables_physical EXCEPT ![TableOf(v)] = DirEntry(g, fl)]
<1>1. PICK o \in FA!AllocOutcomes(frames) :
         /\ frames' = o.bits /\ ret' = o.frame
         /\ tables' = [tables EXCEPT ![TableOf(v)] = o.frame]
         /\ tables_physical' = [tables_physical EXCEPT ![TableOf(v)] = DirEntry(o.frame, fl)]
  BY DEF MapNewTable
<1>2. frames \in Bitmaps /\ NULL \in Frames
  BY Types, SmallNumbers DEF PagingInv, NULL
<1>3. CASE UsedIn(frames) = Frames /\ o.frame = NULL /\ o.bits = frames
  BY <1>1, <1>2, <1>3 DEF TableGiven
<1>4. CASE /\ o.frame \in Frames \ UsedIn(frames) /\ o.bits \in Bitmaps
           /\ \A h \in Frames \ UsedIn(frames) : o.frame <= h
           /\ UsedIn(o.bits) = UsedIn(frames) \cup {o.frame}
  BY <1>1, <1>4 DEF TableGiven
<1>5. QED BY <1>2, <1>3, <1>4, AllocGrants

\* In the two calls of paging_init that frame is 0, then 1.
LEMMA BootTables ==
    ASSUME PagingInv, ~paging, boot \in {0, 1}, NEW t, NEW g \in Frames, TableGiven(t, g)
    PROVE  g = boot
<1>1. CASE boot = 0
  <2>1. UsedIn(frames) = {} /\ 0 \in Frames
    BY <1>1, UsedFrames, SmallNumbers DEF PagingInv, FramesOwned
  <2>2. QED BY <1>1, <2>1 DEF TableGiven, Frames
<1>2. CASE boot = 1
  <2>1. UsedIn(frames) = {0} /\ 0 \in Frames /\ 1 \in Frames
    BY <1>2, UsedFrames, SmallNumbers DEF PagingInv, FramesOwned, NULL
  <2>2. QED BY <1>2, <2>1 DEF TableGiven, Frames
<1>3. QED BY <1>1, <1>2

\* map_page is entered for a page without a table.
LEMMA NewTableStep ==
    ASSUME PagingInv, Idle, NEW v \in Pages, NEW p \in Frames, NEW fl \in SUBSET Flags,
           MapNewTable(v, p, fl), UNCHANGED <<owned, paging, tlbVars>>,
           ByClient(v) \/ (ByPagingInit(v, p, fl) /\ boot \in {0, 1})
    PROVE  PagingInv'
<1> DEFINE t == TableOf(v)
<1>1. PICK g \in Frames :
        /\ TableGiven(t, g)
        /\ tables_physical' = [tables_physical EXCEPT ![t] = DirEntry(g, fl)]
  BY NewTableGiven
<1>2. /\ owned' = owned /\ paging' = paging /\ tlb' = tlb /\ exposed' = exposed
      /\ early' = early /\ call = NoCall /\ ~faulted /\ tables[t] = NULL /\ Intact
      /\ call' \in Calls /\ call' # NoCall
      /\ call'.page = v /\ call'.frame = p /\ call'.flags = fl /\ call'.at = 0
      /\ asked' \in [Pages -> Entries \cup {NotAsked}]
      /\ asked'[v] = [frame |-> p, flags |-> fl] /\ asked'[v] # NotAsked
      /\ \A u \in Pages \ {v} : asked'[u] = asked[u]
      /\ remapped' \subseteq Pages /\ remapped \subseteq remapped'
      /\ mem' = mem /\ faulted' = faulted
  <2>1. EnterCall(v, p, fl, 0) /\ 0 \in {0, 1}
    BY DEF MapNewTable
  <2>2. /\ owned' = owned /\ paging' = paging /\ tlb' = tlb /\ exposed' = exposed
        /\ early' = early /\ call = NoCall /\ ~faulted /\ tables[t] = NULL /\ Intact
    BY DEF MapNewTable, Idle, tlbVars
  <2>3. QED BY <2>1, <2>2, Entered
<1>3. t \in Dirs /\ DirEntry(g, fl) \in Entries
      /\ DirEntry(g, fl).frame = g /\ DirEntry(g, fl).flags = fl \cup {"P"}
  BY PageSplit, EntryTypes DEF DirEntry
<1>4. /\ frames \in Bitmaps /\ tables \in [Dirs -> Frames]
      /\ tables_physical \in [Dirs -> Entries] /\ boot \in 0 .. IDENTITY_PAGES
      /\ owned \subseteq UsedIn(frames)
  BY Types, UsedFrames DEF PagingInv, FramesOwned
<1>5. /\ ByPagingInit(v, p, fl) => t = 0 /\ g = boot /\ boot \in {0, 1}
      /\ ByClient(v) => t # 0 /\ boot = IDENTITY_PAGES
  <2>1. ASSUME ByPagingInit(v, p, fl) PROVE t = 0 /\ g = boot /\ boot \in {0, 1}
    <3>1. boot \in {0, 1} /\ ~paging
      BY <2>1 DEF ByPagingInit, ByClient
    <3>2. v \in 0 .. IDENTITY_PAGES - 1
      BY <2>1, <3>1, SmallNumbers DEF ByPagingInit
    <3>3. t = 0
      BY <3>2, PageSplit
    <3>4. QED BY <1>1, <3>1, <3>3, BootTables
  <2>2. ASSUME ByClient(v) PROVE t # 0 /\ boot = IDENTITY_PAGES
    BY <1>2, <2>2, SmallNumbers DEF ByClient, PagingInv, BootOrder, NULL
  <2>3. QED BY <2>1, <2>2
<1>6. /\ \A u \in Dirs : tables'[u] = IF u = t THEN g ELSE tables[u]
      /\ \A u \in Dirs \ {t} : tables_physical'[u] = tables_physical[u]
      /\ tables_physical'[t].frame = g /\ tables_physical'[t].flags = fl \cup {"P"}
      /\ tables' \in [Dirs -> Frames] /\ tables_physical' \in [Dirs -> Entries]
  BY <1>1, <1>3, <1>4 DEF TableGiven
<1>7. /\ \A u \in Pages \ {0} : TableOf(u) = t => asked[u] = NotAsked
      /\ \A u \in Watched : TableOf(u) = t => tlb[u] = NotAsked
  <2>1. CASE "P" \notin tables_physical[t].flags
    BY <1>3, <2>1 DEF PagingInv, SlotsUnused
  <2>2. CASE "P" \in tables_physical[t].flags
    <3>1. t = 0 /\ boot = 1
      BY <1>2, <1>3, <2>2 DEF PagingInv, DirectorySound, Pending
    <3>2. ~paging
      BY <1>5, <3>1 DEF ByClient, ByPagingInit
    <3>3. QED BY <3>1, <3>2 DEF PagingInv, BootOrder
  <2>3. QED BY <2>1, <2>2
<1>8. /\ FA!Used = UsedIn(frames) /\ FA!Used' = UsedIn(frames) \cup {g}
      /\ g \notin UsedIn(frames) \/ (UsedIn(frames) = Frames /\ g = NULL)
  BY <1>1, UsedFrames DEF TableGiven
<1>9. boot' \in 0 .. IDENTITY_PAGES /\ boot' >= 1
  BY <1>4, <1>5, SmallNumbers DEF ByClient, ByPagingInit
<1>10. TypeOK'
  <2>1. frames' \in Bitmaps /\ ret' \in Frames
    BY <1>1 DEF TableGiven
  <2>2. QED BY <1>2, <1>6, <1>9, <2>1, Types, TypesSufficeAfter DEF PagingInv
<1>11. FramesOwned'
  <2>1. CASE ByClient(v)
    BY <1>2, <1>4, <1>5, <1>8, <2>1, SmallNumbers DEF ByClient, PagingInv, FramesOwned
  <2>2. CASE ByPagingInit(v, p, fl)
    BY <1>2, <1>4, <1>5, <1>8, <2>2 DEF ByPagingInit, PagingInv, FramesOwned, NULL
  <2>3. QED BY <2>1, <2>2
<1>12. BootOrder'
  <2>1. CASE ByClient(v)
    BY <1>2, <1>5, <1>6, <2>1, SmallNumbers DEF ByClient, PagingInv, BootOrder
  <2>2. CASE ByPagingInit(v, p, fl)
    <3>1. tables_physical'[0].flags = BOOT_FLAGS
      BY <1>5, <1>6, <2>2 DEF ByPagingInit, BOOT_FLAGS
    <3>2. /\ ~paging' /\ boot' \in {1, 2} /\ boot \in {0, 1} /\ boot' = boot + 1
          /\ v = boot /\ p = boot /\ fl = BOOT_FLAGS
      BY <1>2, <1>5, <2>2 DEF ByPagingInit
    <3>3. tables'[0] = boot
      BY <1>3, <1>5, <1>6, <2>2
    <3>4. owned' = {} /\ ~faulted' /\ \A u \in Watched : tlb'[u] = NotAsked
      BY <1>2, <3>2 DEF PagingInv, BootOrder
    <3>5. boot = 0 => \A u \in Pages \ {0} : asked'[u] = NotAsked
      BY <1>2, <3>2 DEF PagingInv, BootOrder
    <3>6. QED BY <1>2, <3>1, <3>2, <3>3, <3>4, <3>5 DEF BootOrder, NULL
  <2>3. QED BY <2>1, <2>2
<1>13. DirectorySound'
  <2> SUFFICES ASSUME NEW u \in Dirs
               PROVE  /\ tables_physical'[u].frame = tables'[u]
                      /\ tables'[u] # NULL =>
                           /\ tables'[u] \in FA!Used' \ owned'
                           /\ "P" \in tables_physical'[u].flags
                           /\ \A w \in Dirs \ {u} : tables'[w] # tables'[u]
                      /\ tables'[u] = NULL /\ "P" \in tables_physical'[u].flags => Pending(u)'
    BY DEF DirectorySound
  <2>1. \A w \in Dirs : tables[w] # NULL => tables[w] \in UsedIn(frames) \ owned
    BY <1>8 DEF PagingInv, DirectorySound
  <2>2. \A w \in Dirs \ {t} : g # NULL \/ tables[w] # NULL => tables[w] # g
    BY <1>8, <2>1
  <2>3. CASE u = t
    <3>1. Pending(u)'
      BY <1>2, <2>3 DEF Pending
    <3>2. g # NULL => g \in FA!Used' \ owned'
      BY <1>2, <1>4, <1>8
    <3>3. QED BY <1>3, <1>6, <2>2, <2>3, <3>1, <3>2
  <2>4. CASE u # t
    <3>1. ~(tables[u] = NULL /\ "P" \in tables_physical[u].flags)
      BY <1>2, <1>5, <2>4, SmallNumbers
         DEF PagingInv, DirectorySound, Pending, ByClient, ByPagingInit
    <3>2. QED BY <1>2, <1>6, <1>8, <2>1, <2>2, <2>4, <3>1 DEF PagingInv, DirectorySound
  <2>5. QED BY <2>3, <2>4
<1>14. SlotsUnused'
  BY <1>2, <1>3, <1>6 DEF PagingInv, SlotsUnused
<1>15. RightsSource'
  <2> SUFFICES ASSUME NEW q \in Dirs, "P" \in tables_physical'[q].flags
               PROVE  \E u \in Pages :
                        /\ TableOf(u) = q /\ asked'[u] # NotAsked
                        /\ \/ tables_physical'[q].flags = asked'[u].flags \cup {"P"}
                           \/ u \in remapped'
    BY DEF RightsSource
  <2>1. CASE q = t
    <3>1. tables_physical'[q].flags = asked'[v].flags \cup {"P"}
      BY <1>2, <1>6, <2>1
    <3>2. QED BY <1>2, <2>1, <3>1
  <2>2. CASE q # t
    <3>1. PICK u \in Pages : /\ TableOf(u) = q /\ asked[u] # NotAsked
                             /\ \/ tables_physical[q].flags = asked[u].flags \cup {"P"}
                                \/ u \in remapped
      BY <1>6, <2>2 DEF PagingInv, RightsSource
    <3>2. u # v /\ asked'[u] = asked[u]
      BY <1>2, <2>2, <3>1
    <3>3. QED BY <1>2, <1>6, <2>2, <3>1, <3>2
  <2>3. QED BY <2>1, <2>2
<1>16. CallSound' /\ FaultsExplained'
  <2>1. ASSUME paging, g = NULL PROVE ret' = NULL /\ FA!Used' = Frames
    <3>1. NULL \in UsedIn(frames)
      BY <1>8, <2>1, SmallNumbers DEF PagingInv, BootOrder, FramesOwned
    <3>2. QED BY <1>1, <1>8, <2>1, <3>1 DEF TableGiven
  <2>2. ASSUME NEW u \in Dirs, tables'[u] >= IDENTITY_PAGES PROVE u = t
    <3>1. u # t => tables'[u] \in Nat /\ tables'[u] < IDENTITY_PAGES
      BY <1>2, <1>4, <1>6 DEF Intact, Frames
    <3>2. QED BY <2>2, <3>1, SmallNumbers
  <2>3. \A u \in Pages \ {0, v} : TableOf(u) = t => asked'[u] = NotAsked
    BY <1>2, <1>7
  <2>4. FaultsExplained'
    BY <1>2 DEF FaultsExplained
  <2>5. "P" \in tables_physical'[t].flags
    BY <1>6
  <2>6. QED BY <1>2, <1>3, <1>6, <1>7, <2>1, <2>2, <2>3, <2>4, <2>5 DEF CallSound
<1>17. ASSUME Low' PROVE MemSound'
  <2>1. \A u \in Dirs : ~Pending(u) /\ (Pending(u)' <=> u = t)
    BY <1>2 DEF Pending
  <2>2. \A u \in Pages : ~Storing(u) /\ ~Storing(u)'
    BY <1>2 DEF Storing, NoCall
  <2>3. MemSound
    <3>1. Low
      BY <1>2, <1>4 DEF Low, Intact
    <3>2. QED BY <3>1 DEF PagingInv
  <2>4. IdentityEntries'
    <3>1. CASE ByClient(v)
      <4>1. ~Pending(0) /\ boot' = boot /\ boot \in Nat /\ boot <= IDENTITY_PAGES
        BY <1>4, <1>5, <2>1, <3>1, SmallNumbers DEF ByClient
      <4>2. \A w \in 1 .. boot - 1 : ~Storing(w)
        BY <1>2 DEF Storing, NoCall
      <4>3. boot >= 2 => /\ mem[1][0] = ClearedEntry
                         /\ \A w \in 1 .. boot - 1 : mem[1][w] = PageEntry(w, BOOT_FLAGS)
        BY <2>3, <4>1, <4>2 DEF MemSound, IdentityEntries
      <4>4. QED BY <1>2, <4>1, <4>3 DEF IdentityEntries, ClearedEntry, PageEntry, BOOT_FLAGS
    <3>2. CASE ByPagingInit(v, p, fl)
      <4>1. Pending(0)'
        BY <1>5, <2>1, <3>2, SmallNumbers
      <4>2. QED BY <4>1 DEF IdentityEntries
    <3>3. QED BY <3>1, <3>2
  <2>5. EntriesAsAsked'
    <3> SUFFICES ASSUME NEW u \in Pages \ {0}, "P" \in tables_physical'[TableOf(u)].flags,
                        TableOf(u) # t
                 PROVE  EntryOf(u)' = EntryFor(asked'[u])
      <4>1. \A u \in Pages : TableOf(u) \in Dirs
        BY PageSplit
      <4>2. QED BY <2>1, <4>1 DEF EntriesAsAsked, EntryFor
    <3>1. TableOf(u) \in Dirs /\ u # v
      BY PageSplit
    <3>2. EntryOf(u) = EntryFor(asked[u])
      BY <1>6, <2>1, <2>2, <2>3, <3>1 DEF MemSound, EntriesAsAsked
    <3>3. EntryOf(u)' = EntryOf(u)
      BY <1>2, <1>6, <3>1 DEF EntryOf
    <3>4. QED BY <1>2, <3>1, <3>2, <3>3
  <2>6. EntryInProgress'
    BY <1>2 DEF EntryInProgress
  <2>7. KeptSound'
    <3> SUFFICES ASSUME NEW u \in Watched \ (remapped' \cup exposed), tlb[u] # NotAsked
                 PROVE  /\ tlb[u].frame = Walk(u)'.frame
                        /\ tlb[u].flags \subseteq Walk(u)'.flags \cup {"RW"}
                        /\ u \notin early => tlb[u] = Walk(u)'
      BY <1>2 DEF KeptSound
    <3>1. TableOf(u) \in Dirs \ {t}
      BY <1>7, PageSplit, SmallNumbers
    <3>2. Walk(u)' = Walk(u)
      BY <1>2, <1>6, <3>1 DEF Walk
    <3>3. QED BY <1>2, <2>3, <3>2 DEF MemSound, KeptSound
  <2>8. QED BY <2>4, <2>5, <2>6, <2>7 DEF MemSound
<1>18. QED BY <1>10, <1>11, <1>12, <1>13, <1>14, <1>15, <1>16, <1>17 DEF PagingInv

-----------------------------------------------------------------------------
\* What a step inside map_page leaves alone.
Inside ==
    UNCHANGED <<frames, owned, ret, tables, tables_physical, asked, remapped, tlbVars, boot,
                paging>>

\* A fault leaves everything as it was; a high table explains it, or no frame.
LEMMA FaultStep ==
    ASSUME PagingInv, paging, Fault, Inside,
           \/ ret = NULL /\ FA!Used = Frames
           \/ \E t \in Dirs : tables[t] >= IDENTITY_PAGES
    PROVE  PagingInv'
<1>1. /\ frames' = frames /\ owned' = owned /\ ret' = ret /\ tables' = tables
      /\ tables_physical' = tables_physical /\ mem' = mem /\ asked' = asked
      /\ remapped' = remapped /\ tlb' = tlb /\ exposed' = exposed /\ early' = early
      /\ boot' = boot /\ paging' = paging /\ call' = call
  BY DEF Fault, Inside, tlbVars
<1>2. faulted' \in BOOLEAN
  BY Zenon DEF Fault
<1>3. FA!Used' = FA!Used
  BY <1>1, UsedFrames
<1>4. TypeOK'
  BY <1>1, <1>2, Types, TypesSufficeAfter DEF PagingInv
<1>5. FramesOwned' /\ DirectorySound' /\ SlotsUnused' /\ RightsSource'
  BY <1>1, <1>3 DEF PagingInv, FramesOwned, DirectorySound, SlotsUnused, RightsSource, Pending
<1>6. BootOrder' /\ CallSound'
  BY <1>1, <1>3 DEF PagingInv, BootOrder, CallSound
<1>7. FaultsExplained'
  BY <1>1, <1>3 DEF FaultsExplained
<1>8. Low' => MemSound'
  BY <1>1 DEF PagingInv, Low, MemSound, IdentityEntries, EntriesAsAsked, EntryInProgress,
              KeptSound, Pending, Storing, EntryOf, Walk
<1>9. QED BY <1>4, <1>5, <1>6, <1>7, <1>8 DEF PagingInv

\* The call as it is after a step inside map_page.
GoesOn ==
    \/ call' = NoCall
    \/ /\ call' \in Calls /\ call' # NoCall /\ call'.page = call.page
       /\ call'.frame = call.frame /\ call'.flags = call.flags /\ call'.at > 0

\* A step inside map_page keeps all that does not depend on the entries.
LEMMA InsideStep ==
    ASSUME PagingInv, call # NoCall, ~faulted, faulted' = faulted, Inside, GoesOn,
           mem' \in [Frames -> [Slots -> Entries]],
           tables[TableOf(call.page)] # NULL \/ (TableOf(call.page) = 0 /\ boot = 1)
    PROVE  /\ TypeOK' /\ FramesOwned' /\ BootOrder' /\ DirectorySound' /\ SlotsUnused'
           /\ RightsSource' /\ CallSound' /\ FaultsExplained'
<1>1. /\ frames' = frames /\ owned' = owned /\ ret' = ret /\ tables' = tables
      /\ tables_physical' = tables_physical /\ asked' = asked
      /\ remapped' = remapped /\ tlb' = tlb /\ exposed' = exposed /\ early' = early
      /\ boot' = boot /\ paging' = paging
  BY DEF Inside, tlbVars
<1>2. FA!Used' = FA!Used
  BY <1>1, UsedFrames
<1>3. call' \in Calls \cup {NoCall}
  BY DEF GoesOn
<1>4. call.at \in 0 .. 6 /\ TableOf(call.page) \in Dirs /\ call.page \in Pages
  BY CallTypes
<1>5. TypeOK'
  BY <1>1, <1>3, Types, TypesSufficeAfter DEF PagingInv
<1>6. FramesOwned' /\ SlotsUnused' /\ RightsSource' /\ FaultsExplained'
  BY <1>1, <1>2 DEF PagingInv, FramesOwned, SlotsUnused, RightsSource, FaultsExplained
<1>7. BootOrder'
  BY <1>1 DEF PagingInv, BootOrder, GoesOn
<1>8. DirectorySound'
  <2>1. \A u \in Dirs : Pending(u) => u = TableOf(call.page)
    BY DEF Pending
  <2>2. QED BY <1>1, <1>2, <2>1 DEF PagingInv, DirectorySound
<1>9. CallSound'
  <2> SUFFICES ASSUME call' # NoCall PROVE CallSound'
    BY DEF CallSound
  <2>1. /\ call'.page = call.page /\ call'.frame = call.frame /\ call'.flags = call.flags
        /\ call'.at > 0 /\ call'.at \in 0 .. 6
    BY EntryTypes DEF GoesOn
  <2>2. call.page \in Watched \ (remapped \cup exposed \cup early) => tlb[call.page] = NotAsked
    BY <1>4 DEF PagingInv, CallSound
  <2>3. QED BY <1>1, <2>1, <2>2 DEF PagingInv, CallSound
<1>10. QED BY <1>5, <1>6, <1>7, <1>8, <1>9

\* The tables of two present slots, one of them a call's, are two frames.
LEMMA OtherTables ==
    ASSUME PagingInv, NEW t \in Dirs, tables[t] # NULL \/ (t = 0 /\ boot = 1),
           \A u \in Dirs \ {t} : ~Pending(u),
           NEW u \in Dirs \ {t}, "P" \in tables_physical[u].flags
    PROVE  tables_physical[u].frame = tables[u] /\ tables[u] \in Frames \ {tables[t]}
<1>1. tables_physical[u].frame = tables[u] /\ tables[u] \in Frames /\ tables[t] \in Frames
  BY Types DEF PagingInv, DirectorySound
<1>2. CASE tables[t] # NULL
  BY <1>1, <1>2 DEF PagingInv, DirectorySound
<1>3. CASE t = 0 /\ boot = 1
  BY <1>1, <1>2, <1>3 DEF PagingInv, DirectorySound
<1>4. QED BY <1>2, <1>3

\* The clearing loop: every entry of the new table is then one of nobody's page.
LEMMA ClearTablePreserves == PagingInv /\ ClearTable => PagingInv'
<1> SUFFICES ASSUME PagingInv, ClearTable PROVE PagingInv'
  OBVIOUS
<1> DEFINE v == call.page
           t == TableOf(v)
           d == Reach(tables[t])
<1>1. call # NoCall /\ call.at = 0 /\ ~faulted /\ Inside
  BY DEF ClearTable, Inside
<1>2. /\ call \in Calls /\ v \in Pages /\ t \in Dirs /\ SlotOf(v) \in Slots
      /\ tables[t] \in Frames /\ tables_physical[t].frame = tables[t]
  BY <1>1, CallTypes, Types DEF PagingInv, DirectorySound
<1>3. \/ d = NoFrame /\ Fault
      \/ /\ d # NoFrame /\ mem' = [mem EXCEPT ![d] = [s \in Slots |-> ClearedEntry]]
         /\ call' = [call EXCEPT !.at = 1] /\ faulted' = faulted
  BY <1>2 DEF ClearTable
<1>4. CASE d = NoFrame /\ Fault
  <2>1. paging
    BY <1>2, <1>4 DEF Reach, NoFrame, Frames
  <2>2. CASE Low
    <3>1. tables[t] = NULL
      BY <1>2, <1>4, <2>2, ReachTable
    <3>2. ret = NULL /\ FA!Used = Frames
      BY <1>1, <2>1, <3>1 DEF PagingInv, CallSound
    <3>3. QED BY <1>1, <1>4, <2>1, <3>2, FaultStep
  <2>3. CASE ~Low
    <3>1. \E u \in Dirs : tables[u] >= IDENTITY_PAGES
      BY <2>3, Types, SmallNumbers DEF PagingInv, Low, Frames
    <3>2. QED BY <1>1, <1>4, <2>1, <3>1, FaultStep
  <2>4. QED BY <2>2, <2>3
<1>5. CASE /\ d # NoFrame /\ mem' = [mem EXCEPT ![d] = [s \in Slots |-> ClearedEntry]]
           /\ call' = [call EXCEPT !.at = 1] /\ faulted' = faulted
  <2>1. d \in Frames /\ mem \in [Frames -> [Slots -> Entries]] /\ ClearedEntry \in Entries
    BY <1>2, <1>5, ReachIsFrame, Types, EntryTypes DEF PagingInv
  <2>2. /\ mem' \in [Frames -> [Slots -> Entries]]
        /\ \A f \in Frames \ {d} : mem'[f] = mem[f]
        /\ \A s \in Slots : mem'[d][s] = ClearedEntry
    BY <1>5, <2>1
  <2>3. /\ call' \in Calls /\ call'.page = v /\ call'.frame = call.frame
        /\ call'.flags = call.flags /\ call'.at = 1 /\ call' # NoCall
    BY <1>2, <1>5, FieldOrder DEF Calls, NoCall
  <2>4. tables[t] # NULL \/ (t = 0 /\ boot = 1)
    <3> SUFFICES ASSUME tables[t] = NULL PROVE t = 0 /\ boot = 1
      OBVIOUS
    <3>1. Low
      BY <1>1, <1>2, Types, SmallNumbers DEF PagingInv, CallSound, Low, NULL, Frames
    <3>2. ~paging
      BY <1>2, <1>5, <3>1, ReachTable
    <3>3. boot \in {1, 2} /\ v = boot - 1
      BY <1>1, <3>2 DEF PagingInv, BootOrder
    <3>4. v \in 0 .. IDENTITY_PAGES - 1
      BY <3>3, SmallNumbers
    <3>5. t = 0
      BY <3>4, PageSplit
    <3>6. boot # 2
      BY <3>5 DEF PagingInv, BootOrder, NULL
    <3>7. QED BY <3>3, <3>5, <3>6
  <2>5. /\ TypeOK' /\ FramesOwned' /\ BootOrder' /\ DirectorySound' /\ SlotsUnused'
        /\ RightsSource' /\ CallSound' /\ FaultsExplained'
    <3>1. GoesOn
      BY <2>3 DEF GoesOn
    <3>2. QED BY <1>1, <1>5, <2>2, <2>4, <3>1, InsideStep
  <2>6. /\ tables' = tables /\ tables_physical' = tables_physical /\ asked' = asked
        /\ remapped' = remapped /\ tlb' = tlb /\ exposed' = exposed /\ early' = early
        /\ boot' = boot /\ paging' = paging
    BY <1>1 DEF Inside, tlbVars
  <2>7. ASSUME Low PROVE MemSound'
    <3>1. d = tables[t]
      BY <1>2, <1>5, <2>7, ReachTable
    <3>2. MemSound
      BY <2>7 DEF PagingInv
    <3>3. /\ \A u \in Dirs : (Pending(u) <=> u = t) /\ ~Pending(u)'
          /\ \A u \in Pages : ~Storing(u) /\ (Storing(u)' <=> u = v)
      BY <1>1, <2>3 DEF Pending, Storing
    <3>4. \A u \in Dirs \ {t} : "P" \in tables_physical[u].flags =>
             tables_physical[u].frame \in Frames \ {d}
      BY <1>2, <2>4, <3>1, <3>3, OtherTables
    <3>5. IdentityEntries'
      <4>1. CASE paging
        <5>1. boot >= 2 /\ tables[0] = 1 /\ t # 0 /\ boot = IDENTITY_PAGES
          BY <1>1, <4>1, SmallNumbers DEF PagingInv, BootOrder
        <5>2. d # 1
          BY <1>2, <3>1, <5>1, SmallNumbers DEF PagingInv, DirectorySound, NULL
        <5>3. mem'[1] = mem[1]
          BY <2>2, <5>2, SmallNumbers
        <5>4. ~Pending(0) /\ \A w \in 1 .. boot - 1 : ~Storing(w)
          BY <1>1, <3>3, <5>1, SmallNumbers DEF Storing
        <5>5. /\ mem[1][0] = ClearedEntry
              /\ \A w \in 1 .. boot - 1 : mem[1][w] = PageEntry(w, BOOT_FLAGS)
          BY <3>2, <5>1, <5>4 DEF MemSound, IdentityEntries
        <5>6. QED BY <2>6, <5>3, <5>5
                  DEF IdentityEntries, ClearedEntry, PageEntry, BOOT_FLAGS
      <4>2. CASE ~paging
        <5>1. boot \in {1, 2} /\ v = boot - 1
          BY <1>1, <4>2 DEF PagingInv, BootOrder
        <5>2. v \in 0 .. IDENTITY_PAGES - 1
          BY <5>1, SmallNumbers
        <5>3. t = 0
          BY <5>2, PageSplit
        <5>4. boot = 2 => d = 1 /\ v = 1
          BY <3>1, <5>1, <5>3 DEF PagingInv, BootOrder
        <5>5. boot = 2 => mem'[1][0] = ClearedEntry
          BY <2>2, <5>4, SmallNumbers
        <5>6. boot = 2 => \A w \in 1 .. boot - 1 : w = v
          BY <5>4
        <5>7. boot = 2 => \A w \in 1 .. boot - 1 : Storing(w)'
          BY <2>3, <5>6 DEF Storing
        <5>8. QED BY <2>6, <5>1, <5>5, <5>7 DEF IdentityEntries, ClearedEntry
      <4>3. QED BY <4>1, <4>2
    <3>6. EntriesAsAsked'
      <4> SUFFICES ASSUME NEW u \in Pages \ {0, v}, "P" \in tables_physical[TableOf(u)].flags
                   PROVE  EntryOf(u)' = EntryFor(asked[u])
        BY <2>6, <3>3 DEF EntriesAsAsked, EntryFor
      <4>1. TableOf(u) \in Dirs /\ SlotOf(u) \in Slots
        BY PageSplit
      <4>2. CASE TableOf(u) = t
        <5>1. asked[u] = NotAsked
          BY <1>1, <4>2 DEF PagingInv, CallSound
        <5>2. EntryOf(u)' = ClearedEntry
          BY <1>2, <2>2, <2>6, <3>1, <4>1, <4>2 DEF EntryOf
        <5>3. QED BY <5>1, <5>2 DEF EntryFor
      <4>3. CASE TableOf(u) # t
        <5>1. EntryOf(u) = EntryFor(asked[u])
          BY <3>2, <3>3, <4>1, <4>3 DEF MemSound, EntriesAsAsked
        <5>2. EntryOf(u)' = EntryOf(u)
          BY <2>2, <2>6, <3>4, <4>1, <4>3 DEF EntryOf
        <5>3. QED BY <5>1, <5>2
      <4>4. QED BY <4>2, <4>3
    <3>7. EntryInProgress'
      <4>1. EntryOf(v)' = ClearedEntry /\ call'.page = v
        BY <1>2, <2>2, <2>3, <2>6, <3>1 DEF EntryOf
      <4>2. SoFar(ClearedEntry, call') /\ StillClear(ClearedEntry, call')
        BY <2>3 DEF SoFar, StillClear, ClearedEntry
      <4>3. EntryOf(call.page)' = ClearedEntry
        BY <2>3, <4>1 DEF EntryOf
      <4>4. QED BY <4>2, <4>3 DEF EntryInProgress, SoFar, StillClear
    <3>8. KeptSound'
      <4> SUFFICES ASSUME NEW u \in Watched \ (remapped \cup exposed), tlb[u] # NotAsked
                   PROVE  Walk(u)' = Walk(u)
        BY <2>6, <3>2 DEF MemSound, KeptSound
      <4>1. TableOf(u) \in Dirs \ {t}
        BY <1>1, PageSplit, SmallNumbers DEF PagingInv, CallSound
      <4>2. QED BY <2>2, <2>6, <3>4, <4>1 DEF Walk
    <3>9. QED BY <3>5, <3>6, <3>7, <3>8 DEF MemSound
  <2>8. Low' => Low
    BY <2>6 DEF Low
  <2>9. QED BY <2>5, <2>7, <2>8 DEF PagingInv
<1>6. QED BY <1>3, <1>4, <1>5

\* A store makes an entry of an entry.
LEMMA FieldTypes ==
    ASSUME NEW e \in Entries, NEW c \in Calls, c.at > 0
    PROVE  StoreField(e, c) \in Entries
<1>1. /\ e.frame \in Frames /\ e.flags \in SUBSET Flags /\ c.frame \in Frames
      /\ c.at \in 1 .. 6 /\ e = [frame |-> e.frame, flags |-> e.flags]
  BY EntryTypes DEF Entries
<1>2. CASE c.at = 1
  BY <1>1, <1>2, FieldOrder DEF StoreField, Entries
<1>3. CASE c.at \in 2 .. 6
  <2>1. Fields[c.at] \in Flags /\ Fields[c.at] # "frame"
    BY <1>3, FieldOrder DEF Flags
  <2>2. StoreField(e, c) = [frame |-> e.frame, flags |-> IF Fields[c.at] \in c.flags \cup {"P"}
                                                         THEN e.flags \cup {Fields[c.at]}
                                                         ELSE e.flags \ {Fields[c.at]}]
    BY <1>1, <2>1 DEF StoreField
  <2>3. QED BY <1>1, <2>1, <2>2 DEF Entries
<1>4. QED BY <1>1, <1>2, <1>3

\* A store through a pointer to a low table changes one entry of that table.
LEMMA OneEntryStored ==
    ASSUME PagingInv, Low, call # NoCall, call.at > 0,
           NEW d \in Frames, NEW x \in Entries, d = tables[TableOf(call.page)],
           mem' = [mem EXCEPT ![d][SlotOf(call.page)] = x],
           tables' = tables, tables_physical' = tables_physical,
           d # NULL \/ (TableOf(call.page) = 0 /\ boot = 1)
    PROVE  /\ EntryOf(call.page) \in Entries
           /\ mem'[d][SlotOf(call.page)] = x
           /\ mem'[tables_physical[TableOf(call.page)].frame][SlotOf(call.page)] = x
           /\ \A u \in Pages \ {call.page} : "P" \in tables_physical[TableOf(u)].flags =>
                EntryOf(u)' = EntryOf(u)
<1> DEFINE v == call.page
           t == TableOf(v)
<1>1. /\ v \in Pages /\ t \in Dirs /\ SlotOf(v) \in Slots
      /\ tables_physical[t].frame = d /\ mem \in [Frames -> [Slots -> Entries]]
  BY CallTypes, Types DEF PagingInv, DirectorySound
<1>2. /\ mem'[d][SlotOf(v)] = x
      /\ \A s \in Slots \ {SlotOf(v)} : mem'[d][s] = mem[d][s]
      /\ \A f \in Frames \ {d} : mem'[f] = mem[f]
  BY <1>1
<1>3. ASSUME NEW u \in Pages \ {v}, "P" \in tables_physical[TableOf(u)].flags
      PROVE  EntryOf(u)' = EntryOf(u)
  <2>1. TableOf(u) \in Dirs /\ SlotOf(u) \in Slots
    BY PageSplit
  <2>2. CASE TableOf(u) = t
    <3>1. SlotOf(u) # SlotOf(v)
      BY <1>1, <2>2, PageSplit
    <3>2. QED BY <1>1, <1>2, <2>1, <2>2, <3>1 DEF EntryOf
  <2>3. CASE TableOf(u) # t
    <3>1. \A w \in Dirs \ {t} : ~Pending(w)
      BY DEF Pending
    <3>2. tables_physical[TableOf(u)].frame \in Frames \ {d}
      BY <1>1, <1>3, <2>1, <2>3, <3>1, OtherTables
    <3>3. QED BY <1>2, <2>1, <3>2 DEF EntryOf
  <2>4. QED BY <2>2, <2>3
<1>4. QED BY <1>1, <1>2, <1>3 DEF EntryOf

\* The stores into a page's entry, while every table is low.
LEMMA StoreKeepsMemSound ==
    ASSUME PagingInv, Low, call # NoCall, call.at > 0, Inside,
           NEW d \in Frames, d = tables[TableOf(call.page)],
           d # NULL \/ (TableOf(call.page) = 0 /\ boot = 1),
           mem' = [mem EXCEPT ![d][SlotOf(call.page)] = StoreField(EntryOf(call.page), call)],
           call' = IF call.at = 6 THEN NoCall ELSE Advanced(call)
    PROVE  MemSound'
<1> DEFINE v == call.page
           t == TableOf(v)
           e == EntryOf(v)
           x == StoreField(e, call)
<1>1. /\ call \in Calls /\ v \in Pages /\ t \in Dirs /\ SlotOf(v) \in Slots /\ call.at \in 1 .. 6
      /\ tables_physical[t].frame = d /\ tables_physical[t].flags \in SUBSET Flags
      /\ "P" \in tables_physical[t].flags
  BY CallTypes, Types, EntryTypes DEF PagingInv, DirectorySound, CallSound
<1>2. /\ tables' = tables /\ tables_physical' = tables_physical /\ asked' = asked
      /\ remapped' = remapped /\ tlb' = tlb /\ exposed' = exposed /\ early' = early
      /\ boot' = boot /\ paging' = paging
  BY DEF Inside, tlbVars
<1>3. e \in Entries /\ SoFar(e, call) /\ (v \notin remapped => StillClear(e, call)) /\ MemSound
  <2>1. mem \in [Frames -> [Slots -> Entries]]
    BY Types DEF PagingInv
  <2>2. QED BY <1>1, <2>1 DEF PagingInv, MemSound, EntryInProgress, EntryOf
<1>4. /\ x \in Entries
      /\ call.at < 6 => /\ Advanced(call) \in Calls /\ SoFar(x, Advanced(call))
                        /\ Advanced(call).page = v /\ Advanced(call).at > 0
      /\ call.at = 6 => x = PageEntry(call.frame, call.flags)
      /\ call.at < 6 /\ StillClear(e, call) => StillClear(x, Advanced(call))
      /\ StillClear(e, call) /\ "P" \in e.flags =>
           x.frame = e.frame /\ "P" \in x.flags /\ ("US" \in e.flags => "US" \in x.flags)
  BY <1>1, <1>3, FieldStored
<1>5. /\ mem'[d][SlotOf(v)] = x
      /\ mem'[tables_physical[t].frame][SlotOf(v)] = x
      /\ \A u \in Pages \ {v} : "P" \in tables_physical[TableOf(u)].flags =>
           EntryOf(u)' = EntryOf(u)
  <2>1. PICK y \in Entries : y = x
    BY <1>4
  <2>2. mem' = [mem EXCEPT ![d][SlotOf(call.page)] = y]
    BY <2>1
  <2> HIDE DEF x
  <2>3. /\ mem'[d][SlotOf(v)] = y
        /\ mem'[tables_physical[t].frame][SlotOf(v)] = y
        /\ \A u \in Pages \ {v} : "P" \in tables_physical[TableOf(u)].flags =>
             EntryOf(u)' = EntryOf(u)
    BY <1>2, <2>2, OneEntryStored
  <2>4. QED BY <2>1, <2>3
<1> HIDE DEF x
<1>6. /\ \A u \in Dirs : ~Pending(u) /\ ~Pending(u)'
      /\ \A u \in Pages : Storing(u) <=> u = v
      /\ call.at = 6 => \A u \in Pages : ~Storing(u)'
      /\ call.at < 6 => \A u \in Pages : Storing(u)' <=> u = v
  BY <1>1, <1>4 DEF Pending, Storing, NoCall
<1>7. IdentityEntries'
  <2> SUFFICES ASSUME boot >= 2
               PROVE  /\ mem'[1][0] = ClearedEntry
                      /\ \A w \in 1 .. boot - 1 : ~Storing(w)' =>
                            mem'[1][w] = PageEntry(w, BOOT_FLAGS)
    BY <1>2 DEF IdentityEntries, ClearedEntry, PageEntry, BOOT_FLAGS
  <2>1. /\ tables[0] = 1 /\ tables_physical[0].frame = 1 /\ 0 \in Dirs
        /\ "P" \in tables_physical[0].flags /\ boot \in Nat /\ boot <= IDENTITY_PAGES
    BY Types, SmallNumbers DEF PagingInv, BootOrder, DirectorySound, BOOT_FLAGS
  <2>2. /\ mem[1][0] = ClearedEntry
        /\ \A w \in 1 .. boot - 1 : ~Storing(w) => mem[1][w] = PageEntry(w, BOOT_FLAGS)
    BY <1>3, <1>6, <2>1 DEF MemSound, IdentityEntries
  <2>3. ASSUME NEW w \in 0 .. boot - 1
        PROVE  /\ w \in Pages
               /\ EntryOf(w) = mem[1][w] /\ EntryOf(w)' = mem'[1][w]
               /\ w # v => mem'[1][w] = mem[1][w]
    <3>1. w \in 0 .. IDENTITY_PAGES - 1
      BY <2>1, <2>3, SmallNumbers
    <3>2. w \in Pages /\ TableOf(w) = 0 /\ SlotOf(w) = w
      BY <3>1, SmallNumbers, PageSplit
    <3>3. QED BY <1>2, <1>5, <2>1, <3>2 DEF EntryOf
  <2>4. /\ ~paging => v = boot - 1 /\ call.frame = boot - 1 /\ call.flags = BOOT_FLAGS
        /\ paging => v >= IDENTITY_PAGES /\ v \in Nat
    BY SmallNumbers DEF PagingInv, BootOrder
  <2>5. v # 0 /\ 0 \in 0 .. boot - 1
    BY <2>1, <2>4, SmallNumbers
  <2>6. mem'[1][0] = ClearedEntry
    BY <2>2, <2>3, <2>5
  <2>7. ASSUME NEW w \in 1 .. boot - 1, ~Storing(w)'
        PROVE  mem'[1][w] = PageEntry(w, BOOT_FLAGS)
    <3>1. w \in 0 .. boot - 1
      BY <2>1, <2>7
    <3>2. CASE w # v
      BY <1>6, <2>2, <2>3, <2>7, <3>1, <3>2
    <3>3. CASE w = v
      <4>1. call.at = 6
        BY <1>1, <1>6, <2>7, <3>3
      <4>2. ~paging
        BY <2>1, <2>4, <2>7, <3>3, SmallNumbers
      <4>3. x = PageEntry(w, BOOT_FLAGS)
        BY <1>4, <2>4, <3>3, <4>1, <4>2
      <4>4. mem'[1][w] = x
        BY <1>2, <1>5, <2>3, <3>1, <3>3 DEF EntryOf
      <4>5. QED BY <4>3, <4>4
    <3>4. QED BY <3>2, <3>3
  <2>8. QED BY <2>6, <2>7
<1>8. EntriesAsAsked'
  <2> SUFFICES ASSUME NEW u \in Pages \ {0}, "P" \in tables_physical[TableOf(u)].flags,
                      ~Storing(u)'
               PROVE  EntryOf(u)' = EntryFor(asked[u])
    BY <1>2 DEF EntriesAsAsked, EntryFor
  <2>1. TableOf(u) \in Dirs
    BY PageSplit
  <2>2. CASE u # v
    BY <1>3, <1>5, <1>6, <2>1, <2>2 DEF MemSound, EntriesAsAsked
  <2>3. CASE u = v
    <3>1. call.at = 6
      BY <1>1, <1>6, <2>3
    <3>2. asked[v] = [frame |-> call.frame, flags |-> call.flags]
      BY DEF PagingInv, CallSound
    <3>3. asked[v] # NotAsked
      <4>1. call.frame \in Frames /\ call.flags \in SUBSET Flags
        BY CallTypes
      <4>2. QED BY <3>2, <4>1, EntryTypes
    <3>4. EntryFor(asked[v]) = PageEntry(call.frame, call.flags)
      BY <3>2, <3>3 DEF EntryFor
    <3>5. EntryOf(u)' = x
      BY <1>2, <1>5, <2>3 DEF EntryOf
    <3>6. QED BY <1>4, <2>3, <3>1, <3>4, <3>5
  <2>4. QED BY <2>2, <2>3
<1>9. EntryInProgress'
  <2>1. CASE call.at = 6
    BY <2>1 DEF EntryInProgress, NoCall
  <2>2. CASE call.at # 6
    <3>1. call.at < 6 /\ call' = Advanced(call) /\ call'.page = v
      BY <1>1, <1>4, <2>2
    <3>2. EntryOf(call.page)' = x
      BY <1>2, <1>5, <3>1 DEF EntryOf
    <3>3. SoFar(EntryOf(call.page)', call')
      BY <1>4, <3>1, <3>2
    <3>4. v \notin remapped => StillClear(EntryOf(call.page)', call')
      BY <1>3, <1>4, <3>1, <3>2
    <3>5. QED BY <1>2, <3>1, <3>3, <3>4 DEF EntryInProgress, SoFar, StillClear
  <2>3. QED BY <2>1, <2>2
<1>10. KeptSound'
  <2> SUFFICES ASSUME NEW u \in Watched \ (remapped \cup exposed), tlb[u] # NotAsked
               PROVE  /\ tlb[u].frame = Walk(u)'.frame
                      /\ tlb[u].flags \subseteq Walk(u)'.flags \cup {"RW"}
                      /\ u \notin early => tlb[u] = Walk(u)'
    BY <1>2 DEF KeptSound
  <2>1. /\ tlb[u].frame = Walk(u).frame
        /\ tlb[u].flags \subseteq Walk(u).flags \cup {"RW"}
        /\ u \notin early => tlb[u] = Walk(u)
        /\ u \in Pages /\ TableOf(u) \in Dirs /\ tlb[u] \in Entries
    BY <1>3, SmallNumbers, PageSplit, Types DEF MemSound, KeptSound, PagingInv
  <2>2. CASE u # v
    <3>1. Walk(u)' = Walk(u)
      <4>1. CASE "P" \in tables_physical[TableOf(u)].flags
        <5>1. mem'[tables_physical[TableOf(u)].frame][SlotOf(u)]
                = mem[tables_physical[TableOf(u)].frame][SlotOf(u)]
          BY <1>2, <1>5, <2>1, <2>2, <4>1 DEF EntryOf
        <5>2. QED BY <1>2, <5>1 DEF Walk
      <4>2. CASE "P" \notin tables_physical[TableOf(u)].flags
        BY <1>2, <4>2 DEF Walk
      <4>3. QED BY <4>1, <4>2
    <3>2. QED BY <2>1, <3>1
  <2>3. CASE u = v
    <3>1. u \in early
      BY <2>3 DEF PagingInv, CallSound
    <3>2. tlb[u].frame \in Frames /\ NoFrame \notin Frames
      BY <2>1, EntryTypes DEF Frames, NoFrame
    <3>3. Walk(u) # NotAsked
      BY <2>1, <3>2 DEF NotAsked
    <3>4. /\ "P" \in e.flags
          /\ Walk(u) = [frame |-> e.frame, flags |-> tables_physical[t].flags \cap e.flags \cap Rights]
      BY <2>3, <3>3 DEF Walk, EntryOf
    <3>5. x.frame = e.frame /\ "P" \in x.flags /\ ("US" \in e.flags => "US" \in x.flags)
      BY <1>3, <1>4, <2>3, <3>4
    <3>6. Walk(u)' = [frame |-> x.frame, flags |-> tables_physical[t].flags \cap x.flags \cap Rights]
      BY <1>1, <1>2, <1>5, <2>3, <3>5 DEF Walk
    <3>7. tlb[u].flags \subseteq Walk(u)'.flags \cup {"RW"}
      <4>1. Walk(u).flags = tables_physical[t].flags \cap e.flags \cap {"RW", "US"}
        BY <3>4 DEF Rights
      <4>2. Walk(u)'.flags = tables_physical[t].flags \cap x.flags \cap {"RW", "US"}
        BY <3>6 DEF Rights
      <4>3. QED BY <2>1, <3>5, <4>1, <4>2
    <3>8. QED BY <2>1, <3>1, <3>4, <3>5, <3>6, <3>7
  <2>4. QED BY <2>2, <2>3
<1>11. QED BY <1>7, <1>8, <1>9, <1>10 DEF MemSound

\* One of the six stores, through the pointer to the page's table.
LEMMA StoreEntryPreserves == PagingInv /\ StoreEntry => PagingInv'
<1> SUFFICES ASSUME PagingInv, StoreEntry PROVE PagingInv'
  OBVIOUS
<1> DEFINE v == call.page
           t == TableOf(v)
           d == Reach(tables[t])
           x == StoreField(mem[d][SlotOf(v)], call)
<1>1. call.at > 0 /\ ~faulted /\ Inside /\ call # NoCall
  BY CallTypes DEF StoreEntry, Inside
<1>2. /\ call \in Calls /\ v \in Pages /\ t \in Dirs /\ SlotOf(v) \in Slots /\ call.at \in 1 .. 6
      /\ tables[t] \in Frames /\ tables_physical[t].frame = tables[t]
  BY <1>1, CallTypes, Types DEF PagingInv, DirectorySound
<1>3. \/ d = NoFrame /\ Fault
      \/ /\ d # NoFrame /\ mem' = [mem EXCEPT ![d][SlotOf(v)] = x]
         /\ call' = (IF call.at = 6 THEN NoCall ELSE Advanced(call)) /\ faulted' = faulted
  BY FieldOrder DEF StoreEntry, Advanced
<1>4. tables[t] # NULL \/ (t = 0 /\ boot = 1)
  <2>1. ~Pending(t) /\ "P" \in tables_physical[t].flags
    BY <1>1 DEF Pending, PagingInv, CallSound
  <2>2. QED BY <1>2, <2>1 DEF PagingInv, DirectorySound
<1>5. CASE d = NoFrame /\ Fault
  <2>1. paging
    BY <1>2, <1>5 DEF Reach, NoFrame, Frames
  <2>2. tables[t] # NULL
    BY <1>4, <2>1, SmallNumbers DEF PagingInv, BootOrder
  <2>3. ~Low
    BY <1>2, <1>5, <2>2, ReachTable
  <2>4. \E u \in Dirs : tables[u] >= IDENTITY_PAGES
    BY <2>3, Types, SmallNumbers DEF PagingInv, Low, Frames
  <2>5. QED BY <1>1, <1>5, <2>1, <2>4, FaultStep
<1>6. CASE /\ d # NoFrame /\ mem' = [mem EXCEPT ![d][SlotOf(v)] = x]
           /\ call' = (IF call.at = 6 THEN NoCall ELSE Advanced(call)) /\ faulted' = faulted
  <2>1. d \in Frames /\ mem \in [Frames -> [Slots -> Entries]]
    BY <1>2, <1>6, ReachIsFrame, Types DEF PagingInv
  <2>2. x \in Entries
    BY <1>1, <1>2, <2>1, FieldTypes
  <2>3. mem' \in [Frames -> [Slots -> Entries]]
    <3> HIDE DEF d, x
    <3>1. QED BY <1>2, <1>6, <2>1, <2>2
  <2>4. GoesOn
    <3>1. call.at # 6 => /\ Advanced(call) \in Calls /\ Advanced(call).page = call.page
                         /\ Advanced(call).frame = call.frame
                         /\ Advanced(call).flags = call.flags /\ Advanced(call).at > 0
      BY <1>2, FieldOrder DEF Advanced, Calls
    <3>2. call.at # 6 => Advanced(call) # NoCall
      BY <3>1, EntryTypes
    <3>3. QED BY <1>6, <3>1, <3>2 DEF GoesOn
  <2>5. /\ TypeOK' /\ FramesOwned' /\ BootOrder' /\ DirectorySound' /\ SlotsUnused'
        /\ RightsSource' /\ CallSound' /\ FaultsExplained'
    BY <1>1, <1>4, <1>6, <2>3, <2>4, InsideStep
  <2>6. ASSUME Low PROVE MemSound'
    <3>1. d = tables[t]
      <4>1. ~paging \/ tables[t] # NULL
        BY <1>4, SmallNumbers DEF PagingInv, BootOrder
      <4>2. QED BY <1>2, <2>6, <4>1, ReachTable
    <3>2. x = StoreField(EntryOf(call.page), call)
      BY <1>2, <3>1 DEF EntryOf
    <3>3. PICK g \in Frames : g = d
      BY <2>1
    <3>4. /\ g = tables[TableOf(call.page)]
          /\ g # NULL \/ (TableOf(call.page) = 0 /\ boot = 1)
      BY <1>4, <3>1, <3>3
    <3>5. mem' = [mem EXCEPT ![g][SlotOf(call.page)] = StoreField(EntryOf(call.page), call)]
      BY <1>6, <3>2, <3>3
    <3>6. call' = IF call.at = 6 THEN NoCall ELSE Advanced(call)
      BY <1>6
    <3>7. QED BY <1>1, <2>6, <3>4, <3>5, <3>6, StoreKeepsMemSound
  <2>7. Low' => Low
    BY <1>1 DEF Low, Inside
  <2>8. QED BY <2>5, <2>6, <2>7 DEF PagingInv
<1>7. QED BY <1>3, <1>5, <1>6

\* A client's map_page.
LEMMA ClientMapPreserves ==
    ASSUME PagingInv, NEW v \in ClientPages, NEW f \in Frames, NEW fl \in FlagSets,
           ClientMap(v, f, fl)
    PROVE  PagingInv'
<1>1. v \in Pages \ {0} /\ fl \in SUBSET Flags
  BY SmallNumbers, PagingConstants
<1>2. /\ Idle /\ UNCHANGED <<owned, paging, tlbVars>> /\ ByClient(v)
      /\ MapInTable(v, f, fl) \/ MapNewTable(v, f, fl)
  BY DEF ClientMap, map_page, ByClient
<1>3. CASE MapInTable(v, f, fl)
  BY <1>1, <1>2, <1>3, MapInTableStep
<1>4. CASE MapNewTable(v, f, fl)
  BY <1>1, <1>2, <1>4, NewTableStep
<1>5. QED BY <1>2, <1>3, <1>4

\* paging_init's map_page.
LEMMA BootMapPreserves == PagingInv /\ BootMap => PagingInv'
<1> SUFFICES ASSUME PagingInv, BootMap PROVE PagingInv'
  OBVIOUS
<1>1. /\ Idle /\ boot < IDENTITY_PAGES /\ boot' = boot + 1
      /\ UNCHANGED <<owned, paging, tlbVars>>
  BY DEF BootMap
<1>2. boot \in 0 .. IDENTITY_PAGES - 1 /\ ~paging
  BY <1>1, Types, SmallNumbers DEF PagingInv, BootOrder
<1>3. PICK b : b = boot
  OBVIOUS
<1>4. b \in Pages /\ b \in Frames /\ TableOf(b) = 0
  BY <1>2, <1>3, SmallNumbers, PageSplit
<1>5. BOOT_FLAGS \in SUBSET Flags
  BY DEF BOOT_FLAGS, Flags
<1>6. MapInTable(b, b, BOOT_FLAGS) \/ MapNewTable(b, b, BOOT_FLAGS)
  BY <1>3 DEF BootMap, map_page, MapInTable, MapNewTable, EnterCall, BOOT_FLAGS, TableOf
<1>7. ByPagingInit(b, b, BOOT_FLAGS)
  BY <1>1, <1>2, <1>3 DEF ByPagingInit
<1>8. CASE MapInTable(b, b, BOOT_FLAGS)
  <2>1. b # 0
    BY <1>3, <1>4, <1>8 DEF MapInTable, PagingInv, BootOrder
  <2>2. QED BY <1>1, <1>4, <1>5, <1>7, <1>8, <2>1, MapInTableStep
<1>9. CASE MapNewTable(b, b, BOOT_FLAGS)
  <2>1. tables[0] = NULL
    BY <1>4, <1>9 DEF MapNewTable
  <2>2. boot \in {0, 1}
    BY <1>2, <2>1, SmallNumbers DEF PagingInv, BootOrder, NULL
  <2>3. QED BY <1>1, <1>4, <1>5, <1>7, <1>9, <2>2, NewTableStep
<1>10. QED BY <1>6, <1>8, <1>9

-----------------------------------------------------------------------------
\* PagingInv is inductive.
LEMMA NextPreservesPagingInv == PagingInv /\ [Next]_vars => PagingInv'
<1> SUFFICES ASSUME PagingInv, [Next]_vars PROVE PagingInv'
  OBVIOUS
<1>1. CASE BootMap
  BY <1>1, BootMapPreserves
<1>2. CASE ClearTable
  BY <1>2, ClearTablePreserves
<1>3. CASE StoreEntry
  BY <1>3, StoreEntryPreserves
<1>4. CASE EnablePaging
  BY <1>4, EnablePreserves
<1>5. CASE ClientAlloc
  BY <1>5, ClientAllocPreserves
<1>6. CASE \E f \in Frames : ClientFree(f)
  BY <1>6, ClientFreePreserves
<1>7. CASE \E v \in ClientPages, f \in Frames, fl \in FlagSets : ClientMap(v, f, fl)
  BY <1>7, ClientMapPreserves
<1>8. CASE \E v \in Watched : Fill(v)
  BY <1>8, FillPreserves
<1>9. CASE UNCHANGED vars
  <2>1. /\ frames' = frames /\ owned' = owned /\ ret' = ret /\ tables' = tables
        /\ tables_physical' = tables_physical /\ mem' = mem /\ asked' = asked
        /\ remapped' = remapped /\ faulted' = faulted /\ call' = call /\ tlb' = tlb
        /\ exposed' = exposed /\ early' = early /\ boot' = boot /\ paging' = paging
    BY <1>9 DEF vars, pageVars, tlbVars
  <2>2. FA!Used' = FA!Used
    BY <2>1, UsedFrames
  <2>3. TypeOK'
    BY <2>1, Types, TypesSufficeAfter DEF PagingInv
  <2>4. FramesOwned' /\ DirectorySound' /\ SlotsUnused' /\ RightsSource'
    BY <2>1, <2>2 DEF PagingInv, FramesOwned, DirectorySound, SlotsUnused, RightsSource,
                      Pending
  <2>5. BootOrder' /\ CallSound' /\ FaultsExplained'
    BY <2>1, <2>2 DEF PagingInv, BootOrder, CallSound, FaultsExplained
  <2>6. Low' => MemSound'
    BY <2>1 DEF PagingInv, Low, MemSound, IdentityEntries, EntriesAsAsked, EntryInProgress,
                KeptSound, Pending, Storing, EntryOf, Walk
  <2>7. QED BY <2>3, <2>4, <2>5, <2>6 DEF PagingInv
<1>10. QED BY <1>1, <1>2, <1>3, <1>4, <1>5, <1>6, <1>7, <1>8, <1>9 DEF Next

(***************************************************************************)
(* The inductive invariant holds of every run of memory.c's paging code.   *)
(***************************************************************************)
THEOREM PagingInvariance == Spec => []PagingInv
  BY InitEstablishesPagingInv, NextPreservesPagingInv, PTL DEF Spec

(***************************************************************************)
(* Every entry, frame number and flag the code keeps has its type.         *)
(***************************************************************************)
THEOREM PagingTypeCorrect == Spec => []TypeOK
<1>1. PagingInv => TypeOK
  BY DEF PagingInv
<1>2. QED BY <1>1, PagingInvariance, PTL

\* Tables in memory of their own are in the identity map.
LEMMA IntactIsLow == Intact => Low
  BY DEF Intact, Low

(***************************************************************************)
(* The identity map above page 0 is there when paging is turned on and     *)
(* stays whatever clients map, and when map_page runs out of frames, as    *)
(* long as the tables lie in memory of their own.                          *)
(***************************************************************************)
THEOREM IdentityMapHolds == Spec => []IdentityMap
<1>1. PagingInv => IdentityMap
  BY IntactIsLow, IdentityWalk DEF IdentityMap
<1>2. QED BY <1>1, PagingInvariance, PTL

(***************************************************************************)
(* Between calls every page reaches what map_page was last asked for it.   *)
(***************************************************************************)
THEOREM PagesMappedAsAsked == Spec => []MappedAsAsked
<1>1. PagingInv => MappedAsAsked
  <2> SUFFICES ASSUME PagingInv, Idle, NEW v \in Pages \ {0}
               PROVE  Walk(v).frame = asked[v].frame
    BY DEF MappedAsAsked
  <2>1. call = NoCall /\ Low
    BY IntactIsLow DEF Idle
  <2>2. QED BY <2>1, WalkAsked
<1>2. QED BY <1>1, PagingInvariance, PTL

(***************************************************************************)
(* No page grants more than its map_page asked for, and less only because  *)
(* the directory entry keeps the flags of the table's first map_page.      *)
(***************************************************************************)
THEOREM PagesGrantRightsAsked == Spec => []RightsAsAsked
<1>1. PagingInv => RightsAsAsked
  <2> SUFFICES ASSUME PagingInv, Idle, NEW v \in Pages \ {0}, asked[v] # NotAsked
               PROVE  /\ Walk(v).flags \subseteq asked[v].flags
                      /\ \A r \in (asked[v].flags \cap Rights) \ Walk(v).flags :
                           \E u \in Pages :
                              /\ TableOf(u) = TableOf(v) /\ asked[u] # NotAsked
                              /\ r \notin asked[u].flags \/ u \in remapped
    BY DEF RightsAsAsked
  <2>1. call = NoCall /\ Low /\ TableOf(v) \in Dirs
    BY PageSplit, IntactIsLow DEF Idle
  <2>2. /\ "P" \in tables_physical[TableOf(v)].flags
        /\ Walk(v).flags = tables_physical[TableOf(v)].flags
                             \cap (asked[v].flags \cup {"P"}) \cap {"RW", "US"}
    BY <2>1, WalkAsked DEF Rights
  <2>3. PICK u \in Pages : /\ TableOf(u) = TableOf(v) /\ asked[u] # NotAsked
                           /\ \/ tables_physical[TableOf(v)].flags = asked[u].flags \cup {"P"}
                              \/ u \in remapped
    BY <2>1, <2>2 DEF PagingInv, RightsSource
  <2>4. Walk(v).flags \subseteq asked[v].flags
    BY <2>2
  <2>5. ASSUME NEW r \in (asked[v].flags \cap Rights) \ Walk(v).flags
        PROVE  r \notin asked[u].flags \/ u \in remapped
    BY <2>2, <2>3 DEF Rights
  <2>6. QED BY <2>3, <2>4, <2>5
<1>2. QED BY <1>1, PagingInvariance, PTL

(***************************************************************************)
(* A translation the processor keeps is the tables', but for pages mapped  *)
(* again without an invlpg, pages read from a table not yet cleared, and   *)
(* the write right of pages read between the stores of their entry.        *)
(***************************************************************************)
THEOREM KeptTranslationsCurrent == Spec => []TranslationsCurrent
<1>1. PagingInv => TranslationsCurrent
  BY IntactIsLow DEF PagingInv, MemSound, KeptSound, TranslationsCurrent
<1>2. QED BY <1>1, PagingInvariance, PTL

(***************************************************************************)
(* Two slots of the directory never share a table, and no client owns one. *)
(***************************************************************************)
THEOREM TablesPrivate == Spec => []TableFramesPrivate
<1>1. PagingInv => TableFramesPrivate
  BY DEF PagingInv, DirectorySound, TableFramesPrivate
<1>2. QED BY <1>1, PagingInvariance, PTL

(***************************************************************************)
(* map_page faults only once memory is used up, its NULL being stored      *)
(* through, or with a table at or above the end of the identity map.       *)
(***************************************************************************)
THEOREM FaultsJustified == Spec => []FaultsExplained
<1>1. PagingInv => FaultsExplained
  BY DEF PagingInv
<1>2. QED BY <1>1, PagingInvariance, PTL

=============================================================================
