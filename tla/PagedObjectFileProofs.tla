-------------------------- MODULE PagedObjectFileProofs --------------------------
(* Proofs about PagedObjectFile for every set of documents, every page size and   *)
(* any number of failing writes.  The inductive invariant IInv says of the pages  *)
(* that the counted slots lie apart behind the free space (PagesWellFormed), of   *)
(* the memory that index and header speak of the pages on disk (MemoryMatches),   *)
(* of the operation in progress what its earlier writes left (OperationProgress), *)
(* and of every ID no write failed on which document is under it, between any two *)
(* writes (Contents).  One lemma per action shows that the action preserves IInv. *)
EXTENDS PagedObjectFile, FiniteSetTheorems, TLAPS

-----------------------------------------------------------------------------
(* Types *)

PageHeaderType == [magic : BOOLEAN, slot_count : 0 .. PAGE_SIZE,
                   free_start : 0 .. PAGE_SIZE, free_end : 0 .. PAGE_SIZE]
Units == {Blank} \cup (Documents \X Nat)
PageType == [header : PageHeaderType, slots : Seq(SlotType),
             bytes : [0 .. PAGE_SIZE - 1 -> Units]]

Appending == {"append_resize", "append_page_header", "append_file_header"}
Placing == {"payload", "slot", "page_header"}
Rewriting == {"rewrite_payload", "rewrite_slot"}
Steps == Appending \cup Placing \cup Rewriting \cup {"mark_deleted", "file_header"}

StepsOf == [insert |-> Appending \cup Placing \cup {"file_header"},
            update |-> Appending \cup Placing \cup Rewriting \cup {"mark_deleted"},
            delete |-> {"mark_deleted", "file_header"}]

Operations == {Idle} \cup [pc : Steps, kind : DOMAIN StepsOf, id : ObjectIds,
                           doc : Documents \cup {Absent}, page : Nat \ {0}]

Types ==
  /\ disk_header \in FileHeaderType /\ header \in FileHeaderType
  /\ pages \in Seq(PageType) /\ Len(pages) <= UINT32_MAX + 1
  /\ up \in BOOLEAN
  /\ DOMAIN locations \subseteq ObjectIds
  /\ locations = [id \in DOMAIN locations |-> locations[id]]
  /\ op \in Operations
  /\ aux_promised \in [ObjectIds -> Documents \cup {Absent}]
  /\ aux_suspect \subseteq ObjectIds
  /\ faults \in 0 .. MAX_FAULTS

-----------------------------------------------------------------------------
(* The pages *)

\* A page whose header was never written.
Unformatted(page) == page.slots = <<>> /\ page.header = ZeroPage.header

Inside(page, i) ==
  /\ page.slots[i].length <= page.slots[i].capacity
  /\ page.header.free_end <= page.slots[i].offset
  /\ page.slots[i].offset + page.slots[i].capacity <= PAGE_SIZE

Apart(slot1, slot2) ==
  \/ slot1.offset + slot1.capacity <= slot2.offset
  \/ slot2.offset + slot2.capacity <= slot1.offset

\* A page with its header: the counted slots lie apart behind the free space, and at
\* most one slot is written that the header does not count, into the free space.
Formatted(page) ==
  /\ validate_page_header(page.header)
  /\ Len(page.slots) \in page.header.slot_count .. page.header.slot_count + 1
  /\ Len(page.slots) > page.header.slot_count =>
       page.header.free_start + SLOT_SIZE <= page.header.free_end
  /\ \A i \in 1 .. page.header.slot_count : Inside(page, i)
  /\ \A i, j \in 1 .. page.header.slot_count :
       i # j => Apart(page.slots[i], page.slots[j])

PagesWellFormed == \A p \in DOMAIN pages : Formatted(pages[p]) \/ Unformatted(pages[p])

-----------------------------------------------------------------------------
(* The index and the header in memory *)

IsCounted(s) == s \in (1 .. header.page_count) \X Nat /\ s[2] \in SlotsOf(s[1])

MemoryMatches ==
  IF ~up THEN op = Idle /\ locations = <<>>
  ELSE /\ Len(pages) \in header.page_count .. header.page_count + 1
       /\ \A p \in DOMAIN pages :
            IF p <= header.page_count THEN Formatted(pages[p]) ELSE Unformatted(pages[p])
       /\ \A p \in DOMAIN pages : \A i \in SlotsOf(p) : pages[p].slots[i].id < header.next_id
       /\ \A id \in DOMAIN locations :
            IsCounted(locations[id]) /\ SlotAt(locations[id]).id = id
       /\ header.live_count = Cardinality(DOMAIN locations)

-----------------------------------------------------------------------------
(* The operation in progress *)

HasRoom(page, d) == page.header.free_end - page.header.free_start >= Required(d)

NewSlot == [id |-> op.id, offset |-> PayloadOffset, length |-> Length[op.doc],
            capacity |-> Length[op.doc], active |-> TRUE]

\* Units offset and following hold document d.
Stored(bytes, offset, d) == \A k \in 0 .. Length[d] - 1 : bytes[offset + k] = <<d, k>>

OperationProgress ==
  op # Idle =>
    /\ op.pc \in StepsOf[op.kind]
    /\ op.doc = Absent <=> op.kind = "delete"
    /\ op.kind = "insert" /\ op.pc # "file_header" =>
         op.id = header.next_id /\ header.next_id < SIZE_MAX
    /\ op.kind = "update" \/ op.pc = "mark_deleted" => op.id \in DOMAIN locations
    /\ op.pc \in Appending => Required(op.doc) <= PAGE_SIZE - PAGE_HEADER_SIZE
    /\ op.pc \in {"append_resize", "append_page_header"} =>
         op.page = header.page_count + 1 /\ header.page_count <= UINT32_MAX
    /\ op.pc = "append_page_header" => Len(pages) = op.page
    /\ op.pc \in Placing \cup {"append_file_header"} =>
         op.page \in 1 .. header.page_count /\ HasRoom(pages[op.page], op.doc)
    /\ op.pc \in {"slot", "page_header"} => Stored(pages[op.page].bytes, PayloadOffset, op.doc)
    /\ op.pc = "page_header" =>
         Len(pages[op.page].slots) = NewSlotIndex /\ pages[op.page].slots[NewSlotIndex] = NewSlot
    /\ op.pc = "mark_deleted" /\ op.kind = "update" =>
         LET new == <<op.page, pages[op.page].header.slot_count>>
         IN  IsCounted(new) /\ SlotAt(new).id = op.id /\ new # locations[op.id]
    /\ op.pc \in Rewriting =>
         op.page = locations[op.id][1] /\ Length[op.doc] <= SlotAt(locations[op.id]).capacity

-----------------------------------------------------------------------------
(* The contents *)

\* Slot s alone is active under the ID, of those in slots.
Holds(s, d) ==
  SlotAt(s).length = Length[d] /\ Stored(pages[s[1]].bytes, SlotAt(s).offset, d)

Sole(id, s) == \A t \in ActiveSlots : SlotAt(t).id = id => t = s

Settled(id, d) ==
  IF d = Absent THEN id \notin DOMAIN locations /\ \A t \in ActiveSlots : SlotAt(t).id # id
  ELSE /\ id \in DOMAIN locations
       /\ locations[id] \in ActiveSlots /\ Holds(locations[id], d)
       /\ Sole(id, locations[id])

\* Between the last two writes of an update: its old and its new slot are both active.
Relocating(id) ==
  LET old == locations[id]
      new == <<op.page, pages[op.page].header.slot_count>>
  IN  /\ old \in ActiveSlots /\ new \in ActiveSlots
      /\ Holds(new, op.doc)
      /\ \A t \in ActiveSlots : SlotAt(t).id = id => t \in {old, new}

\* The payload is that of the new document, the length that of the old.
HalfRewritten(id) ==
  /\ locations[id] \in ActiveSlots
  /\ Stored(pages[op.page].bytes, SlotAt(locations[id]).offset, op.doc)
  /\ Sole(id, locations[id])

\* Steps after which the affected object is between its old and its new content.
Midway == op.pc \in {"file_header", "rewrite_slot"} \/ (op.pc = "mark_deleted" /\ op.kind = "update")

ContentOf(id) ==
  IF op = Idle \/ op.id # id \/ ~Midway THEN Settled(id, aux_promised[id])
  ELSE CASE op.pc = "file_header"  -> Settled(id, op.doc)
         [] op.pc = "rewrite_slot" -> HalfRewritten(id)
         [] op.pc = "mark_deleted" -> Relocating(id)

Contents == up => \A id \in ObjectIds \ aux_suspect : ContentOf(id)

-----------------------------------------------------------------------------
\* Without a failed write, the file header lags behind memory only until its write.
HeaderWritten ==
  faults = 0 =>
    /\ aux_suspect = {}
    /\ up /\ op.pc \notin {"append_file_header", "file_header"} => disk_header = header
    /\ up /\ op.pc # "append_page_header" => Len(pages) = header.page_count

IInv ==
  /\ Types /\ PagesWellFormed /\ MemoryMatches /\ OperationProgress
  /\ Contents /\ RecoveredIsPromised /\ HeaderWritten
-----------------------------------------------------------------------------
(* Lemmas *)

\* The assumptions on the constants, in the form the provers use.
LEMMA Sizes ==
  /\ SIZE_MAX \in Nat \ {0} /\ PAGE_HEADER_SIZE \in Nat \ {0} /\ SLOT_SIZE \in Nat \ {0}
  /\ PAGE_SIZE \in Nat \ {0} /\ UINT32_MAX \in Nat /\ MAX_FAULTS \in Nat
  /\ PAGE_HEADER_SIZE + SLOT_SIZE < PAGE_SIZE
  /\ Absent \notin Documents
  /\ \A d \in Documents : Length[d] \in Nat \ {0}
BY SizesAssumption, LengthAssumption

USE Sizes

\* What the types say of the operation in progress.
LEMMA OperationFields ==
  ASSUME Types
  PROVE  /\ op = Idle <=> op.pc = "idle"
         /\ op # Idle => /\ op.pc \in Steps /\ op.kind \in {"insert", "update", "delete"}
                         /\ op.id \in ObjectIds /\ op.doc \in Documents \cup {Absent}
                         /\ op.page \in Nat \ {0}
BY DEF Types, Operations, Idle, Steps, Appending, Placing, Rewriting, StepsOf

\* The next write of an operation.
LEMMA NextStep ==
  ASSUME Types, op # Idle, NEW pc \in Steps
  PROVE  LET next == [op EXCEPT !.pc = pc]
         IN  /\ next \in Operations /\ next # Idle /\ next.pc = pc
             /\ next.kind = op.kind /\ next.id = op.id /\ next.doc = op.doc
             /\ next.page = op.page
<1>1. op \in [pc : Steps, kind : DOMAIN StepsOf, id : ObjectIds,
              doc : Documents \cup {Absent}, page : Nat \ {0}]
  BY DEF Types, Operations
<1>2. "idle" \notin Steps
  BY DEF Steps, Appending, Placing, Rewriting
<1> QED BY <1>1, <1>2 DEF Operations, Idle

\* A step to the next write keeps the arguments of the operation.
LEMMA GotoNext ==
  ASSUME Types, MemoryMatches, op.pc \in Steps, NEW pc \in Steps, Goto(pc)
  PROVE  /\ up /\ op # Idle /\ op' # Idle /\ op' \in Operations /\ op'.pc = pc
         /\ op'.kind = op.kind /\ op'.id = op.id /\ op'.doc = op.doc /\ op'.page = op.page
         /\ aux_promised' = aux_promised
<1>1. op # Idle
  BY DEF Idle, Steps, Appending, Placing, Rewriting
<1>2. up
  BY <1>1 DEF MemoryMatches
<1> QED BY <1>1, <1>2, NextStep DEF Goto

\* What the types say of the header in memory and of the file size.
LEMMA HeaderFields ==
  ASSUME Types
  PROVE  /\ header.next_id \in 0 .. SIZE_MAX /\ header.live_count \in 0 .. SIZE_MAX
         /\ header.page_count \in 0 .. UINT32_MAX + 1
         /\ Len(pages) \in Nat /\ DOMAIN pages = 1 .. Len(pages)
         /\ UINT32_MAX \in Nat /\ SIZE_MAX \in Nat
BY DEF Types, FileHeaderType

\* What the types say of a page.
LEMMA PageFields ==
  ASSUME Types, NEW p \in DOMAIN pages
  PROVE  /\ pages[p] \in PageType /\ p \in Nat \ {0} /\ p <= Len(pages)
         /\ pages[p].header \in PageHeaderType
         /\ pages[p].slots \in Seq(SlotType) /\ Len(pages[p].slots) \in Nat
         /\ DOMAIN pages[p].slots = 1 .. Len(pages[p].slots)
         /\ DOMAIN pages[p].bytes = 0 .. PAGE_SIZE - 1
         /\ pages[p].bytes \in [0 .. PAGE_SIZE - 1 -> Units]
<1>1. pages[p] \in PageType BY DEF Types
<1>2. p \in Nat \ {0} /\ p <= Len(pages) BY DEF Types
<1> QED BY <1>1, <1>2 DEF PageType

\* What the types say of a slot that is written.
LEMMA SlotFields ==
  ASSUME Types, NEW p \in DOMAIN pages, NEW i \in 1 .. Len(pages[p].slots)
  PROVE  /\ pages[p].slots[i] \in SlotType
         /\ pages[p].slots[i].id \in ObjectIds
         /\ pages[p].slots[i].offset \in Nat /\ pages[p].slots[i].length \in Nat
         /\ pages[p].slots[i].capacity \in Nat /\ pages[p].slots[i].active \in BOOLEAN
<1>1. pages[p].slots[i] \in SlotType BY PageFields
<1> QED BY <1>1 DEF SlotType

\* A page in the place of another.
LEMMA ReplacedPage ==
  ASSUME Types, NEW p \in DOMAIN pages, NEW page \in PageType,
         pages' = [pages EXCEPT ![p] = page]
  PROVE  /\ pages' \in Seq(PageType) /\ Len(pages') = Len(pages)
         /\ DOMAIN pages' = DOMAIN pages
         /\ pages'[p] = page
         /\ \A q \in DOMAIN pages : q # p => pages'[q] = pages[q]
BY DEF Types

\* The counted slots of a formatted page are slots that are written.
LEMMA CountedSlot ==
  ASSUME Types, NEW p \in DOMAIN pages, Formatted(pages[p]) \/ Unformatted(pages[p]),
         NEW i \in SlotsOf(p)
  PROVE  i \in 1 .. Len(pages[p].slots) /\ Formatted(pages[p])
<1>1. pages[p].header.slot_count \in Nat /\ Len(pages[p].slots) \in Nat
  <2>1. pages[p].header \in PageHeaderType BY PageFields
  <2> QED BY <2>1, PageFields DEF PageHeaderType
<1>2. ~ Unformatted(pages[p])
  BY DEF Unformatted, ZeroPage, SlotsOf
<1>3. Len(pages[p].slots) \in pages[p].header.slot_count .. pages[p].header.slot_count + 1
  BY <1>2 DEF Formatted
<1> QED BY <1>1, <1>2, <1>3 DEF SlotsOf

\* The active slots, one by one.
LEMMA ActiveSlot ==
  /\ \A t \in ActiveSlots : /\ t[1] \in DOMAIN pages /\ t[2] \in SlotsOf(t[1])
                             /\ t = <<t[1], t[2]>> /\ SlotAt(t).active
                             /\ SlotAt(t) = pages[t[1]].slots[t[2]]
  /\ \A p \in DOMAIN pages : \A i \in SlotsOf(p) :
       pages[p].slots[i].active => <<p, i>> \in ActiveSlots /\ SlotAt(<<p, i>>) = pages[p].slots[i]
BY DEF ActiveSlots, SlotAt

\* A step that touches no active slot and no payload of one keeps the contents.
LEMMA SteadyContents ==
  ASSUME IInv, up, ~Midway, ~Midway', UNCHANGED <<locations, aux_promised, aux_suspect>>,
         ActiveSlots' = ActiveSlots, \A t \in ActiveSlots : SlotAt(t)' = SlotAt(t),
         \A t \in ActiveSlots, d \in Documents : Holds(t, d) => Holds(t, d)'
  PROVE  Contents'
<1>1. SUFFICES ASSUME NEW id \in ObjectIds \ aux_suspect PROVE ContentOf(id)'
  BY DEF Contents
<1>2. Settled(id, aux_promised[id])
  BY DEF IInv, Contents, ContentOf
<1>3. aux_promised[id] \in Documents \cup {Absent}
  BY DEF IInv, Types
<1>4. Settled(id, aux_promised[id])'
  BY <1>2, <1>3 DEF Settled, Sole
<1> QED BY <1>4 DEF ContentOf

\* The same, when the pages that were there keep their counted slots and their bytes.
LEMMA QuietPages ==
  ASSUME IInv, up, ~Midway, ~Midway', UNCHANGED <<locations, aux_promised, aux_suspect>>,
         \A p \in DOMAIN pages : /\ p \in DOMAIN pages' /\ SlotsOf(p)' = SlotsOf(p)
                                 /\ pages'[p].bytes = pages[p].bytes
                                 /\ \A i \in SlotsOf(p) : pages'[p].slots[i] = pages[p].slots[i],
         \A p \in DOMAIN pages' \ DOMAIN pages : SlotsOf(p)' = {}
  PROVE  Contents'
<1>1. ActiveSlots' = ActiveSlots
  BY DEF ActiveSlots
<1>2. \A t \in ActiveSlots : SlotAt(t)' = SlotAt(t) /\ pages'[t[1]].bytes = pages[t[1]].bytes
  BY ActiveSlot DEF SlotAt
<1>3. ASSUME NEW t \in ActiveSlots, NEW d \in Documents, Holds(t, d)
      PROVE  Holds(t, d)'
  BY <1>2, <1>3 DEF Holds, Stored
<1> QED BY <1>1, <1>2, <1>3, SteadyContents

\* Operations that have not written yet leave the contents as they are.
LEMMA StartPreserves ==
  ASSUME IInv, up, op = Idle, op' \in Operations, op' # Idle,
         \/ op'.pc \in Appending \cup {"payload", "rewrite_payload"}
         \/ op'.pc = "mark_deleted" /\ op'.kind = "delete",
         OperationProgress',
         UNCHANGED <<disk_header, pages, up, header, locations, aux_promised, aux_suspect, faults>>
  PROVE  IInv'
<1> USE DEF IInv
<1>1. Types' BY DEF Types
<1>2. PagesWellFormed' BY DEF PagesWellFormed, Formatted, Unformatted, Inside, Apart
<1>3. MemoryMatches' BY DEF MemoryMatches, IsCounted, SlotsOf, SlotAt
<1>4. Contents'
  <2>1. ~Midway /\ ~Midway'
    BY DEF Midway, Idle, Appending
  <2> QED BY <2>1, QuietPages DEF SlotsOf
<1>5. RecoveredIsPromised' BY DEF RecoveredIsPromised
<1>6. HeaderWritten' BY OperationFields DEF HeaderWritten, Appending, Types
<1> QED BY <1>1, <1>2, <1>3, <1>4, <1>5, <1>6

\* A set of page numbers has a least one.
LEMMA LeastNumber ==
  ASSUME NEW S \in SUBSET Nat, S # {}
  PROVE  \E x \in S : \A y \in S : x <= y
<1>1. PICK x \in S : \A y \in S : ~(<<y, x>> \in OpToRel(<, Nat))
  BY NatLessThanWellFounded, WFMin
<1>2. \A y \in S : ~(y < x)
  BY <1>1 DEF OpToRel
<1> QED BY <1>2

\* find_page_for_object gives a page with room, or one to append.
LEMMA FoundPage ==
  ASSUME IInv, up, NEW kind, NEW id, NEW d \in Documents, find_page_for_object(kind, id, d)
  PROVE  /\ op'.pc \in {"payload", "append_resize"} /\ op'.kind = kind /\ op'.id = id
         /\ op'.doc = d /\ op'.page \in Nat \ {0}
         /\ op' = [pc |-> op'.pc, kind |-> kind, id |-> id, doc |-> d, page |-> op'.page]
         /\ op'.pc = "payload" =>
              op'.page \in 1 .. header.page_count /\ HasRoom(pages[op'.page], d)
         /\ op'.pc = "append_resize" =>
              /\ op'.page = header.page_count + 1 /\ header.page_count <= UINT32_MAX
              /\ Required(d) <= PAGE_SIZE - PAGE_HEADER_SIZE
<1>0. header.page_count \in Nat
  BY DEF IInv, Types, FileHeaderType
<1>1. CASE PagesWithRoom(d) # {}
  <2>1. PagesWithRoom(d) \in SUBSET Nat
    BY <1>0 DEF PagesWithRoom
  <2>2. \E p \in PagesWithRoom(d) : \A q \in PagesWithRoom(d) : p <= q
    BY <1>1, <2>1, LeastNumber
  <2> DEFINE p == CHOOSE p \in PagesWithRoom(d) : \A q \in PagesWithRoom(d) : p <= q
  <2>3. p \in PagesWithRoom(d)
    BY <2>2
  <2>4. op' = [pc |-> "payload", kind |-> kind, id |-> id, doc |-> d, page |-> p]
    BY <1>1 DEF find_page_for_object
  <2> HIDE DEF p
  <2> QED BY <1>0, <2>3, <2>4 DEF PagesWithRoom, HasRoom
<1>2. CASE PagesWithRoom(d) = {}
  BY <1>0, <1>2 DEF find_page_for_object
<1> QED BY <1>1, <1>2

\* linklet_object_file_insert finds a page before it writes anything.
LEMMA InsertPreserves ==
  ASSUME IInv, NEW d \in Documents, Insert(d)
  PROVE  IInv'
<1> USE DEF Insert
<1>0. header.next_id \in ObjectIds
  BY DEF IInv, Types, FileHeaderType, ObjectIds
<1>1. op' \in Operations /\ op' # Idle
  BY <1>0, FoundPage DEF Operations, Idle, Steps, Appending, Placing, StepsOf
<1>2. OperationProgress'
  BY <1>0, FoundPage, SMTT(30) DEF OperationProgress, StepsOf, Appending, Placing, Rewriting, HasRoom, Required,
     ObjectIds
<1>3. op'.pc \in Appending \cup {"payload", "rewrite_payload"}
  BY FoundPage DEF Appending
<1> QED BY <1>1, <1>2, <1>3, StartPreserves

\* linklet_object_file_update finds its page or its slot before it writes anything.
LEMMA UpdatePreserves ==
  ASSUME IInv, NEW id \in ObjectIds, NEW d \in Documents, Update(id, d)
  PROVE  IInv'
<1> USE DEF Update
<1>1. CASE Length[d] <= SlotAt(locations[id]).capacity
  <2>1. op' = [pc |-> "rewrite_payload", kind |-> "update", id |-> id, doc |-> d,
               page |-> locations[id][1]]
    BY <1>1
  <2>2. locations[id][1] \in Nat \ {0}
    BY HeaderFields DEF IInv, MemoryMatches, IsCounted
  <2>3. op' \in Operations /\ op' # Idle
    BY <2>1, <2>2 DEF Operations, Idle, Steps, Rewriting, StepsOf
  <2>4. OperationProgress'
    BY <1>1, <2>1 DEF OperationProgress, StepsOf, Appending, Placing, Rewriting, SlotAt
  <2> QED BY <2>1, <2>3, <2>4, StartPreserves
<1>2. CASE ~(Length[d] <= SlotAt(locations[id]).capacity)
  <2>0. find_page_for_object("update", id, d)
    BY <1>2
  <2>1. op' \in Operations /\ op' # Idle
    BY <2>0, FoundPage DEF Operations, Idle, Steps, Appending, Placing, StepsOf
  <2>2. OperationProgress'
    BY <2>0, FoundPage, SMTT(30) DEF OperationProgress, StepsOf, Appending, Placing, Rewriting, HasRoom, Required
  <2>3. op'.pc \in Appending \cup {"payload", "rewrite_payload"}
    BY <2>0, FoundPage DEF Appending
  <2> QED BY <2>1, <2>2, <2>3, StartPreserves
<1> QED BY <1>1, <1>2

\* linklet_object_file_delete starts at the slot of the index.
LEMMA DeletePreserves ==
  ASSUME IInv, NEW id \in ObjectIds, Delete(id)
  PROVE  IInv'
<1> USE DEF Delete
<1>2. locations[id][1] \in Nat \ {0}
  BY HeaderFields DEF IInv, MemoryMatches, IsCounted
<1>3. op' \in Operations /\ op' # Idle
  BY <1>2 DEF Operations, Idle, Steps, StepsOf
<1>4. OperationProgress'
  BY DEF OperationProgress, StepsOf, Appending, Placing, Rewriting
<1> QED BY <1>3, <1>4, StartPreserves

-----------------------------------------------------------------------------
(* Appending a page *)

\* The page ftruncate adds is unformatted, or is the one a failed append left.
LEMMA AppendResizePreserves ==
  ASSUME IInv, AppendResize
  PROVE  IInv'
<1> USE DEF IInv, AppendResize, Unfaulted
<1>1. /\ up /\ op # Idle /\ op' # Idle /\ op' \in Operations /\ op'.pc = "append_page_header"
      /\ op'.kind = op.kind /\ op'.id = op.id /\ op'.doc = op.doc /\ op'.page = op.page
      /\ aux_promised' = aux_promised
  BY GotoNext DEF Steps, Appending
<1>2. op.page = header.page_count + 1 /\ header.page_count <= UINT32_MAX
      /\ Required(op.doc) <= PAGE_SIZE - PAGE_HEADER_SIZE
  BY <1>1 DEF OperationProgress, Appending
<1>3. ZeroPage \in PageType /\ Unformatted(ZeroPage)
  BY DEF ZeroPage, PageType, PageHeaderType, Units, Unformatted
<1>4. /\ pages' \in Seq(PageType) /\ Len(pages') = header.page_count + 1
      /\ DOMAIN pages' = 1 .. header.page_count + 1
      /\ \A p \in DOMAIN pages : p \in DOMAIN pages' /\ pages'[p] = pages[p]
      /\ \A p \in DOMAIN pages' \ DOMAIN pages : pages'[p] = ZeroPage
  <2>1. pages \in Seq(PageType) /\ Len(pages) \in header.page_count .. header.page_count + 1
    BY <1>1 DEF Types, MemoryMatches
  <2>2. CASE Len(pages) = header.page_count
    BY <1>3, <2>1, <2>2, HeaderFields
  <2>3. CASE Len(pages) # header.page_count
    BY <2>1, <2>3, HeaderFields
  <2> QED BY <2>2, <2>3
<1>5. \A p \in DOMAIN pages' \ DOMAIN pages : SlotsOf(p)' = {}
  BY <1>4 DEF SlotsOf, ZeroPage
<1>6. Types' BY <1>1, <1>2, <1>4, SMTT(30) DEF Types
<1>7. PagesWellFormed' BY <1>3, <1>4 DEF PagesWellFormed
<1>8. MemoryMatches'
  <2>1. \A p \in DOMAIN pages' :
          IF p <= header.page_count THEN Formatted(pages'[p]) ELSE Unformatted(pages'[p])
    <3> SUFFICES ASSUME NEW p \in DOMAIN pages'
                 PROVE  IF p <= header.page_count THEN Formatted(pages'[p])
                                                  ELSE Unformatted(pages'[p])
      OBVIOUS
    <3>1. CASE p \in DOMAIN pages BY <1>1, <1>4, <3>1 DEF MemoryMatches
    <3>2. CASE p \notin DOMAIN pages
      BY <1>1, <1>3, <1>4, <3>2, HeaderFields DEF MemoryMatches
    <3> QED BY <3>1, <3>2
  <2>2. \A p \in DOMAIN pages' : \A i \in SlotsOf(p)' : pages'[p].slots[i].id < header.next_id
    BY <1>1, <1>4, <1>5 DEF MemoryMatches, SlotsOf
  <2>3. \A id \in DOMAIN locations : IsCounted(locations[id])' /\ SlotAt(locations[id])'.id = id
    <3> SUFFICES ASSUME NEW id \in DOMAIN locations
                 PROVE  IsCounted(locations[id])' /\ SlotAt(locations[id])'.id = id
      OBVIOUS
    <3>1. IsCounted(locations[id]) /\ SlotAt(locations[id]).id = id
      BY <1>1 DEF MemoryMatches
    <3>2. locations[id][1] \in DOMAIN pages
      BY <1>1, <3>1, HeaderFields DEF IsCounted, MemoryMatches
    <3> QED BY <1>4, <3>1, <3>2 DEF IsCounted, SlotsOf, SlotAt
  <2> QED BY <1>1, <1>4, <2>1, <2>2, <2>3, HeaderFields DEF MemoryMatches
<1>9. OperationProgress'
  <2>1. op.doc = Absent <=> op.kind = "delete"
    BY <1>1 DEF OperationProgress
  <2>2. op.kind \in {"insert", "update"}
    BY <1>1, OperationFields DEF OperationProgress, StepsOf, Appending
  <2>3. /\ op.kind = "insert" => op.id = header.next_id /\ header.next_id < SIZE_MAX
        /\ op.kind = "update" => op.id \in DOMAIN locations
    BY <1>1 DEF OperationProgress
  <2> QED BY <1>1, <1>2, <1>4, <2>1, <2>2, <2>3
          DEF OperationProgress, StepsOf, Appending, Placing, Rewriting, Required
<1>10. Contents'
  <2>1. ~Midway /\ ~Midway'
    BY <1>1 DEF Midway
  <2> QED BY <1>1, <1>4, <1>5, <2>1, QuietPages DEF SlotsOf
<1>11. RecoveredIsPromised' BY <1>1 DEF RecoveredIsPromised
<1>12. HeaderWritten' BY <1>1 DEF HeaderWritten
<1> QED BY <1>6, <1>7, <1>8, <1>9, <1>10, <1>11, <1>12

\* The header makes the appended page an empty page with room for the document.
LEMMA AppendPageHeaderPreserves ==
  ASSUME IInv, AppendPageHeader
  PROVE  IInv'
<1> USE DEF IInv, AppendPageHeader, Unfaulted
<1>1. /\ up /\ op # Idle /\ op' # Idle /\ op' \in Operations /\ op'.pc = "append_file_header"
      /\ op'.kind = op.kind /\ op'.id = op.id /\ op'.doc = op.doc /\ op'.page = op.page
      /\ aux_promised' = aux_promised
  BY GotoNext DEF Steps, Appending
<1>2. op.page = header.page_count + 1 /\ header.page_count <= UINT32_MAX
      /\ Required(op.doc) <= PAGE_SIZE - PAGE_HEADER_SIZE /\ Len(pages) = op.page
  BY <1>1 DEF OperationProgress, Appending
<1>3. /\ header' \in FileHeaderType /\ header'.page_count = op.page
      /\ header'.next_id = header.next_id /\ header'.live_count = header.live_count
  <2>1. header \in FileHeaderType BY DEF Types
  <2>2. header' = [header EXCEPT !.page_count = header.page_count + 1]
    OBVIOUS
  <2> HIDE DEF AppendPageHeader, IInv
  <2>3. header.page_count + 1 \in 0 .. UINT32_MAX + 1 /\ header.page_count + 1 = op.page
    BY <1>2, <2>1 DEF FileHeaderType
  <2> QED BY <2>1, <2>2, <2>3 DEF FileHeaderType
<1> DEFINE page == [pages[op.page] EXCEPT !.header = EmptyPageHeader]
<1>4. op.page \in DOMAIN pages /\ DOMAIN pages = 1 .. op.page /\ header.page_count \in Nat
  BY <1>2, HeaderFields
<1>5. Unformatted(pages[op.page])
  BY <1>1, <1>2, <1>4 DEF MemoryMatches
<1>6. /\ page \in PageType /\ page.header = EmptyPageHeader /\ page.slots = <<>>
      /\ page.bytes = pages[op.page].bytes
  <2>1. pages[op.page] \in PageType BY <1>4, PageFields
  <2>2. EmptyPageHeader \in PageHeaderType BY DEF EmptyPageHeader, PageHeaderType
  <2> QED BY <1>5, <2>1, <2>2 DEF PageType, Unformatted
<1>7. pages' = [pages EXCEPT ![op.page] = page]
  OBVIOUS
<1> HIDE DEF page, AppendPageHeader
<1>8. /\ pages' \in Seq(PageType) /\ Len(pages') = Len(pages) /\ DOMAIN pages' = DOMAIN pages
      /\ pages'[op.page] = page
      /\ \A q \in DOMAIN pages : q # op.page => pages'[q] = pages[q]
  BY <1>4, <1>6, <1>7, ReplacedPage
<1>9. Formatted(page)
  BY <1>6 DEF Formatted, validate_page_header, EmptyPageHeader
<1>10. SlotsOf(op.page) = {} /\ SlotsOf(op.page)' = {}
  BY <1>5, <1>6, <1>8, <1>1 DEF SlotsOf, Unformatted, ZeroPage, EmptyPageHeader
<1>20. UNCHANGED <<disk_header, locations, up, aux_suspect, faults>>
  BY DEF AppendPageHeader
<1>11. Types' BY <1>1, <1>3, <1>8, <1>20 DEF Types
<1>12. PagesWellFormed' BY <1>8, <1>9 DEF PagesWellFormed
<1>13. MemoryMatches'
  <2>1. \A p \in DOMAIN pages' : p <= op.page /\ Formatted(pages'[p])
    BY <1>1, <1>2, <1>4, <1>8, <1>9 DEF MemoryMatches
  <2>2. \A p \in DOMAIN pages' : \A i \in SlotsOf(p)' : pages'[p].slots[i].id < header'.next_id
    BY <1>1, <1>3, <1>8, <1>10 DEF MemoryMatches, SlotsOf
  <2>3. \A id \in DOMAIN locations : IsCounted(locations[id])' /\ SlotAt(locations[id])'.id = id
    <3> SUFFICES ASSUME NEW id \in DOMAIN locations
                 PROVE  IsCounted(locations[id])' /\ SlotAt(locations[id])'.id = id
      BY <1>20
    <3>1. IsCounted(locations[id]) /\ SlotAt(locations[id]).id = id
      BY <1>1 DEF MemoryMatches
    <3>2. locations[id][1] \in DOMAIN pages /\ locations[id][1] # op.page
          /\ locations[id][1] <= op.page
      BY <1>2, <1>4, <3>1 DEF IsCounted
    <3> QED BY <1>3, <1>4, <1>8, <1>20, <3>1, <3>2 DEF IsCounted, SlotsOf, SlotAt
  <2> QED BY <1>1, <1>2, <1>3, <1>4, <1>8, <1>20, <2>1, <2>2, <2>3 DEF MemoryMatches
<1>14. OperationProgress'
  <2>1. op.doc = Absent <=> op.kind = "delete"
    BY <1>1 DEF OperationProgress
  <2>2. op.kind \in {"insert", "update"}
    BY <1>1, OperationFields DEF OperationProgress, StepsOf, Appending, AppendPageHeader
  <2>3. /\ op.kind = "insert" => op.id = header.next_id /\ header.next_id < SIZE_MAX
        /\ op.kind = "update" => op.id \in DOMAIN locations
    BY <1>1 DEF OperationProgress, AppendPageHeader
  <2>4. HasRoom(page, op.doc)
    BY <1>2, <1>6 DEF HasRoom, EmptyPageHeader
  <2>5. HasRoom(pages[op.page], op.doc)'
    BY <1>1, <1>8, <2>4 DEF HasRoom, Required
  <2> QED BY <1>1, <1>2, <1>3, <1>4, <1>20, <2>1, <2>2, <2>3, <2>5
          DEF OperationProgress, StepsOf, Appending, Placing, Rewriting, Required
<1>15. Contents'
  <2>1. ~Midway /\ ~Midway'
    BY <1>1 DEF Midway, AppendPageHeader
  <2>2. \A p \in DOMAIN pages : /\ p \in DOMAIN pages' /\ SlotsOf(p)' = SlotsOf(p)
                                /\ pages'[p].bytes = pages[p].bytes
                                /\ \A i \in SlotsOf(p) : pages'[p].slots[i] = pages[p].slots[i]
    <3> SUFFICES ASSUME NEW p \in DOMAIN pages
                 PROVE  /\ p \in DOMAIN pages' /\ SlotsOf(p)' = SlotsOf(p)
                        /\ pages'[p].bytes = pages[p].bytes
                        /\ \A i \in SlotsOf(p) : pages'[p].slots[i] = pages[p].slots[i]
      OBVIOUS
    <3>1. CASE p = op.page BY <1>1, <1>6, <1>8, <1>10, <3>1
    <3>2. CASE p # op.page BY <1>8, <3>2 DEF SlotsOf
    <3> QED BY <3>1, <3>2
  <2>3. \A p \in DOMAIN pages' \ DOMAIN pages : SlotsOf(p)' = {}
    BY <1>8
  <2>4. UNCHANGED <<locations, aux_promised, aux_suspect>>
    BY <1>1, <1>20
  <2> QED BY <1>1, <2>1, <2>2, <2>3, <2>4, QuietPages
<1>16. RecoveredIsPromised' BY <1>1, <1>20 DEF RecoveredIsPromised
<1>17. HeaderWritten' BY <1>1, <1>2, <1>3, <1>8, <1>20 DEF HeaderWritten
<1> QED BY <1>11, <1>12, <1>13, <1>14, <1>15, <1>16, <1>17

\* The file header catches up with the page count in memory.
LEMMA AppendFileHeaderPreserves ==
  ASSUME IInv, AppendFileHeader
  PROVE  IInv'
<1> USE DEF IInv, AppendFileHeader, Unfaulted
<1>1. /\ up /\ op # Idle /\ op' # Idle /\ op' \in Operations /\ op'.pc = "payload"
      /\ op'.kind = op.kind /\ op'.id = op.id /\ op'.doc = op.doc /\ op'.page = op.page
      /\ aux_promised' = aux_promised
  BY GotoNext DEF Steps, Appending, Placing
<1>2. Types' BY <1>1 DEF Types
<1>3. PagesWellFormed' BY DEF PagesWellFormed
<1>4. MemoryMatches' BY <1>1 DEF MemoryMatches, IsCounted, SlotsOf, SlotAt
<1>5. OperationProgress'
  <2>1. op.doc = Absent <=> op.kind = "delete"
    BY <1>1 DEF OperationProgress
  <2>2. op.kind \in {"insert", "update"}
    BY <1>1, OperationFields DEF OperationProgress, StepsOf, Appending
  <2>3. /\ op.kind = "insert" => op.id = header.next_id /\ header.next_id < SIZE_MAX
        /\ op.kind = "update" => op.id \in DOMAIN locations
    BY <1>1 DEF OperationProgress
  <2>4. op.page \in 1 .. header.page_count /\ HasRoom(pages[op.page], op.doc)
    BY <1>1 DEF OperationProgress
  <2> QED BY <1>1, <2>1, <2>2, <2>3, <2>4
          DEF OperationProgress, StepsOf, Appending, Placing, Rewriting, HasRoom, Required
<1>6. Contents'
  <2>1. ~Midway /\ ~Midway'
    BY <1>1 DEF Midway
  <2> QED BY <1>1, <2>1, QuietPages DEF SlotsOf
<1>7. RecoveredIsPromised' BY <1>1 DEF RecoveredIsPromised
<1>8. HeaderWritten' BY <1>1 DEF HeaderWritten
<1> QED BY <1>2, <1>3, <1>4, <1>5, <1>6, <1>7, <1>8

-----------------------------------------------------------------------------
(* Placing a payload and its slot *)

\* A step that writes document d at an offset of page p and changes nothing else there.
WritesPayload(p, offset, d) ==
  /\ pages' \in Seq(PageType) /\ Len(pages') = Len(pages) /\ DOMAIN pages' = DOMAIN pages
  /\ \A q \in DOMAIN pages : q # p => pages'[q] = pages[q]
  /\ pages'[p].header = pages[p].header /\ pages'[p].slots = pages[p].slots
  /\ Stored(pages'[p].bytes, offset, d)
  /\ \A k \in 0 .. PAGE_SIZE - 1 :
       k \notin offset .. offset + Length[d] - 1 => pages'[p].bytes[k] = pages[p].bytes[k]

\* A payload written into a page changes its units there and nothing else.
LEMMA PayloadWritten ==
  ASSUME Types, NEW p \in DOMAIN pages, NEW d \in Documents, NEW offset \in Nat,
         offset + Length[d] <= PAGE_SIZE,
         pages' = [pages EXCEPT ![p].bytes = WithPayload(@, offset, d)]
  PROVE  WritesPayload(p, offset, d)
<1> DEFINE bytes == WithPayload(pages[p].bytes, offset, d)
           page == [pages[p] EXCEPT !.bytes = bytes]
<1>1. pages[p] \in PageType /\ pages[p].bytes \in [0 .. PAGE_SIZE - 1 -> Units]
  BY PageFields
<1>2. bytes \in [0 .. PAGE_SIZE - 1 -> Units]
  BY <1>1, SMTT(30) DEF WithPayload, Units
<1>3. Stored(bytes, offset, d)
  <2> SUFFICES ASSUME NEW k \in 0 .. Length[d] - 1 PROVE bytes[offset + k] = <<d, k>>
    BY DEF Stored
  <2>1. /\ offset + k \in 0 .. PAGE_SIZE - 1 /\ offset + k \in offset .. offset + Length[d] - 1
        /\ (offset + k) - offset = k
    OBVIOUS
  <2>2. bytes[offset + k] = <<d, (offset + k) - offset>>
    BY <1>1, <2>1 DEF WithPayload
  <2> QED BY <2>1, <2>2
<1>4. \A k \in 0 .. PAGE_SIZE - 1 :
        k \notin offset .. offset + Length[d] - 1 => bytes[k] = pages[p].bytes[k]
  BY <1>1 DEF WithPayload
<1>5. pages' = [pages EXCEPT ![p] = page]
  OBVIOUS
<1> HIDE DEF bytes
<1>6. page \in PageType /\ page.header = pages[p].header /\ page.slots = pages[p].slots
      /\ page.bytes = bytes
  BY <1>1, <1>2 DEF PageType
<1> HIDE DEF page
<1>7. /\ pages' \in Seq(PageType) /\ Len(pages') = Len(pages) /\ DOMAIN pages' = DOMAIN pages
      /\ pages'[p] = page /\ \A q \in DOMAIN pages : q # p => pages'[q] = pages[q]
  BY <1>5, <1>6, ReplacedPage
<1> QED BY <1>3, <1>4, <1>6, <1>7 DEF WritesPayload

\* A slot written behind the first n slots of a page.
LEMMA ReplacedTail ==
  ASSUME NEW S, NEW s \in Seq(S), NEW n \in 0 .. Len(s), NEW e \in S
  PROVE  LET r == SubSeq(s, 1, n) \o <<e>>
         IN  r \in Seq(S) /\ Len(r) = n + 1 /\ r[n + 1] = e /\ \A i \in 1 .. n : r[i] = s[i]
OBVIOUS

\* A step that keeps headers, and the IDs of the counted slots, keeps the index right.
LEMMA CountedKept ==
  ASSUME IInv, up, UNCHANGED <<up, header, locations>>, Len(pages') = Len(pages),
         DOMAIN pages' = DOMAIN pages,
         \A p \in DOMAIN pages :
           /\ pages'[p].header = pages[p].header
           /\ \A i \in SlotsOf(p) : pages'[p].slots[i].id = pages[p].slots[i].id
           /\ Formatted(pages[p]) => Formatted(pages'[p])
           /\ Unformatted(pages[p]) => Unformatted(pages'[p])
  PROVE  PagesWellFormed' /\ MemoryMatches'
<1> USE DEF IInv
<1>1. PagesWellFormed' BY DEF PagesWellFormed
<1>2. \A p \in DOMAIN pages : SlotsOf(p)' = SlotsOf(p)
  BY DEF SlotsOf
<1>3. \A id \in DOMAIN locations : IsCounted(locations[id])' /\ SlotAt(locations[id])'.id = id
  <2> SUFFICES ASSUME NEW id \in DOMAIN locations
               PROVE  IsCounted(locations[id])' /\ SlotAt(locations[id])'.id = id
    OBVIOUS
  <2>1. IsCounted(locations[id]) /\ SlotAt(locations[id]).id = id
    BY DEF MemoryMatches
  <2>2. locations[id][1] \in DOMAIN pages
    BY <2>1, HeaderFields DEF IsCounted, MemoryMatches
  <2> QED BY <1>2, <2>1, <2>2 DEF IsCounted, SlotAt
<1>4. \A p \in DOMAIN pages' : \A i \in SlotsOf(p)' : pages'[p].slots[i].id < header'.next_id
  BY <1>2 DEF MemoryMatches
<1>5. \A p \in DOMAIN pages' :
        IF p <= header'.page_count THEN Formatted(pages'[p]) ELSE Unformatted(pages'[p])
  BY DEF MemoryMatches
<1>6. MemoryMatches' BY <1>3, <1>4, <1>5 DEF MemoryMatches
<1> QED BY <1>1, <1>6

\* The shape of a page does not depend on its units.
LEMMA ShapeKept ==
  ASSUME NEW page1, NEW page2, page1.header = page2.header, page1.slots = page2.slots
  PROVE  /\ Formatted(page1) => Formatted(page2)
         /\ Unformatted(page1) => Unformatted(page2)
BY DEF Formatted, Unformatted, Inside

\* Where a placing operation is about to write.
LEMMA PlacingFields ==
  ASSUME IInv, op.pc \in Placing
  PROVE  /\ up /\ op # Idle /\ op.doc \in Documents /\ op.page \in DOMAIN pages
         /\ op.page \in 1 .. header.page_count /\ Formatted(pages[op.page])
         /\ op.kind \in {"insert", "update"}
         /\ PayloadOffset \in Nat /\ PayloadOffset + Length[op.doc] = pages[op.page].header.free_end
         /\ pages[op.page].header.free_end <= PAGE_SIZE
         /\ pages[op.page].header.free_start + SLOT_SIZE <= PayloadOffset
         /\ pages[op.page].header.slot_count \in Nat
         /\ pages[op.page].header \in PageHeaderType
<1> USE DEF IInv
<1>1. op # Idle /\ up
  BY DEF MemoryMatches, Placing, Idle
<1>2. op.kind \in {"insert", "update"}
  BY <1>1, OperationFields DEF OperationProgress, StepsOf, Placing
<1>3. op.doc \in Documents
  BY <1>1, <1>2, OperationFields DEF OperationProgress
<1>4. op.page \in 1 .. header.page_count /\ HasRoom(pages[op.page], op.doc)
  BY <1>1 DEF OperationProgress
<1>5. op.page \in DOMAIN pages
  BY <1>1, <1>4, HeaderFields DEF MemoryMatches
<1>6. Formatted(pages[op.page])
  BY <1>1, <1>4, <1>5 DEF MemoryMatches
<1>7. pages[op.page].header \in PageHeaderType
  BY <1>5, PageFields
<1>8. /\ pages[op.page].header.free_end \in Nat /\ pages[op.page].header.free_start \in Nat
      /\ pages[op.page].header.free_end <= PAGE_SIZE
      /\ pages[op.page].header.slot_count \in Nat
  BY <1>7 DEF PageHeaderType
<1>9. Length[op.doc] \in Nat
  BY <1>3
<1> QED BY <1>1, <1>2, <1>3, <1>4, <1>5, <1>6, <1>7, <1>8, <1>9 DEF HasRoom, Required, PayloadOffset

\* The payload goes into the free space, where no counted slot has its units.
LEMMA PlacePayloadPreserves ==
  ASSUME IInv, PlacePayload
  PROVE  IInv'
<1> USE DEF IInv
<1>1. /\ up /\ op # Idle /\ op' # Idle /\ op' \in Operations /\ op.pc = "payload" /\ op'.pc = "slot"
      /\ op'.kind = op.kind /\ op'.id = op.id /\ op'.doc = op.doc /\ op'.page = op.page
      /\ aux_promised' = aux_promised
  BY GotoNext DEF Steps, Placing, PlacePayload
<1>2. UNCHANGED <<disk_header, header, locations, up, aux_suspect, faults, aux_promised>>
  BY <1>1 DEF PlacePayload, Unfaulted
<1>3. /\ op.doc \in Documents /\ op.page \in DOMAIN pages /\ op.page \in 1 .. header.page_count
      /\ Formatted(pages[op.page]) /\ op.kind \in {"insert", "update"}
      /\ PayloadOffset \in Nat /\ PayloadOffset + Length[op.doc] = pages[op.page].header.free_end
      /\ pages[op.page].header.free_end <= PAGE_SIZE
  BY <1>1, PlacingFields DEF Placing
<1>4. WritesPayload(op.page, PayloadOffset, op.doc)
  <2>1. pages' = [pages EXCEPT ![op.page].bytes = WithPayload(@, PayloadOffset, op.doc)]
    BY DEF PlacePayload
  <2>2. PayloadOffset + Length[op.doc] <= PAGE_SIZE
    BY <1>3
  <2> HIDE DEF IInv
  <2>3. Types BY DEF IInv
  <2> QED BY <1>3, <2>1, <2>2, <2>3, PayloadWritten
<1> USE DEF WritesPayload
<1>5. Types' BY <1>1, <1>2, <1>4 DEF Types
<1>6. PagesWellFormed' /\ MemoryMatches'
  <2>1. \A p \in DOMAIN pages : pages'[p].header = pages[p].header /\ pages'[p].slots = pages[p].slots
    BY <1>4
  <2>2. \A p \in DOMAIN pages : /\ Formatted(pages[p]) => Formatted(pages'[p])
                                /\ Unformatted(pages[p]) => Unformatted(pages'[p])
    BY <2>1, ShapeKept
  <2> QED BY <1>1, <1>2, <1>4, <2>1, <2>2, CountedKept
<1>7. OperationProgress'
  <2>1. op.doc # Absent /\ op.kind # "delete"
    BY <1>3
  <2>2. /\ op.kind = "insert" => op.id = header.next_id /\ header.next_id < SIZE_MAX
        /\ op.kind = "update" => op.id \in DOMAIN locations
    BY <1>1 DEF OperationProgress
  <2>3. HasRoom(pages[op.page], op.doc)'
    BY <1>1, <1>4 DEF OperationProgress, Placing, HasRoom, Required
  <2>4. Stored(pages[op.page].bytes, PayloadOffset, op.doc)'
    BY <1>1, <1>4 DEF PayloadOffset, Stored
  <2> QED BY <1>1, <1>2, <1>3, <2>1, <2>2, <2>3, <2>4
          DEF OperationProgress, StepsOf, Appending, Placing, Rewriting
<1>8. Contents'
  <2>1. ~Midway /\ ~Midway'
    BY <1>1 DEF Midway
  <2>2. \A p \in DOMAIN pages : SlotsOf(p)' = SlotsOf(p) /\ pages'[p].slots = pages[p].slots
    BY <1>4 DEF SlotsOf
  <2>3. ActiveSlots' = ActiveSlots
    BY <1>4, <2>2 DEF ActiveSlots
  <2>4. \A t \in ActiveSlots : SlotAt(t)' = SlotAt(t)
    BY <2>2, ActiveSlot DEF SlotAt
  <2>5. ASSUME NEW t \in ActiveSlots, NEW d \in Documents, Holds(t, d)
        PROVE  Holds(t, d)'
    <3>1. CASE t[1] # op.page
      BY <1>4, <2>4, <2>5, <3>1, ActiveSlot, ZenonT(30) DEF Holds, Stored
    <3>2. CASE t[1] = op.page
      <4>1. t[2] \in SlotsOf(op.page) /\ SlotAt(t) = pages[op.page].slots[t[2]]
        BY <3>2, ActiveSlot
      <4>2. SlotAt(t).offset \in Nat /\ SlotAt(t).capacity \in Nat
        BY <1>3, <4>1, CountedSlot, SlotFields
      <4>3. Inside(pages[op.page], t[2])
        BY <1>3, <4>1 DEF Formatted, SlotsOf
      <4>4. ASSUME NEW k \in 0 .. Length[d] - 1
            PROVE  pages'[op.page].bytes[SlotAt(t).offset + k]
                     = pages[op.page].bytes[SlotAt(t).offset + k]
        <5>1. Length[d] <= SlotAt(t).capacity
          BY <2>5, <4>1, <4>3 DEF Holds, Inside
        <5>2. /\ pages[op.page].header.free_end <= SlotAt(t).offset
              /\ SlotAt(t).offset + SlotAt(t).capacity <= PAGE_SIZE
          BY <4>1, <4>3 DEF Inside
        <5>3. /\ SlotAt(t).offset + k \in 0 .. PAGE_SIZE - 1
              /\ SlotAt(t).offset + k \notin PayloadOffset .. PayloadOffset + Length[op.doc] - 1
          BY <1>3, <4>2, <5>1, <5>2
        <5> QED BY <1>4, <5>3
      <4> QED BY <2>4, <2>5, <3>2, <4>4 DEF Holds, Stored
    <3> QED BY <3>1, <3>2
  <2> QED BY <1>1, <1>2, <2>1, <2>3, <2>4, <2>5, SteadyContents
<1>9. RecoveredIsPromised' BY <1>1, <1>2 DEF RecoveredIsPromised
<1>10. HeaderWritten' BY <1>1, <1>2, <1>4 DEF HeaderWritten
<1> QED BY <1>5, <1>6, <1>7, <1>8, <1>9, <1>10

\* The slot goes behind the counted ones; nobody reads it yet.
LEMMA PlaceSlotPreserves ==
  ASSUME IInv, PlaceSlot
  PROVE  IInv'
<1> USE DEF IInv
<1>1. /\ up /\ op # Idle /\ op' # Idle /\ op' \in Operations /\ op.pc = "slot"
      /\ op'.pc = "page_header"
      /\ op'.kind = op.kind /\ op'.id = op.id /\ op'.doc = op.doc /\ op'.page = op.page
      /\ aux_promised' = aux_promised
  BY GotoNext DEF Steps, Placing, PlaceSlot
<1>2. UNCHANGED <<disk_header, header, locations, up, aux_suspect, faults, aux_promised>>
  BY <1>1 DEF PlaceSlot, Unfaulted
<1>3. /\ op.doc \in Documents /\ op.page \in DOMAIN pages /\ op.page \in 1 .. header.page_count
      /\ Formatted(pages[op.page]) /\ op.kind \in {"insert", "update"} /\ op.id \in ObjectIds
      /\ PayloadOffset \in Nat /\ PayloadOffset + Length[op.doc] = pages[op.page].header.free_end
      /\ pages[op.page].header.free_end <= PAGE_SIZE
      /\ pages[op.page].header.free_start + SLOT_SIZE <= PayloadOffset
      /\ pages[op.page].header.slot_count \in Nat
  BY <1>1, PlacingFields, OperationFields DEF Placing
<1> DEFINE slots == SubSeq(pages[op.page].slots, 1, NewSlotIndex - 1) \o <<NewSlot>>
           page == [pages[op.page] EXCEPT !.slots = slots]
           n == pages[op.page].header.slot_count
<1>4. NewSlot \in SlotType
  BY <1>3 DEF NewSlot, SlotType
<1>5. NewSlotIndex = n + 1 /\ NewSlotIndex - 1 = n
  BY <1>3 DEF NewSlotIndex
<1>6. slots \in Seq(SlotType) /\ Len(slots) = n + 1 /\ slots[n + 1] = NewSlot
      /\ \A i \in 1 .. n : slots[i] = pages[op.page].slots[i]
  <2>1. pages[op.page].slots \in Seq(SlotType) /\ Len(pages[op.page].slots) \in Nat
    BY <1>3, PageFields
  <2>2. n \in 0 .. Len(pages[op.page].slots)
    BY <1>3, <2>1 DEF Formatted
  <2> HIDE DEF n
  <2> QED BY <1>4, <1>5, <2>1, <2>2, ReplacedTail
<1>7. pages' = [pages EXCEPT ![op.page] = page]
  BY DEF PlaceSlot, NewSlot
<1> HIDE DEF slots
<1>8. page \in PageType /\ page.header = pages[op.page].header /\ page.slots = slots
      /\ page.bytes = pages[op.page].bytes
  <2>1. pages[op.page] \in PageType BY <1>3, PageFields
  <2> QED BY <1>6, <2>1 DEF PageType
<1> HIDE DEF page
<1>9. /\ pages' \in Seq(PageType) /\ Len(pages') = Len(pages) /\ DOMAIN pages' = DOMAIN pages
      /\ pages'[op.page] = page
      /\ \A q \in DOMAIN pages : q # op.page => pages'[q] = pages[q]
  BY <1>3, <1>7, <1>8, ReplacedPage
<1>10. Formatted(page)
  <2>1. Len(slots) = page.header.slot_count + 1
    BY <1>6, <1>8
  <2>2. page.header.free_start + SLOT_SIZE <= page.header.free_end
    <3>1. pages[op.page].header \in PageHeaderType BY <1>3, PageFields
    <3>2. pages[op.page].header.free_start \in Nat /\ pages[op.page].header.free_end \in Nat
      BY <3>1 DEF PageHeaderType
    <3> QED BY <1>3, <1>8, <3>2
  <2>3. \A i \in 1 .. page.header.slot_count : page.slots[i] = pages[op.page].slots[i]
    BY <1>6, <1>8
  <2>4. /\ validate_page_header(page.header)
        /\ \A i \in 1 .. page.header.slot_count : Inside(page, i)
        /\ \A i, j \in 1 .. page.header.slot_count :
             i # j => Apart(page.slots[i], page.slots[j])
    BY <1>3, <1>8, <2>3 DEF Formatted, Inside
  <2>5. page.header.slot_count \in Nat BY <1>3, <1>8
  <2>6. Len(page.slots) \in page.header.slot_count .. page.header.slot_count + 1
    BY <1>8, <2>1, <2>5
  <2> HIDE DEF n
  <2> QED BY <2>2, <2>4, <2>6 DEF Formatted
<1>11. Types' BY <1>1, <1>2, <1>9 DEF Types
<1>12. PagesWellFormed' /\ MemoryMatches'
  <2>1. \A p \in DOMAIN pages :
           /\ pages'[p].header = pages[p].header
           /\ \A i \in SlotsOf(p) : pages'[p].slots[i].id = pages[p].slots[i].id
    BY <1>6, <1>8, <1>9 DEF SlotsOf
  <2>2. ~Unformatted(pages[op.page])
    BY <1>3 DEF Unformatted, Formatted, validate_page_header, ZeroPage
  <2>3. \A p \in DOMAIN pages : /\ Formatted(pages[p]) => Formatted(pages'[p])
                                /\ Unformatted(pages[p]) => Unformatted(pages'[p])
    BY <1>9, <1>10, <2>2
  <2> QED BY <1>1, <1>2, <1>9, <2>1, <2>3, CountedKept
<1>13. OperationProgress'
  <2>1. op.doc # Absent /\ op.kind # "delete"
    BY <1>3
  <2>2. /\ op.kind = "insert" => op.id = header.next_id /\ header.next_id < SIZE_MAX
        /\ op.kind = "update" => op.id \in DOMAIN locations
    BY <1>1 DEF OperationProgress
  <2>3. HasRoom(pages[op.page], op.doc)'
    BY <1>1, <1>8, <1>9 DEF OperationProgress, Placing, HasRoom, Required
  <2>4. PayloadOffset' = PayloadOffset /\ NewSlotIndex' = NewSlotIndex /\ NewSlot' = NewSlot
    BY <1>1, <1>8, <1>9 DEF PayloadOffset, NewSlotIndex, NewSlot
  <2>5. Stored(pages[op.page].bytes, PayloadOffset, op.doc)'
    BY <1>1, <1>8, <1>9, <2>4 DEF OperationProgress, Stored
  <2>6. Len(pages'[op'.page].slots) = NewSlotIndex' /\ pages'[op'.page].slots[NewSlotIndex'] = NewSlot'
    BY <1>1, <1>5, <1>6, <1>8, <1>9, <2>4
  <2> HIDE DEF n
  <2> QED BY <1>1, <1>2, <1>3, <2>1, <2>2, <2>3, <2>5, <2>6
          DEF OperationProgress, StepsOf, Appending, Placing, Rewriting
<1>14. Contents'
  <2>1. ~Midway /\ ~Midway'
    BY <1>1 DEF Midway
  <2>2. \A p \in DOMAIN pages : /\ p \in DOMAIN pages' /\ SlotsOf(p)' = SlotsOf(p)
                                /\ pages'[p].bytes = pages[p].bytes
                                /\ \A i \in SlotsOf(p) : pages'[p].slots[i] = pages[p].slots[i]
    BY <1>6, <1>8, <1>9 DEF SlotsOf
  <2>3. \A p \in DOMAIN pages' \ DOMAIN pages : SlotsOf(p)' = {}
    BY <1>9
  <2> QED BY <1>1, <1>2, <2>1, <2>2, <2>3, QuietPages
<1>15. RecoveredIsPromised' BY <1>1, <1>2 DEF RecoveredIsPromised
<1>16. HeaderWritten' BY <1>1, <1>2, <1>9 DEF HeaderWritten
<1> QED BY <1>11, <1>12, <1>13, <1>14, <1>15, <1>16

\* The index cannot hold more objects than there are IDs.
LEMMA FiniteIndex ==
  ASSUME NEW S \in SUBSET ObjectIds
  PROVE  IsFiniteSet(S) /\ Cardinality(S) \in 0 .. SIZE_MAX
<1>1. IsFiniteSet(0 .. SIZE_MAX - 1) /\ Cardinality(0 .. SIZE_MAX - 1) = SIZE_MAX
  BY FS_Interval
<1>2. IsFiniteSet(S) /\ Cardinality(S) <= SIZE_MAX
  BY <1>1, FS_Subset DEF ObjectIds
<1>3. Cardinality(S) \in Nat
  BY <1>2, FS_CardinalityType
<1> QED BY <1>2, <1>3

\* n slots take at least n units.
LEMMA SlotArray ==
  ASSUME NEW n \in Nat
  PROVE  n * SLOT_SIZE \in Nat /\ n <= n * SLOT_SIZE /\ (n + 1) * SLOT_SIZE = n * SLOT_SIZE + SLOT_SIZE
BY Z3

\* A step that leaves the slots of an ID alone leaves its content as it is.
LEMMA SettledKept ==
  ASSUME NEW id, NEW d, Settled(id, d),
         id \in DOMAIN locations' <=> id \in DOMAIN locations,
         id \in DOMAIN locations => locations'[id] = locations[id],
         \A t \in ActiveSlots : SlotAt(t).id = id =>
           t \in ActiveSlots' /\ SlotAt(t)'.id = id /\ (d # Absent /\ Holds(t, d) => Holds(t, d)'),
         \A t \in ActiveSlots' : SlotAt(t)'.id = id => t \in ActiveSlots /\ SlotAt(t).id = id,
         id \in DOMAIN locations => SlotAt(locations[id]).id = id
  PROVE  Settled(id, d)'
<1>1. CASE d = Absent
  BY <1>1 DEF Settled
<1>2. CASE d # Absent
  <2>1. /\ id \in DOMAIN locations /\ locations[id] \in ActiveSlots /\ Holds(locations[id], d)
        /\ \A t \in ActiveSlots : SlotAt(t).id = id => t = locations[id]
    BY <1>2 DEF Settled, Sole
  <2>2. id \in DOMAIN locations' /\ locations'[id] = locations[id]
    BY <2>1
  <2>3. locations'[id] \in ActiveSlots' /\ Holds(locations[id], d)'
    BY <1>2, <2>1, <2>2
  <2>4. \A t \in ActiveSlots' : SlotAt(t)'.id = id => t = locations'[id]
    BY <2>1, <2>2
  <2> QED BY <1>2, <2>2, <2>3, <2>4 DEF Settled, Sole
<1> QED BY <1>1, <1>2

\* The IDs of the index are below next_id, and their slots are written slots of it.
LEMMA IndexedSlots ==
  ASSUME IInv, up, NEW id \in DOMAIN locations
  PROVE  /\ locations[id] = <<locations[id][1], locations[id][2]>>
         /\ locations[id][1] \in DOMAIN pages /\ locations[id][1] \in 1 .. header.page_count
         /\ locations[id][2] \in SlotsOf(locations[id][1])
         /\ Formatted(pages[locations[id][1]])
         /\ SlotAt(locations[id]).id = id /\ id < header.next_id /\ id \in ObjectIds
<1> USE DEF IInv
<1>1. IsCounted(locations[id]) /\ SlotAt(locations[id]).id = id
  BY DEF MemoryMatches
<1>2. locations[id] \in (1 .. header.page_count) \X Nat /\ locations[id][2] \in SlotsOf(locations[id][1])
  BY <1>1 DEF IsCounted
<1>3. locations[id][1] \in DOMAIN pages
  BY <1>2, HeaderFields DEF MemoryMatches
<1>4. Formatted(pages[locations[id][1]])
  BY <1>2, <1>3, HeaderFields DEF MemoryMatches
<1>5. id < header.next_id
  BY <1>1, <1>2, <1>3 DEF MemoryMatches, SlotAt
<1>6. id \in ObjectIds BY DEF Types
<1> QED BY <1>1, <1>2, <1>3, <1>4, <1>5, <1>6

\* Counting the slot that was written keeps the page well formed.
LEMMA CountedPage ==
  ASSUME IInv, op.pc = "page_header",
         NEW page, page = [pages[op.page] EXCEPT !.header = HeaderAfterPlacing(@)]
  PROVE  /\ page \in PageType /\ Formatted(page)
         /\ page.header.slot_count = NewSlotIndex /\ NewSlotIndex \in Nat \ {0}
         /\ NewSlotIndex = pages[op.page].header.slot_count + 1
         /\ page.slots = pages[op.page].slots /\ page.bytes = pages[op.page].bytes
         /\ page.slots[NewSlotIndex] = NewSlot /\ Len(page.slots) = NewSlotIndex
<1> USE DEF IInv
<1>1. /\ op # Idle /\ op.doc \in Documents /\ op.page \in DOMAIN pages
      /\ Formatted(pages[op.page]) /\ op.kind \in {"insert", "update"}
      /\ PayloadOffset \in Nat /\ PayloadOffset + Length[op.doc] = pages[op.page].header.free_end
      /\ pages[op.page].header.free_end <= PAGE_SIZE
      /\ pages[op.page].header.free_start + SLOT_SIZE <= PayloadOffset
      /\ pages[op.page].header.slot_count \in Nat
      /\ pages[op.page].header \in PageHeaderType
  BY PlacingFields DEF Placing
<1> DEFINE h == pages[op.page].header
           n == h.slot_count
<1>2. NewSlotIndex = n + 1 /\ n \in Nat
  BY <1>1 DEF NewSlotIndex
<1>3. Len(pages[op.page].slots) = n + 1 /\ pages[op.page].slots[n + 1] = NewSlot
  BY <1>1, <1>2 DEF OperationProgress
<1>4. /\ validate_page_header(h)
      /\ \A i \in 1 .. n : Inside(pages[op.page], i)
      /\ \A i, j \in 1 .. n : i # j => Apart(pages[op.page].slots[i], pages[op.page].slots[j])
  BY <1>1 DEF Formatted
<1>5. h.free_start = PAGE_HEADER_SIZE + n * SLOT_SIZE /\ h.magic
  BY <1>4 DEF validate_page_header
<1>6. n * SLOT_SIZE \in Nat /\ n + 1 <= (n + 1) * SLOT_SIZE
      /\ (n + 1) * SLOT_SIZE = n * SLOT_SIZE + SLOT_SIZE
  BY <1>2, SlotArray
<1> HIDE DEF n
<1>7. n + 1 <= PAGE_SIZE /\ h.free_start + SLOT_SIZE = PAGE_HEADER_SIZE + (n + 1) * SLOT_SIZE
  BY <1>1, <1>2, <1>5, <1>6
<1>8. HeaderAfterPlacing(h) = [magic |-> h.magic, slot_count |-> n + 1,
                               free_start |-> h.free_start + SLOT_SIZE, free_end |-> PayloadOffset]
  <2>1. HeaderAfterPlacing(h) = [h EXCEPT !.slot_count = n + 1,
                                    !.free_start = h.free_start + SLOT_SIZE,
                                    !.free_end = PayloadOffset]
    BY DEF HeaderAfterPlacing, n
  <2>2. h \in PageHeaderType BY <1>1
  <2> HIDE DEF h
  <2> QED BY <2>1, <2>2 DEF PageHeaderType
<1>9. HeaderAfterPlacing(h) \in PageHeaderType
  <2>1. h.free_start \in Nat /\ h.magic \in BOOLEAN BY <1>1 DEF PageHeaderType
  <2>2. h.free_start + SLOT_SIZE \in 0 .. PAGE_SIZE /\ PayloadOffset \in 0 .. PAGE_SIZE
    BY <1>1, <2>1
  <2> HIDE DEF h
  <2> QED BY <1>2, <1>7, <1>8, <2>1, <2>2 DEF PageHeaderType
<1>10. /\ page \in PageType /\ page.header = HeaderAfterPlacing(h)
       /\ page.slots = pages[op.page].slots /\ page.bytes = pages[op.page].bytes
  <2>1. pages[op.page] \in PageType BY <1>1, PageFields
  <2> QED BY <1>9, <2>1 DEF PageType
<1>11. NewSlot.offset = PayloadOffset /\ NewSlot.length = Length[op.doc]
       /\ NewSlot.capacity = Length[op.doc]
  BY DEF NewSlot
<1>12. \A i \in 1 .. n : /\ pages[op.page].slots[i].offset \in Nat
                         /\ pages[op.page].slots[i].capacity \in Nat
  <2> SUFFICES ASSUME NEW i \in 1 .. n
               PROVE  /\ pages[op.page].slots[i].offset \in Nat
                      /\ pages[op.page].slots[i].capacity \in Nat
    OBVIOUS
  <2>1. i \in 1 .. Len(pages[op.page].slots) BY <1>2, <1>3
  <2> QED BY <1>1, <2>1, SlotFields
<1>13. Formatted(page)
  <2>1. page.header.slot_count = n + 1 /\ page.header.free_end = PayloadOffset
        /\ page.header.free_start = h.free_start + SLOT_SIZE /\ page.header.magic
    BY <1>5, <1>8, <1>10
  <2>2. validate_page_header(page.header)
    BY <1>1, <1>7, <2>1 DEF validate_page_header
  <2>3. ASSUME NEW i \in 1 .. n + 1 PROVE Inside(page, i)
    <3>1. CASE i = n + 1
      <4>1. page.slots[i] = NewSlot BY <1>3, <1>10, <3>1
      <4>2. PayloadOffset <= PayloadOffset /\ Length[op.doc] <= Length[op.doc]
            /\ PayloadOffset + Length[op.doc] <= PAGE_SIZE
        BY <1>1
      <4> QED BY <1>11, <2>1, <4>1, <4>2 DEF Inside
    <3>2. CASE i # n + 1
      <4>1. i \in 1 .. n BY <1>2, <3>2
      <4>2. Inside(pages[op.page], i) BY <1>4, <4>1
      <4> QED BY <1>1, <1>10, <1>12, <2>1, <4>1, <4>2 DEF Inside
    <3> QED BY <3>1, <3>2
  <2>4. ASSUME NEW i \in 1 .. n + 1, NEW j \in 1 .. n + 1, i # j
        PROVE  Apart(page.slots[i], page.slots[j])
    <3>1. CASE i \in 1 .. n /\ j \in 1 .. n
      BY <1>4, <1>10, <2>4, <3>1
    <3>2. CASE i = n + 1
      <4>1. j \in 1 .. n BY <1>2, <2>4, <3>2
      <4>2. h.free_end <= pages[op.page].slots[j].offset BY <1>4, <4>1 DEF Inside
      <4> QED BY <1>1, <1>3, <1>10, <1>11, <1>12, <3>2, <4>1, <4>2 DEF Apart
    <3>3. CASE j = n + 1
      <4>1. i \in 1 .. n BY <1>2, <2>4, <3>3
      <4>2. h.free_end <= pages[op.page].slots[i].offset BY <1>4, <4>1 DEF Inside
      <4> QED BY <1>1, <1>3, <1>10, <1>11, <1>12, <3>3, <4>1, <4>2 DEF Apart
    <3> QED BY <1>2, <3>1, <3>2, <3>3
  <2>5. Len(page.slots) = n + 1 BY <1>3, <1>10
  <2>6. /\ Len(page.slots) \in page.header.slot_count .. page.header.slot_count + 1
        /\ ~(Len(page.slots) > page.header.slot_count)
    BY <1>2, <2>1, <2>5
  <2>7. /\ \A i \in 1 .. page.header.slot_count : Inside(page, i)
        /\ \A i, j \in 1 .. page.header.slot_count :
             i # j => Apart(page.slots[i], page.slots[j])
    BY <2>1, <2>3, <2>4
  <2> QED BY <2>2, <2>6, <2>7 DEF Formatted
<1>14. page.header.slot_count = n + 1 BY <1>8, <1>10
<1>15. NewSlotIndex = pages[op.page].header.slot_count + 1 BY DEF NewSlotIndex
<1> QED BY <1>2, <1>3, <1>10, <1>13, <1>14, <1>15

\* The page header counts the placed slot: the object of an insert appears, that of an
\* update has two slots.
LEMMA PlacePageHeaderPreserves ==
  ASSUME IInv, PlacePageHeader
  PROVE  IInv'
<1> USE DEF IInv
<1> DEFINE page == [pages[op.page] EXCEPT !.header = HeaderAfterPlacing(@)]
           new == <<op.page, NewSlotIndex>>
<1>1. /\ up /\ op # Idle /\ op' # Idle /\ op' \in Operations /\ op.pc = "page_header"
      /\ op'.pc = IF op.kind = "insert" THEN "file_header" ELSE "mark_deleted"
      /\ op'.kind = op.kind /\ op'.id = op.id /\ op'.doc = op.doc /\ op'.page = op.page
      /\ aux_promised' = aux_promised
  <2>1. op.pc = "page_header" BY DEF PlacePageHeader
  <2>2. CASE op.kind = "insert"
    <3>1. Goto("file_header") BY <2>2 DEF PlacePageHeader
    <3> QED BY <2>1, <2>2, <3>1, GotoNext DEF Steps, Placing
  <2>3. CASE op.kind # "insert"
    <3>1. Goto("mark_deleted") BY <2>3 DEF PlacePageHeader
    <3> QED BY <2>1, <2>3, <3>1, GotoNext DEF Steps, Placing
  <2> QED BY <2>2, <2>3
<1>2. UNCHANGED <<disk_header, up, aux_suspect, faults, aux_promised>>
  BY <1>1 DEF PlacePageHeader, Unfaulted
<1>3. /\ op.doc \in Documents /\ op.page \in DOMAIN pages /\ op.page \in 1 .. header.page_count
      /\ op.kind \in {"insert", "update"} /\ op.id \in ObjectIds /\ PayloadOffset \in Nat
      /\ pages[op.page].header.slot_count \in Nat
  BY <1>1, PlacingFields, OperationFields DEF Placing
<1>4. /\ page \in PageType /\ Formatted(page)
      /\ page.header.slot_count = NewSlotIndex /\ NewSlotIndex \in Nat \ {0}
      /\ NewSlotIndex = pages[op.page].header.slot_count + 1
      /\ page.slots = pages[op.page].slots /\ page.bytes = pages[op.page].bytes
      /\ page.slots[NewSlotIndex] = NewSlot /\ Len(page.slots) = NewSlotIndex
  BY <1>1, CountedPage
<1>5. pages' = [pages EXCEPT ![op.page] = page]
  BY DEF PlacePageHeader
<1> HIDE DEF page
<1>6. /\ pages' \in Seq(PageType) /\ Len(pages') = Len(pages) /\ DOMAIN pages' = DOMAIN pages
      /\ pages'[op.page] = page
      /\ \A q \in DOMAIN pages : q # op.page => pages'[q] = pages[q]
  BY <1>3, <1>4, <1>5, ReplacedPage
<1>7. /\ \A p \in DOMAIN pages : pages'[p].slots = pages[p].slots /\ pages'[p].bytes = pages[p].bytes
      /\ \A p \in DOMAIN pages : p # op.page => SlotsOf(p)' = SlotsOf(p)
      /\ SlotsOf(op.page) = 1 .. NewSlotIndex - 1
      /\ \A i : i \in 1 .. pages'[op.page].header.slot_count <=> i \in SlotsOf(op.page) \cup {NewSlotIndex}
  <2>1. pages'[op.page].header.slot_count = NewSlotIndex BY <1>4, <1>6
  <2>2. pages[op.page].header.slot_count = NewSlotIndex - 1 BY <1>3, <1>4
  <2>3. \A i : i \in 1 .. NewSlotIndex <=> i \in (1 .. NewSlotIndex - 1) \cup {NewSlotIndex}
    BY <1>4
  <2>4. SlotsOf(op.page) = 1 .. NewSlotIndex - 1 BY <2>2 DEF SlotsOf
  <2> QED BY <1>4, <1>6, <2>1, <2>3, <2>4 DEF SlotsOf
<1>8. /\ NewSlotIndex \notin SlotsOf(op.page)
      /\ pages'[op.page].slots[NewSlotIndex] = NewSlot /\ NewSlot.id = op.id /\ NewSlot.active
      /\ NewSlot.offset = PayloadOffset /\ NewSlot.length = Length[op.doc]
  BY <1>4, <1>6, <1>7, SMTT(30) DEF NewSlot
<1>9. /\ header.next_id <= header'.next_id /\ op.id < header'.next_id
      /\ header'.page_count = header.page_count /\ header' \in FileHeaderType
      /\ DOMAIN locations' \subseteq ObjectIds
      /\ header'.live_count = Cardinality(DOMAIN locations')
      /\ \A id \in DOMAIN locations' : id \in DOMAIN locations \/ (op.kind = "insert" /\ id = op.id)
      /\ \A id \in DOMAIN locations : id \in DOMAIN locations'
      /\ op.id \in DOMAIN locations'
      /\ \A id \in DOMAIN locations : locations'[id] = locations[id]
      /\ op.kind = "insert" => op.id \notin DOMAIN locations /\ locations'[op.id] = new
      /\ op.kind = "update" => op.id \in DOMAIN locations /\ UNCHANGED <<locations, header>>
  <2>0. /\ header.live_count = Cardinality(DOMAIN locations) /\ header \in FileHeaderType
        /\ DOMAIN locations \subseteq ObjectIds
    BY <1>1 DEF MemoryMatches, Types
  <2>1. CASE op.kind = "insert"
    <3>1. op.id = header.next_id /\ header.next_id < SIZE_MAX
      BY <1>1, <2>1 DEF OperationProgress
    <3>2. op.id \notin DOMAIN locations
      BY <1>1, <3>1, IndexedSlots, HeaderFields
    <3>3. /\ DOMAIN locations' = DOMAIN locations \cup {op.id} /\ locations'[op.id] = new
          /\ \A id \in DOMAIN locations : locations'[id] = locations[id]
      BY <2>1, <3>2 DEF PlacePageHeader
    <3>4. header' = [header EXCEPT !.next_id = header.next_id + 1, !.live_count = header.live_count + 1]
      BY <2>1 DEF PlacePageHeader
    <3>5. DOMAIN locations' \subseteq ObjectIds
      BY <1>3, <2>0, <3>3
    <3>6. /\ IsFiniteSet(DOMAIN locations) /\ Cardinality(DOMAIN locations') \in 0 .. SIZE_MAX
      BY <2>0, <3>5, FiniteIndex
    <3>7. Cardinality(DOMAIN locations') = header.live_count + 1
      <4>1. Cardinality(DOMAIN locations \cup {op.id}) = Cardinality(DOMAIN locations) + 1
        BY <3>2, <3>6, FS_AddElement
      <4> QED BY <2>0, <3>3, <4>1
    <3>8. header' \in FileHeaderType /\ header'.next_id = header.next_id + 1
          /\ header'.page_count = header.page_count /\ header'.live_count = header.live_count + 1
      <4>1. header.live_count + 1 \in 0 .. SIZE_MAX BY <3>6, <3>7
      <4>2. header.next_id + 1 \in 0 .. SIZE_MAX BY <3>1, HeaderFields
      <4> QED BY <2>0, <3>4, <4>1, <4>2 DEF FileHeaderType
    <3>9. header.next_id <= header'.next_id /\ op.id < header'.next_id
      BY <3>1, <3>8, HeaderFields
    <3> QED BY <2>1, <3>2, <3>3, <3>5, <3>7, <3>8, <3>9
  <2>2. CASE op.kind = "update"
    <3>1. op.id \in DOMAIN locations
      BY <1>1, <2>2 DEF OperationProgress
    <3>2. UNCHANGED <<locations, header>>
      BY <2>2 DEF PlacePageHeader
    <3>3. op.id < header.next_id
      BY <1>1, <3>1, IndexedSlots
    <3> QED BY <2>0, <2>2, <3>1, <3>2, <3>3, HeaderFields
  <2> QED BY <1>3, <2>1, <2>2
<1>10. Types'
  <2>1. locations' = [id \in DOMAIN locations' |-> locations'[id]]
    <3>1. CASE op.kind = "insert" BY <3>1 DEF PlacePageHeader
    <3>2. CASE op.kind = "update" BY <1>9, <3>2 DEF Types
    <3> QED BY <1>3, <3>1, <3>2
  <2> QED BY <1>1, <1>2, <1>6, <1>9, <2>1 DEF Types
<1>11. PagesWellFormed' BY <1>4, <1>6 DEF PagesWellFormed
<1>12. \A id \in DOMAIN locations :
         /\ locations[id][1] \in DOMAIN pages /\ locations[id][2] \in SlotsOf(locations[id][1])'
         /\ SlotAt(locations[id])' = SlotAt(locations[id]) /\ locations[id] # new
  <2> SUFFICES ASSUME NEW id \in DOMAIN locations
               PROVE  /\ locations[id][1] \in DOMAIN pages
                      /\ locations[id][2] \in SlotsOf(locations[id][1])'
                      /\ SlotAt(locations[id])' = SlotAt(locations[id]) /\ locations[id] # new
    BY <1>9
  <2>1. /\ locations[id][1] \in DOMAIN pages /\ locations[id][2] \in SlotsOf(locations[id][1])
    BY <1>1, IndexedSlots
  <2>2. locations[id] # new BY <1>8, <2>1
  <2>3. locations'[id] = locations[id] BY <1>9
  <2> QED BY <1>6, <1>7, <2>1, <2>2, <2>3 DEF SlotAt, SlotsOf
<1>13. MemoryMatches'
  <2>1. \A p \in DOMAIN pages' :
          IF p <= header'.page_count THEN Formatted(pages'[p]) ELSE Unformatted(pages'[p])
    BY <1>1, <1>3, <1>4, <1>6, <1>9 DEF MemoryMatches
  <2>2. \A p \in DOMAIN pages' : \A i \in SlotsOf(p)' : pages'[p].slots[i].id < header'.next_id
    <3> SUFFICES ASSUME NEW p \in DOMAIN pages, NEW i \in SlotsOf(p)'
                 PROVE  pages'[p].slots[i].id < header'.next_id
      BY <1>6
    <3>1. CASE i \in SlotsOf(p)
      <4>1. pages'[p].slots[i].id < header.next_id BY <1>1, <1>7, <3>1 DEF MemoryMatches
      <4>2. Formatted(pages[p]) \/ Unformatted(pages[p]) BY DEF PagesWellFormed
      <4>3. pages[p].slots[i].id \in ObjectIds BY <3>1, <4>2, CountedSlot, SlotFields
      <4>4. header'.next_id \in Nat BY <1>9 DEF FileHeaderType
      <4> QED BY <1>7, <1>9, <4>1, <4>3, <4>4, HeaderFields DEF ObjectIds
    <3>2. CASE i \notin SlotsOf(p)
      <4>1. p = op.page BY <1>7, <3>2
      <4>2. i = NewSlotIndex BY <1>7, <3>2, <4>1 DEF SlotsOf
      <4> QED BY <1>8, <1>9, <4>1, <4>2
    <3> QED BY <3>1, <3>2
  <2>3. \A id \in DOMAIN locations' : IsCounted(locations[id])' /\ SlotAt(locations[id])'.id = id
    <3> SUFFICES ASSUME NEW id \in DOMAIN locations'
                 PROVE  IsCounted(locations[id])' /\ SlotAt(locations[id])'.id = id
      OBVIOUS
    <3>1. CASE id \in DOMAIN locations
      <4>1. /\ SlotAt(locations[id]).id = id /\ locations[id][1] \in 1 .. header.page_count
            /\ locations[id] = <<locations[id][1], locations[id][2]>>
            /\ locations[id][2] \in SlotsOf(locations[id][1])
        BY <1>1, <3>1, IndexedSlots
      <4>2. locations[id][2] \in Nat BY <4>1 DEF SlotsOf
      <4> QED BY <1>9, <1>12, <3>1, <4>1, <4>2 DEF IsCounted, SlotsOf
    <3>2. CASE id \notin DOMAIN locations
      <4>1. id = op.id /\ locations'[id] = new BY <1>9, <3>2
      <4>2. NewSlotIndex \in SlotsOf(op.page)' BY <1>1, <1>7 DEF SlotsOf
      <4>3. SlotAt(locations[id])' = NewSlot BY <1>8, <4>1 DEF SlotAt
      <4>4. IsCounted(locations[id])' BY <1>1, <1>3, <1>4, <1>9, <4>1, <4>2 DEF IsCounted, SlotsOf
      <4> QED BY <1>8, <4>1, <4>3, <4>4
    <3> QED BY <3>1, <3>2
  <2> QED BY <1>1, <1>2, <1>6, <1>9, <2>1, <2>2, <2>3 DEF MemoryMatches
<1>14. <<op.page, pages[op.page].header.slot_count>>' = new
  BY <1>1, <1>4, <1>6
<1>15. OperationProgress'
  <2>1. op.doc # Absent /\ op.kind # "delete"
    BY <1>3
  <2>2. op.kind = "update" => (LET s == <<op.page, pages[op.page].header.slot_count>>
                              IN  IsCounted(s) /\ SlotAt(s).id = op.id /\ s # locations[op.id])'
    <3> SUFFICES ASSUME op.kind = "update"
                 PROVE  (LET s == <<op.page, pages[op.page].header.slot_count>>
                         IN  IsCounted(s) /\ SlotAt(s).id = op.id /\ s # locations[op.id])'
      OBVIOUS
    <3>1. NewSlotIndex \in 1 .. pages'[op.page].header.slot_count BY <1>7
    <3>2. op.id \in DOMAIN locations BY <1>9
    <3>3. new[1] = op.page /\ new[2] = NewSlotIndex /\ new # locations[op.id]
          /\ new \in (1 .. header.page_count) \X Nat
      BY <1>3, <1>4, <1>12, <3>2
    <3>4. UNCHANGED <<locations, header>> BY <1>9
    <3> HIDE DEF new
    <3>5. \A s : s = new => IsCounted(s)' /\ SlotAt(s)'.id = op.id
      BY <1>8, <3>1, <3>3, <3>4 DEF IsCounted, SlotsOf, SlotAt
    <3> QED BY <1>1, <1>14, <3>3, <3>4, <3>5
  <2> QED BY <1>1, <1>3, <1>9, <2>1, <2>2, SMTT(30)
          DEF OperationProgress, StepsOf, Appending, Placing, Rewriting, IsCounted, SlotsOf, SlotAt
<1>16. /\ \A t : t \in ActiveSlots' <=> t \in ActiveSlots \cup {new}
       /\ \A t \in ActiveSlots : /\ SlotAt(t)' = SlotAt(t)
                                 /\ \A d \in Documents : Holds(t, d) => Holds(t, d)'
       /\ \A t : t = new => SlotAt(t)' = NewSlot
  <2>1. ASSUME NEW t \in ActiveSlots
        PROVE  t \in ActiveSlots' /\ SlotAt(t)' = SlotAt(t)
               /\ pages'[t[1]].bytes = pages[t[1]].bytes
    <3>1. t[1] \in DOMAIN pages /\ t[2] \in SlotsOf(t[1]) /\ t = <<t[1], t[2]>>
          /\ pages[t[1]].slots[t[2]].active
      BY ActiveSlot DEF SlotAt
    <3>2. t[2] \in 1 .. pages'[t[1]].header.slot_count BY <1>6, <1>7, <3>1 DEF SlotsOf
    <3> QED BY <1>6, <1>7, <3>1, <3>2 DEF ActiveSlots, SlotAt, SlotsOf
  <2>2. ASSUME NEW t \in ActiveSlots', t # new
        PROVE  t \in ActiveSlots
    <3>1. /\ t[1] \in DOMAIN pages /\ t[2] \in 1 .. pages'[t[1]].header.slot_count
          /\ t = <<t[1], t[2]>> /\ pages'[t[1]].slots[t[2]].active
      BY <1>6 DEF ActiveSlots, SlotsOf
    <3>2. t[2] \in SlotsOf(t[1])
      <4>1. CASE t[1] = op.page
        <5>1. t[2] # NewSlotIndex BY <2>2, <3>1, <4>1
        <5>2. t[2] \in 1 .. pages'[op.page].header.slot_count BY <3>1, <4>1
        <5> QED BY <1>7, <4>1, <5>1, <5>2
      <4>2. CASE t[1] # op.page
        BY <1>7, <3>1, <4>2 DEF SlotsOf
      <4> QED BY <4>1, <4>2
    <3>3. pages[t[1]].slots[t[2]].active BY <1>7, <3>1
    <3>4. <<t[1], t[2]>> \in ActiveSlots BY <3>1, <3>2, <3>3, ActiveSlot
    <3> QED BY <3>1, <3>4
  <2>3. new \in ActiveSlots'
    <3>1. NewSlotIndex \in 1 .. pages'[op.page].header.slot_count BY <1>7
    <3> QED BY <1>3, <1>6, <1>8, <3>1 DEF ActiveSlots, SlotsOf
  <2>4. \A t : t = new => SlotAt(t)' = NewSlot BY <1>8 DEF SlotAt
  <2> QED BY <2>1, <2>2, <2>3, <2>4 DEF Holds, Stored
<1>17. ASSUME NEW id \in ObjectIds, NEW d \in Documents \cup {Absent}, Settled(id, d), id # op.id
       PROVE  Settled(id, d)'
  <2>1. ASSUME NEW t \in ActiveSlots', SlotAt(t)'.id = id
        PROVE  t \in ActiveSlots /\ SlotAt(t).id = id
    BY <1>8, <1>16, <1>17, <2>1
  <2>2. \A t \in ActiveSlots : /\ t \in ActiveSlots' /\ SlotAt(t)' = SlotAt(t)
                               /\ d # Absent /\ Holds(t, d) => Holds(t, d)'
    BY <1>16
  <2>3. /\ id \in DOMAIN locations' <=> id \in DOMAIN locations
        /\ id \in DOMAIN locations => /\ locations'[id] = locations[id]
                                      /\ SlotAt(locations[id]).id = id
    BY <1>1, <1>9, <1>17, IndexedSlots
  <2> HIDE DEF IInv, new
  <2> QED BY <1>17, <2>1, <2>2, <2>3, SettledKept
<1>18. \A t : t = new => Holds(t, op.doc)'
  <2>1. \A t : t = new => SlotAt(t)' = NewSlot /\ t[1] = op.page
    BY <1>16
  <2>2. Stored(pages'[op.page].bytes, PayloadOffset, op.doc)
    BY <1>1, <1>4, <1>6 DEF OperationProgress
  <2> SUFFICES ASSUME NEW t, t = new, NEW d, d = op.doc
               PROVE  Holds(t, d)'
    BY <1>1
  <2> QED BY <1>8, <2>1, <2>2 DEF Holds
<1>19. Contents'
  <2> SUFFICES ASSUME NEW id \in ObjectIds, id \notin aux_suspect
               PROVE  ContentOf(id)'
    BY <1>2 DEF Contents
  <2> DEFINE d == aux_promised[id]
  <2>1. Settled(id, d) /\ d \in Documents \cup {Absent}
    BY <1>1 DEF Contents, ContentOf, Midway, Types
  <2>2. d' = d BY <1>2
  <2>3. CASE id # op.id
    <3>1. Settled(id, aux_promised[id])'
      BY <1>2, <1>17, <2>1, <2>3
    <3> QED BY <1>1, <2>3, <3>1 DEF ContentOf
  <2>4. CASE id = op.id /\ op.kind = "insert"
    <3>1. locations'[id] = new /\ id \in DOMAIN locations'
      BY <1>9, <2>4
    <3>2. locations'[id] \in ActiveSlots' BY <1>16, <3>1
    <3>3. Holds(locations[id], op.doc)' BY <1>1, <1>18, <3>1
    <3>4. \A t \in ActiveSlots' : SlotAt(t)'.id = id => t = locations'[id]
      <4> SUFFICES ASSUME NEW t \in ActiveSlots', SlotAt(t)'.id = id
                   PROVE  t = new
        BY <3>1
      <4>1. SUFFICES ASSUME t \in ActiveSlots PROVE FALSE
        BY <1>16
      <4>2. SlotAt(t).id = op.id /\ op.id = header.next_id
        BY <1>1, <1>16, <2>4, <4>1 DEF OperationProgress
      <4>3. SlotAt(t).id < header.next_id
        BY <1>1, <4>1, ActiveSlot DEF MemoryMatches
      <4> QED BY <4>2, <4>3, HeaderFields
    <3>5. Settled(id, op.doc)'
      BY <1>1, <1>3, <3>1, <3>2, <3>3, <3>4 DEF Settled, Sole
    <3> QED BY <1>1, <2>4, <3>5 DEF ContentOf, Midway
  <2>5. CASE id = op.id /\ op.kind = "update"
    <3>1. id \in DOMAIN locations /\ UNCHANGED locations
      BY <1>9, <2>5
    <3>2. locations[id] \in ActiveSlots /\ Sole(id, locations[id])
      BY <2>1, <3>1, ActiveSlot DEF Settled, Sole
    <3>3. \A t \in ActiveSlots' : SlotAt(t)'.id = id => t \in {locations[id], new}
      BY <1>16, <3>2 DEF Sole
    <3>4. \A s : s = new => s \in ActiveSlots' /\ Holds(s, op.doc)'
      BY <1>16, <1>18
    <3>5. Relocating(id)'
      BY <1>14, <1>16, <3>1, <3>2, <3>3, <3>4 DEF Relocating
    <3> QED BY <1>1, <2>5, <3>5 DEF ContentOf, Midway
  <2> QED BY <1>3, <2>3, <2>4, <2>5
<1>20. HeaderWritten' BY <1>1, <1>2, <1>3, <1>6, <1>9 DEF HeaderWritten
<1>21. RecoveredIsPromised' BY <1>1, <1>2 DEF RecoveredIsPromised
<1> QED BY <1>10, <1>11, <1>13, <1>15, <1>19, <1>20, <1>21

-----------------------------------------------------------------------------
(* Changing a slot *)

\* A step that replaces slot i of page p and changes nothing else on disk.
ReplacesSlot(p, i, slot) ==
  /\ pages' \in Seq(PageType) /\ Len(pages') = Len(pages) /\ DOMAIN pages' = DOMAIN pages
  /\ \A q \in DOMAIN pages : pages'[q].header = pages[q].header /\ pages'[q].bytes = pages[q].bytes
  /\ \A q \in DOMAIN pages : Len(pages'[q].slots) = Len(pages[q].slots)
  /\ \A q \in DOMAIN pages : \A j \in 1 .. Len(pages[q].slots) :
       <<q, j>> # <<p, i>> => pages'[q].slots[j] = pages[q].slots[j]
  /\ \A q \in DOMAIN pages : q # p => pages'[q] = pages[q]
  /\ pages'[p].slots[i] = slot

\* A slot written over a written one keeps the types and the other slots.
LEMMA SlotReplaced ==
  ASSUME Types, NEW p \in DOMAIN pages, NEW i \in 1 .. Len(pages[p].slots), NEW slot \in SlotType,
         pages' = [pages EXCEPT ![p].slots[i] = slot]
  PROVE  ReplacesSlot(p, i, slot)
<1> DEFINE slots == [pages[p].slots EXCEPT ![i] = slot]
           page == [pages[p] EXCEPT !.slots = slots]
<1>1. pages[p] \in PageType /\ pages[p].slots \in Seq(SlotType) /\ Len(pages[p].slots) \in Nat
  BY PageFields
<1>2. /\ slots \in Seq(SlotType) /\ Len(slots) = Len(pages[p].slots) /\ slots[i] = slot
      /\ \A j \in 1 .. Len(pages[p].slots) : j # i => slots[j] = pages[p].slots[j]
  BY <1>1
<1>3. pages' = [pages EXCEPT ![p] = page]
  OBVIOUS
<1> HIDE DEF slots
<1>4. page \in PageType /\ page.header = pages[p].header /\ page.slots = slots
      /\ page.bytes = pages[p].bytes
  BY <1>1, <1>2 DEF PageType
<1> HIDE DEF page
<1>5. /\ pages' \in Seq(PageType) /\ Len(pages') = Len(pages) /\ DOMAIN pages' = DOMAIN pages
      /\ pages'[p] = page /\ \A q \in DOMAIN pages : q # p => pages'[q] = pages[q]
  BY <1>3, <1>4, ReplacedPage
<1>6. \A q \in DOMAIN pages : \A j \in 1 .. Len(pages[q].slots) :
        <<q, j>> # <<p, i>> => pages'[q].slots[j] = pages[q].slots[j]
  BY <1>2, <1>4, <1>5
<1> QED BY <1>2, <1>4, <1>5, <1>6 DEF ReplacesSlot

\* What stays of the pages and of the index when slots keep their IDs and their places.
LEMMA SlotsKept ==
  ASSUME IInv, up, NEW p \in DOMAIN pages, NEW i \in SlotsOf(p), NEW slot, ReplacesSlot(p, i, slot),
         slot.id = pages[p].slots[i].id, slot.offset = pages[p].slots[i].offset,
         slot.capacity = pages[p].slots[i].capacity, slot.length <= slot.capacity
  PROVE  /\ PagesWellFormed'
         /\ \A q \in DOMAIN pages : SlotsOf(q)' = SlotsOf(q)
         /\ \A q \in DOMAIN pages' : IF q <= header.page_count THEN Formatted(pages'[q])
                                                               ELSE Unformatted(pages'[q])
         /\ \A q \in DOMAIN pages' : \A j \in SlotsOf(q)' : pages'[q].slots[j].id < header.next_id
         /\ \A q \in DOMAIN pages : \A j \in SlotsOf(q) : pages'[q].slots[j].id = pages[q].slots[j].id
<1> USE DEF IInv, ReplacesSlot
<1>1. \A q \in DOMAIN pages : SlotsOf(q)' = SlotsOf(q)
  BY DEF SlotsOf
<1>2. /\ Formatted(pages[p]) /\ i \in 1 .. Len(pages[p].slots)
  BY CountedSlot DEF PagesWellFormed
<1>3. \A j \in 1 .. Len(pages[p].slots) :
        /\ pages'[p].slots[j].id = pages[p].slots[j].id
        /\ pages'[p].slots[j].offset = pages[p].slots[j].offset
        /\ pages'[p].slots[j].capacity = pages[p].slots[j].capacity
        /\ pages'[p].slots[j].length <= pages'[p].slots[j].capacity \/ pages'[p].slots[j] = pages[p].slots[j]
  BY <1>2
<1>4. pages[p].header.slot_count \in Nat /\ pages[p].header.slot_count <= Len(pages[p].slots)
  <2>1. pages[p].header \in PageHeaderType BY PageFields
  <2>2. pages[p].header.slot_count \in Nat BY <2>1 DEF PageHeaderType
  <2>3. Len(pages[p].slots) \in pages[p].header.slot_count .. pages[p].header.slot_count + 1
    BY <1>2 DEF Formatted
  <2> QED BY <2>2, <2>3
<1>5. Formatted(pages'[p])
  <2>1. pages'[p].header = pages[p].header /\ Len(pages'[p].slots) = Len(pages[p].slots)
    OBVIOUS
  <2>2. \A j \in 1 .. pages[p].header.slot_count : Inside(pages'[p], j)
    <3> SUFFICES ASSUME NEW j \in 1 .. pages[p].header.slot_count PROVE Inside(pages'[p], j)
      OBVIOUS
    <3>1. Inside(pages[p], j) BY <1>2 DEF Formatted
    <3>2. j \in 1 .. Len(pages[p].slots) BY <1>4, PageFields
    <3> HIDE DEF ReplacesSlot
    <3> QED BY <1>3, <2>1, <3>1, <3>2 DEF Inside
  <2>3. \A j, k \in 1 .. pages[p].header.slot_count :
          j # k => Apart(pages'[p].slots[j], pages'[p].slots[k])
    <3> SUFFICES ASSUME NEW j \in 1 .. pages[p].header.slot_count,
                        NEW k \in 1 .. pages[p].header.slot_count, j # k
                 PROVE  Apart(pages'[p].slots[j], pages'[p].slots[k])
      OBVIOUS
    <3>1. Apart(pages[p].slots[j], pages[p].slots[k]) BY <1>2 DEF Formatted
    <3>2. j \in 1 .. Len(pages[p].slots) /\ k \in 1 .. Len(pages[p].slots) BY <1>4, PageFields, SMTT(30)
    <3> HIDE DEF ReplacesSlot
    <3> QED BY <1>3, <3>1, <3>2 DEF Apart
  <2> HIDE DEF ReplacesSlot
  <2> QED BY <1>2, <2>1, <2>2, <2>3 DEF Formatted
<1>6. PagesWellFormed' BY <1>5 DEF PagesWellFormed
<1>7. ~Unformatted(pages[p])
  BY <1>2 DEF Unformatted, Formatted, validate_page_header, ZeroPage
<1>8. \A q \in DOMAIN pages' : IF q <= header.page_count THEN Formatted(pages'[q])
                                                         ELSE Unformatted(pages'[q])
  BY <1>5, <1>7 DEF MemoryMatches
<1>9. \A q \in DOMAIN pages : \A j \in SlotsOf(q) : pages'[q].slots[j].id = pages[q].slots[j].id
  <2>1. \A j \in SlotsOf(p) : j \in 1 .. Len(pages[p].slots) BY <1>4, PageFields DEF SlotsOf
  <2> QED BY <1>3, <2>1
<1>10. \A q \in DOMAIN pages' : \A j \in SlotsOf(q)' : pages'[q].slots[j].id < header.next_id
  <2>1. \A q \in DOMAIN pages : \A j \in SlotsOf(q) : pages[q].slots[j].id < header.next_id
    BY DEF MemoryMatches
  <2>2. DOMAIN pages' = DOMAIN pages OBVIOUS
  <2> HIDE DEF ReplacesSlot, IInv
  <2> QED BY <1>1, <1>9, <2>1, <2>2
<1> QED BY <1>1, <1>6, <1>8, <1>9, <1>10

\* Flagging the old slot leaves an update with its new slot and a delete with none.
LEMMA MarkDeletedPreserves ==
  ASSUME IInv, MarkDeleted
  PROVE  IInv'
<1> USE DEF IInv
<1> DEFINE old == locations[op.id]
           new == <<op.page, pages[op.page].header.slot_count>>
           slot == [SlotAt(old) EXCEPT !.active = FALSE]
<1>1. /\ up /\ op # Idle /\ op.pc = "mark_deleted" /\ op.id \in DOMAIN locations
      /\ op.id \in ObjectIds /\ op.doc \in Documents \cup {Absent}
      /\ op.kind \in {"update", "delete"} /\ (op.doc = Absent <=> op.kind = "delete")
  <2>1. op.pc = "mark_deleted" BY DEF MarkDeleted
  <2>2. op # Idle BY <2>1 DEF Idle
  <2>3. up BY <2>2 DEF MemoryMatches
  <2>4. op.pc \in StepsOf[op.kind] /\ op.id \in DOMAIN locations /\ (op.doc = Absent <=> op.kind = "delete")
    BY <2>1, <2>2 DEF OperationProgress
  <2>5. op.kind \in {"insert", "update", "delete"} /\ op.id \in ObjectIds
        /\ op.doc \in Documents \cup {Absent}
    BY <2>2, OperationFields
  <2>6. op.kind # "insert" BY <2>1, <2>4 DEF StepsOf, Appending, Placing
  <2> QED BY <2>1, <2>2, <2>3, <2>4, <2>5, <2>6
<1>2. UNCHANGED <<disk_header, up, aux_suspect, faults>>
  BY DEF MarkDeleted, Unfaulted
<1>3. /\ old = <<old[1], old[2]>> /\ old[1] \in DOMAIN pages /\ old[2] \in SlotsOf(old[1])
      /\ SlotAt(old).id = op.id /\ old[2] \in 1 .. Len(pages[old[1]].slots)
      /\ SlotAt(old) = pages[old[1]].slots[old[2]]
      /\ Inside(pages[old[1]], old[2])
  <2>1. /\ old = <<old[1], old[2]>> /\ old[1] \in DOMAIN pages /\ old[2] \in SlotsOf(old[1])
        /\ SlotAt(old).id = op.id /\ Formatted(pages[old[1]])
    BY <1>1, IndexedSlots
  <2>2. old[2] \in 1 .. Len(pages[old[1]].slots) BY <2>1, CountedSlot
  <2>3. Inside(pages[old[1]], old[2]) BY <2>1 DEF Formatted, SlotsOf
  <2> QED BY <2>1, <2>2, <2>3 DEF SlotAt
<1>4. /\ slot \in SlotType /\ slot.id = SlotAt(old).id /\ slot.offset = SlotAt(old).offset
      /\ slot.capacity = SlotAt(old).capacity /\ slot.length = SlotAt(old).length
      /\ slot.active = FALSE
  <2>1. SlotAt(old) \in SlotType BY <1>3, SlotFields
  <2> HIDE DEF old
  <2> QED BY <2>1 DEF SlotType
<1>5. ReplacesSlot(old[1], old[2], slot)
  <2>1. pages' = [pages EXCEPT ![old[1]].slots[old[2]] = slot]
    BY <1>3 DEF MarkDeleted, DoomedSlot
  <2> HIDE DEF old, slot, IInv
  <2>2. Types BY DEF IInv
  <2> QED BY <1>3, <1>4, <2>1, <2>2, SlotReplaced
<1>6. /\ PagesWellFormed'
      /\ \A q \in DOMAIN pages : SlotsOf(q)' = SlotsOf(q)
      /\ \A q \in DOMAIN pages' : IF q <= header.page_count THEN Formatted(pages'[q])
                                                            ELSE Unformatted(pages'[q])
      /\ \A q \in DOMAIN pages' : \A j \in SlotsOf(q)' : pages'[q].slots[j].id < header.next_id
      /\ \A q \in DOMAIN pages : \A j \in SlotsOf(q) : pages'[q].slots[j].id = pages[q].slots[j].id
  <2>1. slot.length <= slot.capacity BY <1>3, <1>4 DEF Inside
  <2> HIDE DEF old, slot
  <2> QED BY <1>1, <1>3, <1>4, <1>5, <2>1, SlotsKept
<1>7. /\ DOMAIN pages' = DOMAIN pages /\ Len(pages') = Len(pages) /\ pages' \in Seq(PageType)
      /\ \A q \in DOMAIN pages : pages'[q].header = pages[q].header /\ pages'[q].bytes = pages[q].bytes
      /\ pages'[old[1]].slots[old[2]].active = FALSE
      /\ \A q \in DOMAIN pages : \A j \in 1 .. Len(pages[q].slots) :
           <<q, j>> # old => pages'[q].slots[j] = pages[q].slots[j]
  BY <1>3, <1>4, <1>5, ZenonT(30) DEF ReplacesSlot
<1> HIDE DEF slot
<1>8. /\ \A t : t \in ActiveSlots' <=> t \in ActiveSlots /\ t # old
      /\ \A t \in ActiveSlots' : SlotAt(t)' = SlotAt(t)
      /\ \A t \in ActiveSlots' : \A d : Holds(t, d) => Holds(t, d)'
  <2>0. \A q \in DOMAIN pages : \A j \in SlotsOf(q) : j \in 1 .. Len(pages[q].slots)
    BY CountedSlot DEF PagesWellFormed
  <2>1. ASSUME NEW t \in ActiveSlots'
        PROVE  t \in ActiveSlots /\ t # old /\ SlotAt(t)' = SlotAt(t)
               /\ t[1] \in DOMAIN pages
    <3>1. /\ t[1] \in DOMAIN pages /\ t[2] \in SlotsOf(t[1])' /\ t = <<t[1], t[2]>>
          /\ pages'[t[1]].slots[t[2]].active
      BY <1>7, SMTT(30) DEF ActiveSlots, SlotsOf
    <3>2. t[2] \in SlotsOf(t[1]) BY <1>6, <3>1
    <3>3. t # old BY <1>7, <3>1
    <3>4. pages'[t[1]].slots[t[2]] = pages[t[1]].slots[t[2]] BY <1>7, <2>0, <3>1, <3>2, <3>3, SMTT(30)
    <3>5. <<t[1], t[2]>> \in ActiveSlots BY <3>1, <3>2, <3>4, ActiveSlot
    <3> QED BY <3>1, <3>3, <3>4, <3>5 DEF SlotAt
  <2>2. ASSUME NEW t \in ActiveSlots, t # old
        PROVE  t \in ActiveSlots'
    <3>1. /\ t[1] \in DOMAIN pages /\ t[2] \in SlotsOf(t[1]) /\ t = <<t[1], t[2]>>
          /\ pages[t[1]].slots[t[2]].active
      BY ActiveSlot DEF SlotAt
    <3>2. pages'[t[1]].slots[t[2]] = pages[t[1]].slots[t[2]] BY <1>7, <2>0, <2>2, <3>1, ZenonT(30)
    <3>3. t[2] \in SlotsOf(t[1])' BY <1>6, <3>1
    <3> QED BY <1>7, <3>1, <3>2, <3>3, SMTT(30) DEF ActiveSlots, SlotsOf
  <2>3. ASSUME NEW t \in ActiveSlots', NEW d, Holds(t, d)
        PROVE  Holds(t, d)'
    BY <1>7, <2>1, <2>3 DEF Holds, Stored
  <2> QED BY <2>1, <2>2, <2>3
<1>9. \A id \in DOMAIN locations : id # op.id => SlotAt(locations[id]).id = id /\ locations[id] # old
  BY <1>1, <1>3, IndexedSlots
<1>10. ASSUME NEW id \in ObjectIds, NEW d \in Documents \cup {Absent}, Settled(id, d), id # op.id,
              id \in DOMAIN locations' <=> id \in DOMAIN locations,
              id \in DOMAIN locations => locations'[id] = locations[id]
       PROVE  Settled(id, d)'
  <2>1. \A t \in ActiveSlots : SlotAt(t).id = id =>
          t \in ActiveSlots' /\ SlotAt(t)'.id = id /\ (d # Absent /\ Holds(t, d) => Holds(t, d)')
    BY <1>3, <1>8, <1>10
  <2>2. \A t \in ActiveSlots' : SlotAt(t)'.id = id => t \in ActiveSlots /\ SlotAt(t).id = id
    BY <1>8
  <2>3. id \in DOMAIN locations => SlotAt(locations[id]).id = id
    BY <1>9, <1>10
  <2> HIDE DEF IInv, old
  <2> QED BY <1>10, <2>1, <2>2, <2>3, SettledKept
<1>11. ASSUME NEW s, IsCounted(s)
       PROVE  /\ s \in (1 .. header.page_count) \X Nat /\ s[1] \in DOMAIN pages
              /\ s[2] \in SlotsOf(s[1])' /\ SlotAt(s)'.id = SlotAt(s).id
  <2>1. s \in (1 .. header.page_count) \X Nat /\ s[2] \in SlotsOf(s[1])
    BY <1>11 DEF IsCounted
  <2>2. s[1] \in DOMAIN pages BY <1>1, <2>1, HeaderFields DEF MemoryMatches
  <2> QED BY <1>6, <2>1, <2>2 DEF SlotAt
<1>12. CASE op.kind = "delete"
  <2>1. Goto("file_header") /\ locations' = IndexAfterDelete /\ header' = HeaderAfterDelete(header)
    BY <1>12 DEF MarkDeleted
  <2>2. /\ op' # Idle /\ op' \in Operations /\ op'.pc = "file_header"
        /\ op'.kind = op.kind /\ op'.id = op.id /\ op'.doc = op.doc /\ op'.page = op.page
        /\ aux_promised' = aux_promised
    BY <1>1, <2>1, GotoNext DEF Steps
  <2>3. /\ DOMAIN locations' = DOMAIN locations \ {op.id}
        /\ \A id \in DOMAIN locations' : locations'[id] = locations[id]
        /\ locations' = [id \in DOMAIN locations' |-> locations'[id]]
    BY <2>1 DEF IndexAfterDelete
  <2>4. /\ header' \in FileHeaderType /\ header'.next_id = header.next_id
        /\ header'.page_count = header.page_count /\ DOMAIN locations' \subseteq ObjectIds
        /\ header'.live_count = Cardinality(DOMAIN locations')
    <3>1. DOMAIN locations \subseteq ObjectIds /\ DOMAIN locations' \subseteq ObjectIds
          /\ header.live_count = Cardinality(DOMAIN locations) /\ header \in FileHeaderType
      BY <1>1, <2>3 DEF Types, MemoryMatches
    <3>2. IsFiniteSet(DOMAIN locations) /\ Cardinality(DOMAIN locations') \in 0 .. SIZE_MAX
      BY <3>1, FiniteIndex
    <3>3. Cardinality(DOMAIN locations') = header.live_count - 1
      <4>1. Cardinality(DOMAIN locations \ {op.id}) = Cardinality(DOMAIN locations) - 1
        BY <1>1, <3>2, FS_RemoveElement
      <4> QED BY <2>3, <3>1, <4>1
    <3>4. header' = [header EXCEPT !.live_count = header.live_count - 1]
      BY <2>1 DEF HeaderAfterDelete
    <3>5. header.live_count - 1 \in 0 .. SIZE_MAX BY <3>2, <3>3
    <3>6. header' \in FileHeaderType /\ header'.next_id = header.next_id
          /\ header'.page_count = header.page_count /\ header'.live_count = header.live_count - 1
      BY <3>1, <3>4, <3>5 DEF FileHeaderType
    <3> QED BY <3>1, <3>3, <3>6
  <2>5. Types' BY <1>2, <1>7, <2>2, <2>3, <2>4 DEF Types
  <2>6. MemoryMatches'
    <3>1. \A id \in DOMAIN locations' : IsCounted(locations[id])' /\ SlotAt(locations[id])'.id = id
      <4> SUFFICES ASSUME NEW id \in DOMAIN locations'
                   PROVE  IsCounted(locations[id])' /\ SlotAt(locations[id])'.id = id
        OBVIOUS
      <4>1. id \in DOMAIN locations /\ locations'[id] = locations[id] BY <2>3
      <4>2. IsCounted(locations[id]) /\ SlotAt(locations[id]).id = id
        BY <1>1, <4>1 DEF MemoryMatches
      <4> QED BY <1>11, <2>4, <4>1, <4>2 DEF IsCounted, SlotAt
    <3> QED BY <1>1, <1>2, <1>6, <1>7, <2>4, <3>1 DEF MemoryMatches
  <2>7. OperationProgress'
    BY <1>1, <1>12, <2>2 DEF OperationProgress, StepsOf, Appending, Placing, Rewriting
  <2>8. Contents'
    <3> SUFFICES ASSUME NEW id \in ObjectIds, id \notin aux_suspect
                 PROVE  ContentOf(id)'
      BY <1>2 DEF Contents
    <3>1. Settled(id, aux_promised[id]) /\ aux_promised[id] \in Documents \cup {Absent}
      BY <1>1, <1>12 DEF Contents, ContentOf, Midway, Types
    <3>2. CASE id # op.id
      <4>1. /\ id \in DOMAIN locations' <=> id \in DOMAIN locations
            /\ id \in DOMAIN locations => locations'[id] = locations[id]
        BY <2>3, <3>2
      <4>2. Settled(id, aux_promised[id])'
        BY <1>10, <2>2, <3>1, <3>2, <4>1
      <4> QED BY <2>2, <3>2, <4>2 DEF ContentOf
    <3>3. CASE id = op.id
      <4>1. \A t \in ActiveSlots : SlotAt(t).id = id => t = old
        BY <1>1, <3>1, <3>3 DEF Settled, Sole
      <4>2. \A t \in ActiveSlots' : SlotAt(t)'.id # id
        BY <1>8, <4>1
      <4>3. Settled(id, op.doc)'
        BY <1>1, <1>12, <2>2, <2>3, <3>3, <4>2 DEF Settled
      <4> QED BY <2>2, <3>3, <4>3 DEF ContentOf, Midway
    <3> QED BY <3>2, <3>3
  <2>9. HeaderWritten' BY <1>1, <1>2, <1>7, <2>2, <2>4 DEF HeaderWritten
  <2>10. RecoveredIsPromised' BY <1>1, <1>2 DEF RecoveredIsPromised
  <2> QED BY <1>6, <2>5, <2>6, <2>7, <2>8, <2>9, <2>10
<1>13. CASE op.kind = "update"
  <2>1. Return /\ UNCHANGED header /\ locations' = [locations EXCEPT ![op.id] = new]
    BY <1>13 DEF MarkDeleted
  <2>2. /\ op' = Idle /\ aux_promised' = Applied /\ op' \in Operations
    BY <2>1 DEF Return, Operations
  <2>3. /\ DOMAIN locations' = DOMAIN locations /\ locations'[op.id] = new
        /\ \A id \in DOMAIN locations : id # op.id => locations'[id] = locations[id]
        /\ locations' = [id \in DOMAIN locations' |-> locations'[id]]
    BY <1>1, <2>1
  <2>4. /\ aux_promised' \in [ObjectIds -> Documents \cup {Absent}]
        /\ aux_promised'[op.id] = op.doc
        /\ \A id \in ObjectIds : id # op.id => aux_promised'[id] = aux_promised[id]
    <3>1. aux_promised \in [ObjectIds -> Documents \cup {Absent}] BY DEF Types
    <3> QED BY <1>1, <2>2, <3>1 DEF Applied
  <2>5. Types' BY <1>2, <1>7, <2>1, <2>2, <2>3, <2>4 DEF Types
  <2>6. IsCounted(new) /\ SlotAt(new).id = op.id /\ new # old
    BY <1>1, <1>13 DEF OperationProgress
  <2>7. MemoryMatches'
    <3>1. \A id \in DOMAIN locations' : IsCounted(locations[id])' /\ SlotAt(locations[id])'.id = id
      <4> SUFFICES ASSUME NEW id \in DOMAIN locations'
                   PROVE  IsCounted(locations[id])' /\ SlotAt(locations[id])'.id = id
        OBVIOUS
      <4> DEFINE s == locations'[id]
      <4>1. IsCounted(s) /\ SlotAt(s).id = id
        <5>1. CASE id = op.id BY <2>3, <2>6, <5>1
        <5>2. CASE id # op.id
          <6>1. IsCounted(locations[id]) /\ SlotAt(locations[id]).id = id
            BY <1>1, <2>3 DEF MemoryMatches
          <6> QED BY <2>3, <5>2, <6>1
        <5> QED BY <5>1, <5>2
      <4>2. s \in (1 .. header.page_count) \X Nat /\ s[2] \in 1 .. pages'[s[1]].header.slot_count
            /\ pages'[s[1]].slots[s[2]].id = id
        BY <1>11, <4>1 DEF SlotsOf, SlotAt
      <4> QED BY <2>1, <4>2 DEF IsCounted, SlotsOf, SlotAt
    <3>2. header'.live_count = Cardinality(DOMAIN locations')
      BY <1>1, <2>1, <2>3 DEF MemoryMatches
    <3> QED BY <1>1, <1>2, <1>6, <1>7, <2>1, <3>1, <3>2 DEF MemoryMatches
  <2>8. OperationProgress' BY <2>2 DEF OperationProgress
  <2>9. Contents'
    <3> SUFFICES ASSUME NEW id \in ObjectIds, id \notin aux_suspect
                 PROVE  Settled(id, aux_promised[id])'
      BY <1>2, <2>2 DEF Contents, ContentOf
    <3>1. CASE id # op.id
      <4>1. Settled(id, aux_promised[id]) /\ aux_promised[id] \in Documents \cup {Absent}
        BY <1>1, <3>1 DEF Contents, ContentOf, Types
      <4> QED BY <1>10, <2>3, <2>4, <3>1, <4>1
    <3>2. CASE id = op.id
      <4>1. Relocating(id)
        BY <1>1, <1>13, <3>2 DEF Contents, ContentOf, Midway
      <4>2. /\ new \in ActiveSlots /\ Holds(new, op.doc)
            /\ \A t \in ActiveSlots : SlotAt(t).id = id => t \in {old, new}
        BY <3>2, <4>1 DEF Relocating
      <4>3. \A t \in ActiveSlots' : SlotAt(t)'.id = id => t = new
        BY <1>8, <4>2
      <4>4. new \in ActiveSlots' BY <1>8, <2>6, <4>2
      <4>5. ASSUME NEW t, NEW d, t = new, d = op.doc PROVE Holds(t, d)'
        BY <1>8, <4>2, <4>4, <4>5
      <4>6. id \in DOMAIN locations' /\ locations'[id] = new /\ aux_promised'[id] = op.doc
        BY <1>1, <2>3, <2>4, <3>2
      <4> HIDE DEF new
      <4>7. Holds(locations[id], aux_promised[id])' BY <4>5, <4>6
      <4>8. op.doc # Absent BY <1>1, <1>13
      <4> QED BY <4>3, <4>4, <4>6, <4>7, <4>8 DEF Settled, Sole
    <3> QED BY <3>1, <3>2
  <2>10. HeaderWritten' BY <1>1, <1>2, <1>7, <2>1 DEF HeaderWritten
  <2>11. RecoveredIsPromised' BY <1>1, <1>2 DEF RecoveredIsPromised
  <2> QED BY <1>6, <2>5, <2>7, <2>8, <2>9, <2>10, <2>11
<1> QED BY <1>1, <1>12, <1>13

-----------------------------------------------------------------------------
(* The last writes of an operation, and failing ones *)

\* What an operation that returns promises.
LEMMA AppliedPromise ==
  ASSUME Types, op # Idle
  PROVE  /\ Applied \in [ObjectIds -> Documents \cup {Absent}]
         /\ Applied[op.id] = op.doc
         /\ \A id \in ObjectIds : id # op.id => Applied[id] = aux_promised[id]
<1>1. aux_promised \in [ObjectIds -> Documents \cup {Absent}] BY DEF Types
<1>2. op.id \in ObjectIds /\ op.doc \in Documents \cup {Absent} BY OperationFields
<1> QED BY <1>1, <1>2 DEF Applied

\* Contents are a matter of the pages and of the index.
LEMMA SamePages ==
  ASSUME UNCHANGED <<pages, locations>>, NEW id, NEW d, Settled(id, d)
  PROVE  Settled(id, d)'
<1>1. ActiveSlots' = ActiveSlots BY DEF ActiveSlots, SlotsOf
<1>2. \A t : SlotAt(t)' = SlotAt(t) BY DEF SlotAt
<1>3. \A t : Holds(t, d) => Holds(t, d)' BY <1>2 DEF Holds, Stored
<1>4. Sole(id, locations[id]) => Sole(id, locations[id])' BY <1>1, <1>2 DEF Sole
<1>5. Holds(locations[id], d) => Holds(locations[id], d)' BY <1>3
<1> QED BY <1>1, <1>2, <1>4, <1>5 DEF Settled

\* After the file header an insert or a delete has done what it promises.
LEMMA WriteFileHeaderPreserves ==
  ASSUME IInv, WriteFileHeader
  PROVE  IInv'
<1> USE DEF IInv
<1>1. /\ up /\ op # Idle /\ op.pc = "file_header" /\ op' = Idle /\ aux_promised' = Applied
      /\ disk_header' = header
      /\ UNCHANGED <<pages, header, locations, up, aux_suspect, faults>>
  <2>1. op.pc = "file_header" BY DEF WriteFileHeader
  <2>2. op # Idle BY <2>1 DEF Idle
  <2>3. up BY <2>2 DEF MemoryMatches
  <2> QED BY <2>1, <2>2, <2>3 DEF WriteFileHeader, Return, Unfaulted
<1>2. Types' BY <1>1, AppliedPromise DEF Types, Operations
<1>3. PagesWellFormed' BY <1>1 DEF PagesWellFormed
<1>4. MemoryMatches' BY <1>1 DEF MemoryMatches, IsCounted, SlotsOf, SlotAt
<1>5. OperationProgress' BY <1>1 DEF OperationProgress
<1>6. Contents'
  <2> SUFFICES ASSUME NEW id \in ObjectIds, id \notin aux_suspect
               PROVE  Settled(id, aux_promised[id])'
    BY <1>1 DEF Contents, ContentOf
  <2>1. PICK d : d = Applied[id] OBVIOUS
  <2>2. CASE id = op.id
    <3>1. Settled(id, op.doc) /\ d = op.doc
      BY <1>1, <2>1, <2>2, AppliedPromise DEF Contents, ContentOf, Midway
    <3>2. Settled(id, d)' BY <1>1, <3>1, SamePages
    <3> QED BY <1>1, <2>1, <3>2
  <2>3. CASE id # op.id
    <3>1. Settled(id, aux_promised[id]) /\ d = aux_promised[id]
      BY <1>1, <2>1, <2>3, AppliedPromise DEF Contents, ContentOf
    <3>2. Settled(id, d)' BY <1>1, <3>1, SamePages
    <3> QED BY <1>1, <2>1, <3>2
  <2> QED BY <2>2, <2>3
<1>7. RecoveredIsPromised' BY <1>1 DEF RecoveredIsPromised
<1>8. HeaderWritten' BY <1>1 DEF HeaderWritten
<1> QED BY <1>2, <1>3, <1>4, <1>5, <1>6, <1>7, <1>8

\* A failing write leaves a state like that between two operations, but for the object
\* of the operation.
LEMMA WriteFailsPreserves ==
  ASSUME IInv, WriteFails
  PROVE  IInv'
<1> USE DEF IInv
<1>1. /\ up /\ op # Idle /\ op' = Idle /\ faults' = faults + 1 /\ faults < MAX_FAULTS
      /\ aux_suspect' = aux_suspect \cup {op.id}
      /\ UNCHANGED <<disk_header, pages, up, header, locations, aux_promised>>
  BY DEF WriteFails, MemoryMatches
<1>2. Types'
  <2>1. op.id \in ObjectIds /\ faults' \in 0 .. MAX_FAULTS BY <1>1, OperationFields DEF Types
  <2> QED BY <1>1, <2>1 DEF Types, Operations
<1>3. PagesWellFormed' BY <1>1 DEF PagesWellFormed
<1>4. MemoryMatches' BY <1>1 DEF MemoryMatches, IsCounted, SlotsOf, SlotAt
<1>5. OperationProgress' BY <1>1 DEF OperationProgress
<1>6. Contents'
  <2> SUFFICES ASSUME NEW id \in ObjectIds, id \notin aux_suspect', up
               PROVE  Settled(id, aux_promised[id])'
    BY <1>1 DEF Contents, ContentOf
  <2>1. Settled(id, aux_promised[id])
    BY <1>1 DEF Contents, ContentOf
  <2> QED BY <1>1, <2>1, SamePages
<1>7. RecoveredIsPromised' BY <1>1 DEF RecoveredIsPromised
<1>8. HeaderWritten' BY <1>1 DEF HeaderWritten, Types
<1> QED BY <1>2, <1>3, <1>4, <1>5, <1>6, <1>7, <1>8

\* The slot an update in place rewrites.
LEMMA RewritingFields ==
  ASSUME IInv, op.pc \in Rewriting
  PROVE  LET old == locations[op.id]
         IN  /\ up /\ op # Idle /\ op.kind = "update" /\ op.doc \in Documents
             /\ op.id \in ObjectIds /\ op.id \in DOMAIN locations
             /\ old = <<op.page, old[2]>> /\ op.page \in DOMAIN pages /\ op.page = old[1]
             /\ old[2] \in SlotsOf(op.page) /\ old[2] \in 1 .. Len(pages[op.page].slots)
             /\ Formatted(pages[op.page]) /\ Inside(pages[op.page], old[2])
             /\ SlotAt(old) = pages[op.page].slots[old[2]] /\ SlotAt(old) \in SlotType
             /\ SlotAt(old).id = op.id
             /\ SlotAt(old).offset \in Nat /\ SlotAt(old).capacity \in Nat
             /\ Length[op.doc] <= SlotAt(old).capacity
<1> USE DEF IInv
<1> DEFINE old == locations[op.id]
<1>1. op # Idle /\ up
  BY DEF Rewriting, Idle, MemoryMatches
<1>2. op.kind = "update"
  BY <1>1, OperationFields DEF OperationProgress, StepsOf, Rewriting, Appending, Placing
<1>3. op.doc \in Documents /\ op.id \in ObjectIds
  BY <1>1, <1>2, OperationFields DEF OperationProgress
<1>4. op.id \in DOMAIN locations /\ op.page = old[1] /\ Length[op.doc] <= SlotAt(old).capacity
  BY <1>1, <1>2 DEF OperationProgress
<1>5. /\ old = <<old[1], old[2]>> /\ old[1] \in DOMAIN pages /\ old[2] \in SlotsOf(old[1])
      /\ SlotAt(old).id = op.id /\ Formatted(pages[old[1]])
  BY <1>1, <1>4, IndexedSlots
<1>6. old[2] \in 1 .. Len(pages[old[1]].slots) BY <1>5, CountedSlot
<1>7. Inside(pages[old[1]], old[2]) BY <1>5 DEF Formatted, SlotsOf
<1>8. SlotAt(old) = pages[old[1]].slots[old[2]] BY DEF SlotAt
<1>9. SlotAt(old) \in SlotType /\ SlotAt(old).offset \in Nat /\ SlotAt(old).capacity \in Nat
  BY <1>5, <1>6, <1>8, SlotFields
<1> HIDE DEF old
<1> QED BY <1>1, <1>2, <1>3, <1>4, <1>5, <1>6, <1>7, <1>8, <1>9 DEF old

\* The payload of an update in place stays inside the capacity of its slot.
LEMMA RewritePayloadPreserves ==
  ASSUME IInv, RewritePayload
  PROVE  IInv'
<1> USE DEF IInv
<1> DEFINE old == locations[op.id]
           offset == SlotAt(old).offset
<1>1. /\ up /\ op # Idle /\ op' # Idle /\ op' \in Operations /\ op.pc = "rewrite_payload"
      /\ op'.pc = "rewrite_slot"
      /\ op'.kind = op.kind /\ op'.id = op.id /\ op'.doc = op.doc /\ op'.page = op.page
      /\ aux_promised' = aux_promised
  BY GotoNext DEF Steps, Rewriting, RewritePayload
<1>2. UNCHANGED <<disk_header, header, locations, up, aux_suspect, faults, aux_promised>>
  BY <1>1 DEF RewritePayload, Unfaulted
<1>3. /\ op.kind = "update" /\ op.doc \in Documents
      /\ op.id \in ObjectIds /\ op.id \in DOMAIN locations
      /\ old = <<op.page, old[2]>> /\ op.page \in DOMAIN pages /\ op.page = old[1]
      /\ old[2] \in SlotsOf(op.page)
      /\ Formatted(pages[op.page]) /\ Inside(pages[op.page], old[2])
      /\ SlotAt(old) = pages[op.page].slots[old[2]] /\ SlotAt(old).id = op.id
      /\ offset \in Nat /\ SlotAt(old).capacity \in Nat
      /\ Length[op.doc] <= SlotAt(old).capacity
  BY <1>1, RewritingFields DEF Rewriting
<1>4. WritesPayload(op.page, offset, op.doc)
  <2>1. pages' = [pages EXCEPT ![op.page].bytes = WithPayload(@, offset, op.doc)]
    BY DEF RewritePayload
  <2>2. offset + Length[op.doc] <= PAGE_SIZE
    BY <1>3, SMTT(30) DEF Inside
  <2> HIDE DEF IInv, old, offset
  <2>3. Types BY DEF IInv
  <2> QED BY <1>3, <2>1, <2>2, <2>3, PayloadWritten
<1>5. /\ pages' \in Seq(PageType) /\ Len(pages') = Len(pages) /\ DOMAIN pages' = DOMAIN pages
      /\ \A q \in DOMAIN pages : q # op.page => pages'[q] = pages[q]
      /\ \A q \in DOMAIN pages : pages'[q].header = pages[q].header /\ pages'[q].slots = pages[q].slots
      /\ Stored(pages'[op.page].bytes, offset, op.doc)
      /\ \A k \in 0 .. PAGE_SIZE - 1 :
           k \notin offset .. offset + Length[op.doc] - 1 =>
             pages'[op.page].bytes[k] = pages[op.page].bytes[k]
  BY <1>4 DEF WritesPayload
<1>6. Types' BY <1>1, <1>2, <1>5 DEF Types
<1>7. PagesWellFormed' /\ MemoryMatches'
  <2>1. \A p \in DOMAIN pages : /\ Formatted(pages[p]) => Formatted(pages'[p])
                                /\ Unformatted(pages[p]) => Unformatted(pages'[p])
    BY <1>5, ShapeKept
  <2> QED BY <1>1, <1>2, <1>5, <2>1, CountedKept
<1>8. /\ \A p \in DOMAIN pages : SlotsOf(p)' = SlotsOf(p)
      /\ \A t : t[1] \in DOMAIN pages => SlotAt(t)' = SlotAt(t)
      /\ ActiveSlots' = ActiveSlots
  <2>1. \A p \in DOMAIN pages : SlotsOf(p)' = SlotsOf(p) BY <1>5 DEF SlotsOf
  <2>2. \A t : t[1] \in DOMAIN pages => SlotAt(t)' = SlotAt(t) BY <1>5 DEF SlotAt
  <2>3. ActiveSlots' = ActiveSlots BY <1>5, <2>1 DEF ActiveSlots
  <2> QED BY <2>1, <2>2, <2>3
<1>9. OperationProgress'
  <2>1. SlotAt(locations[op.id])' = SlotAt(old)
    BY <1>1, <1>2, <1>3, <1>8 DEF SlotAt
  <2> HIDE DEF IInv, offset
  <2>2. op'.doc # Absent /\ op'.kind = "update" /\ op'.id \in DOMAIN locations'
        /\ op'.page = locations'[op'.id][1] /\ Length[op'.doc] <= SlotAt(locations[op.id])'.capacity
    BY <1>1, <1>2, <1>3, <2>1
  <2> QED BY <1>1, <2>2 DEF OperationProgress, StepsOf, Appending, Placing, Rewriting
<1>10. ASSUME NEW t \in ActiveSlots, t # old, NEW d \in Documents, Holds(t, d)
       PROVE  Holds(t, d)'
  <2>0. t[1] \in DOMAIN pages /\ t[2] \in SlotsOf(t[1]) /\ t = <<t[1], t[2]>>
        /\ SlotAt(t) = pages[t[1]].slots[t[2]]
    BY ActiveSlot
  <2>1. CASE t[1] # op.page
    BY <1>5, <1>8, <1>10, <2>0, <2>1 DEF Holds, Stored
  <2>2. CASE t[1] = op.page
    <3>1. t[2] \in SlotsOf(op.page) /\ SlotAt(t) = pages[op.page].slots[t[2]] /\ t[2] # old[2]
      BY <1>3, <1>10, <2>0, <2>2
    <3>2. SlotAt(t).offset \in Nat /\ SlotAt(t).capacity \in Nat
      BY <1>3, <3>1, CountedSlot, SlotFields
    <3>3. Inside(pages[op.page], t[2]) /\ Apart(SlotAt(t), SlotAt(old))
      BY <1>3, <3>1 DEF Formatted, SlotsOf
    <3>4. ASSUME NEW k \in 0 .. Length[d] - 1
          PROVE  pages'[op.page].bytes[SlotAt(t).offset + k] = pages[op.page].bytes[SlotAt(t).offset + k]
      <4>1. Length[d] <= SlotAt(t).capacity
        BY <1>10, <3>1, <3>3 DEF Holds, Inside
      <4>2. SlotAt(t).offset + SlotAt(t).capacity <= PAGE_SIZE
        BY <3>1, <3>3 DEF Inside
      <4> HIDE DEF IInv
      <4>3. /\ SlotAt(t).offset + k \in 0 .. PAGE_SIZE - 1
            /\ SlotAt(t).offset + k \notin offset .. offset + Length[op.doc] - 1
        BY <1>3, <3>2, <3>3, <4>1, <4>2, SMTT(30) DEF Apart
      <4> QED BY <1>5, <4>3
    <3> QED BY <1>8, <1>10, <2>0, <2>2, <3>4 DEF Holds, Stored
  <2> QED BY <2>1, <2>2
<1>11. Contents'
  <2> SUFFICES ASSUME NEW id \in ObjectIds, id \notin aux_suspect
               PROVE  ContentOf(id)'
    BY <1>2 DEF Contents
  <2>1. Settled(id, aux_promised[id]) /\ aux_promised[id] \in Documents \cup {Absent}
    BY <1>1 DEF Contents, ContentOf, Midway, Types
  <2>2. CASE id # op.id
    <3> DEFINE d == aux_promised[id]
    <3>1. \A t \in ActiveSlots : SlotAt(t).id = id =>
            t \in ActiveSlots' /\ SlotAt(t)'.id = id /\ (d # Absent /\ Holds(t, d) => Holds(t, d)')
      <4> SUFFICES ASSUME NEW t \in ActiveSlots, SlotAt(t).id = id
                   PROVE  t \in ActiveSlots' /\ SlotAt(t)'.id = id
                          /\ (d # Absent /\ Holds(t, d) => Holds(t, d)')
        OBVIOUS
      <4>1. t # old BY <1>3, <2>2
      <4>2. t[1] \in DOMAIN pages BY ActiveSlot
      <4>3. SlotAt(t)' = SlotAt(t) BY <1>8, <4>2
      <4>4. d # Absent => d \in Documents BY <2>1
      <4> QED BY <1>2, <1>8, <1>10, <4>1, <4>3, <4>4
    <3>2. \A t \in ActiveSlots' : SlotAt(t)'.id = id => t \in ActiveSlots /\ SlotAt(t).id = id
      BY <1>8, ActiveSlot
    <3>3. id \in DOMAIN locations => SlotAt(locations[id]).id = id
      BY <1>1, IndexedSlots
    <3>4. d' = d BY <1>2
    <3>5. Settled(id, d)'
      <4> HIDE DEF IInv, old, offset
      <4> SUFFICES ASSUME NEW e, e = d PROVE Settled(id, e)'
        BY <3>4
      <4> QED BY <1>2, <2>1, <3>1, <3>2, <3>3, <3>4, SettledKept
    <3> QED BY <1>1, <2>2, <3>5 DEF ContentOf
  <2>3. CASE id = op.id
    <3>1. aux_promised[id] # Absent BY <1>3, <2>1, <2>3 DEF Settled
    <3>2. old \in ActiveSlots /\ \A t \in ActiveSlots : SlotAt(t).id = id => t = old
      BY <2>1, <2>3, <3>1 DEF Settled, Sole
    <3>3. \A t \in ActiveSlots' : SlotAt(t)'.id = id => t = old
      BY <1>8, <3>2, ActiveSlot
    <3>4. locations'[id] = old /\ SlotAt(locations[id])'.offset = offset
      BY <1>2, <1>3, <1>8, <2>3 DEF SlotAt
    <3>5. Stored(pages[op.page].bytes, SlotAt(locations[id]).offset, op.doc)'
      BY <1>1, <1>5, <3>4 DEF Stored
    <3>6. HalfRewritten(id)'
      <4> HIDE DEF IInv, old
      <4> QED BY <1>8, <3>2, <3>3, <3>4, <3>5 DEF HalfRewritten, Sole
    <3> QED BY <1>1, <2>3, <3>6 DEF ContentOf, Midway
  <2> QED BY <2>2, <2>3
<1>12. RecoveredIsPromised' BY <1>1, <1>2 DEF RecoveredIsPromised
<1>13. HeaderWritten' BY <1>1, <1>2, <1>5 DEF HeaderWritten
<1> QED BY <1>6, <1>7, <1>9, <1>11, <1>12, <1>13

\* With the length in the slot the object is the new document.
LEMMA RewriteSlotPreserves ==
  ASSUME IInv, RewriteSlot
  PROVE  IInv'
<1> USE DEF IInv
<1> DEFINE old == locations[op.id]
           slot == [SlotAt(old) EXCEPT !.length = Length[op.doc]]
<1>1. op.pc = "rewrite_slot" /\ op' = Idle /\ aux_promised' = Applied
      /\ UNCHANGED <<disk_header, header, locations, up, aux_suspect, faults>>
  BY DEF RewriteSlot, Return, Unfaulted
<1>2. /\ up /\ op # Idle /\ op.kind = "update" /\ op.doc \in Documents
      /\ op.id \in ObjectIds /\ op.id \in DOMAIN locations
      /\ old = <<op.page, old[2]>> /\ op.page \in DOMAIN pages /\ op.page = old[1]
      /\ old[2] \in SlotsOf(op.page) /\ old[2] \in 1 .. Len(pages[op.page].slots)
      /\ SlotAt(old) = pages[op.page].slots[old[2]] /\ SlotAt(old) \in SlotType
      /\ SlotAt(old).id = op.id
      /\ Length[op.doc] <= SlotAt(old).capacity
  BY <1>1, RewritingFields DEF Rewriting
<1>3. /\ slot \in SlotType /\ slot.id = op.id /\ slot.offset = SlotAt(old).offset
      /\ slot.capacity = SlotAt(old).capacity /\ slot.length = Length[op.doc]
      /\ slot.active = SlotAt(old).active
  <2>1. Length[op.doc] \in 0 .. PAGE_SIZE
    <3>1. SlotAt(old).capacity \in 0 .. PAGE_SIZE BY <1>2 DEF SlotType
    <3> QED BY <1>2, <3>1
  <2> HIDE DEF old
  <2> QED BY <1>2, <2>1 DEF SlotType
<1>4. ReplacesSlot(op.page, old[2], slot)
  <2>1. pages' = [pages EXCEPT ![op.page].slots[old[2]] = slot]
    BY <1>2 DEF RewriteSlot
  <2> HIDE DEF old, slot, IInv
  <2>2. Types BY DEF IInv
  <2> QED BY <1>2, <1>3, <2>1, <2>2, SlotReplaced
<1>5. /\ PagesWellFormed'
      /\ \A q \in DOMAIN pages : SlotsOf(q)' = SlotsOf(q)
      /\ \A q \in DOMAIN pages' : IF q <= header.page_count THEN Formatted(pages'[q])
                                                            ELSE Unformatted(pages'[q])
      /\ \A q \in DOMAIN pages' : \A j \in SlotsOf(q)' : pages'[q].slots[j].id < header.next_id
      /\ \A q \in DOMAIN pages : \A j \in SlotsOf(q) : pages'[q].slots[j].id = pages[q].slots[j].id
  <2> HIDE DEF old, slot
  <2> QED BY <1>2, <1>3, <1>4, SlotsKept
<1>6. /\ DOMAIN pages' = DOMAIN pages /\ Len(pages') = Len(pages) /\ pages' \in Seq(PageType)
      /\ \A q \in DOMAIN pages : pages'[q].header = pages[q].header /\ pages'[q].bytes = pages[q].bytes
      /\ pages'[op.page].slots[old[2]] = slot
      /\ \A q \in DOMAIN pages : \A j \in 1 .. Len(pages[q].slots) :
           <<q, j>> # old => pages'[q].slots[j] = pages[q].slots[j]
  BY <1>2, <1>4, ZenonT(30) DEF ReplacesSlot
<1> HIDE DEF slot
<1>7. Types' BY <1>1, <1>2, <1>6, AppliedPromise, ZenonT(30) DEF Types, Operations
<1>8. MemoryMatches'
  <2>1. \A id \in DOMAIN locations : IsCounted(locations[id])' /\ SlotAt(locations[id])'.id = id
    <3> SUFFICES ASSUME NEW id \in DOMAIN locations
                 PROVE  IsCounted(locations[id])' /\ SlotAt(locations[id])'.id = id
      OBVIOUS
    <3>1. IsCounted(locations[id]) /\ SlotAt(locations[id]).id = id
      BY <1>2 DEF MemoryMatches
    <3>2. locations[id][1] \in DOMAIN pages
      BY <1>2, IndexedSlots
    <3> QED BY <1>1, <1>5, <3>1, <3>2 DEF IsCounted, SlotAt
  <2> QED BY <1>1, <1>2, <1>5, <1>6, <2>1 DEF MemoryMatches
<1>9. OperationProgress' BY <1>1 DEF OperationProgress
<1>10. /\ ActiveSlots' = ActiveSlots
       /\ \A t \in ActiveSlots : SlotAt(t)'.id = SlotAt(t).id
       /\ \A t \in ActiveSlots : t # old => SlotAt(t)' = SlotAt(t)
       /\ \A t \in ActiveSlots : t # old => \A d : Holds(t, d) => Holds(t, d)'
  <2>0. \A q \in DOMAIN pages : \A j \in SlotsOf(q) : j \in 1 .. Len(pages[q].slots)
    BY CountedSlot DEF PagesWellFormed
  <2>1. ASSUME NEW q \in DOMAIN pages, NEW j \in SlotsOf(q)
        PROVE  pages'[q].slots[j].active = pages[q].slots[j].active
    <3>1. CASE <<q, j>> = old
      <4>1. q = old[1] /\ j = old[2] /\ op.page = old[1]
        BY <1>2, <3>1
      <4>2. pages'[q].slots[j] = slot
        BY <1>6, <4>1
      <4>3. SlotAt(old) = pages[q].slots[j]
        BY <4>1 DEF SlotAt
      <4> QED BY <1>3, <4>2, <4>3
    <3>2. CASE <<q, j>> # old
      BY <1>6, <2>0, <3>2
    <3> QED BY <3>1, <3>2
  <2>2. ActiveSlots' = ActiveSlots
    <3>1. ASSUME NEW t \in ActiveSlots PROVE t \in ActiveSlots'
      <4>1. /\ t[1] \in DOMAIN pages /\ t[2] \in SlotsOf(t[1]) /\ t = <<t[1], t[2]>>
            /\ pages[t[1]].slots[t[2]].active
        BY ActiveSlot DEF SlotAt
      <4>2. t[2] \in SlotsOf(t[1])' /\ pages'[t[1]].slots[t[2]].active
        BY <1>5, <2>1, <4>1
      <4> QED BY <1>6, <4>1, <4>2 DEF ActiveSlots, SlotsOf
    <3>2. ASSUME NEW t \in ActiveSlots' PROVE t \in ActiveSlots
      <4>1. /\ t[1] \in DOMAIN pages /\ t[2] \in SlotsOf(t[1])' /\ t = <<t[1], t[2]>>
            /\ pages'[t[1]].slots[t[2]].active
        BY <1>6 DEF ActiveSlots, SlotsOf
      <4>2. t[2] \in SlotsOf(t[1]) /\ pages[t[1]].slots[t[2]].active
        BY <1>5, <2>1, <4>1
      <4> QED BY <4>1, <4>2, ActiveSlot
    <3> QED BY <3>1, <3>2
  <2>3. ASSUME NEW t \in ActiveSlots
        PROVE  /\ SlotAt(t)'.id = SlotAt(t).id /\ t[1] \in DOMAIN pages
               /\ t # old => SlotAt(t)' = SlotAt(t)
    <3>1. /\ t[1] \in DOMAIN pages /\ t[2] \in SlotsOf(t[1]) /\ t = <<t[1], t[2]>>
          /\ SlotAt(t) = pages[t[1]].slots[t[2]]
      BY ActiveSlot
    <3> QED BY <1>5, <1>6, <2>0, <3>1 DEF SlotAt
  <2>4. ASSUME NEW t \in ActiveSlots, t # old, NEW d, Holds(t, d) PROVE Holds(t, d)'
    BY <1>6, <2>3, <2>4 DEF Holds, Stored
  <2> QED BY <2>2, <2>3, <2>4
<1>11. Contents'
  <2> SUFFICES ASSUME NEW id \in ObjectIds, id \notin aux_suspect
               PROVE  Settled(id, aux_promised[id])'
    BY <1>1 DEF Contents, ContentOf
  <2>1. PICK d : d = Applied[id] OBVIOUS
  <2>2. CASE id # op.id
    <3>1. Settled(id, d) /\ d = aux_promised[id]
      BY <1>1, <1>2, <2>1, <2>2, AppliedPromise DEF Contents, ContentOf
    <3>2. \A t \in ActiveSlots : SlotAt(t).id = id =>
            t \in ActiveSlots' /\ SlotAt(t)'.id = id /\ (d # Absent /\ Holds(t, d) => Holds(t, d)')
      BY <1>2, <1>10, <2>2
    <3>3. \A t \in ActiveSlots' : SlotAt(t)'.id = id => t \in ActiveSlots /\ SlotAt(t).id = id
      BY <1>10
    <3>4. id \in DOMAIN locations => SlotAt(locations[id]).id = id
      BY <1>2, IndexedSlots
    <3>5. Settled(id, d)'
      <4> HIDE DEF IInv, old
      <4> QED BY <1>1, <3>1, <3>2, <3>3, <3>4, SettledKept
    <3> QED BY <1>1, <2>1, <3>5
  <2>3. CASE id = op.id
    <3>1. HalfRewritten(id) /\ d = op.doc
      BY <1>1, <1>2, <2>1, <2>3, AppliedPromise DEF Contents, ContentOf, Midway
    <3>2. old \in ActiveSlots /\ Stored(pages[op.page].bytes, SlotAt(old).offset, d)
          /\ \A t \in ActiveSlots : SlotAt(t).id = id => t = old
      BY <2>3, <3>1 DEF HalfRewritten, Sole
    <3>3. ASSUME NEW t, t = old PROVE Holds(t, d)'
      <4>1. SlotAt(t)' = slot /\ t[1] = op.page BY <1>2, <1>6, <3>3 DEF SlotAt
      <4>2. slot.length = Length[d] /\ Stored(pages'[op.page].bytes, slot.offset, d)
        BY <1>2, <1>3, <1>6, <3>1, <3>2
      <4> QED BY <4>1, <4>2 DEF Holds
    <3>4. \A t \in ActiveSlots' : SlotAt(t)'.id = id => t = old
      BY <1>10, <3>2
    <3>5. id \in DOMAIN locations' /\ locations'[id] = old /\ old \in ActiveSlots'
          /\ d # Absent
      BY <1>1, <1>2, <1>10, <2>3, <3>1, <3>2
    <3>6. Holds(locations[id], d)'
      <4> HIDE DEF old
      <4> QED BY <3>3, <3>5
    <3>7. Settled(id, d)'
      <4> HIDE DEF old, IInv
      <4> QED BY <3>4, <3>5, <3>6 DEF Settled, Sole
    <3> QED BY <1>1, <2>1, <3>7
  <2> QED BY <2>2, <2>3
<1>12. RecoveredIsPromised' BY <1>1, <1>2 DEF RecoveredIsPromised
<1>13. HeaderWritten' BY <1>1, <1>6 DEF HeaderWritten
<1> QED BY <1>5, <1>7, <1>8, <1>9, <1>11, <1>12, <1>13

-----------------------------------------------------------------------------
(* Crashes, closing and opening *)

\* A slot that holds a document decodes to it alone.
LEMMA HeldDocument ==
  ASSUME NEW s, NEW d \in Documents, Holds(s, d)
  PROVE  DocumentsAt(s) = {d}
<1>1. d \in DocumentsAt(s)
  BY DEF DocumentsAt, Decode, Holds, Stored
<1>2. ASSUME NEW e \in DocumentsAt(s) PROVE e = d
  <2>1. 0 \in 0 .. Length[d] - 1 OBVIOUS
  <2>2. pages[s[1]].bytes[SlotAt(s).offset + 0] = <<d, 0>>
    BY <2>1 DEF Holds, Stored
  <2>3. pages[s[1]].bytes[SlotAt(s).offset + 0] = <<e, 0>>
    BY <1>2, <2>1 DEF DocumentsAt, Decode, Holds
  <2> QED BY <2>2, <2>3
<1> QED BY <1>1, <1>2

\* Opening finds the one active slot of an ID, and none where there is none.
LEMMA OpenedSole ==
  ASSUME NEW id \in ObjectIds
  PROVE  /\ \A s \in ActiveSlots : SlotAt(s).id = id /\ Sole(id, s) =>
              id \in DOMAIN OpenedLocations /\ OpenedLocations[id] = s
         /\ (\A s \in ActiveSlots : SlotAt(s).id # id) => Recovered[id] = Absent
<1>1. ASSUME NEW s \in ActiveSlots, SlotAt(s).id = id, Sole(id, s)
      PROVE  id \in DOMAIN OpenedLocations /\ OpenedLocations[id] = s
  <2>1. id \in {SlotAt(t).id : t \in ActiveSlots} BY <1>1
  <2>2. s = CHOOSE t \in ActiveSlots : SlotAt(t).id = id BY <1>1 DEF Sole
  <2> QED BY <2>1, <2>2 DEF OpenedLocations
<1>2. ASSUME \A s \in ActiveSlots : SlotAt(s).id # id
      PROVE  Recovered[id] = Absent
  <2>1. id \notin DOMAIN OpenedLocations BY <1>2 DEF OpenedLocations
  <2> QED BY <2>1 DEF Recovered
<1> QED BY <1>1, <1>2

\* Opening recovers a settled content.
LEMMA RecoveredSettled ==
  ASSUME NEW id \in ObjectIds, NEW d \in Documents \cup {Absent}, Settled(id, d),
         id \in DOMAIN locations => SlotAt(locations[id]).id = id
  PROVE  Recovered[id] = d
<1>1. CASE d = Absent
  BY <1>1, OpenedSole DEF Settled
<1>2. CASE d # Absent
  <2>1. /\ id \in DOMAIN locations /\ locations[id] \in ActiveSlots /\ Holds(locations[id], d)
        /\ Sole(id, locations[id]) /\ SlotAt(locations[id]).id = id
    BY <1>2 DEF Settled
  <2>2. id \in DOMAIN OpenedLocations /\ OpenedLocations[id] = locations[id]
    BY <2>1, OpenedSole
  <2>3. DocumentsAt(OpenedLocations[id]) = {d}
    BY <1>2, <2>1, <2>2, HeldDocument
  <2>4. Recovered[id] = CHOOSE e \in Documents : e \in {d}
    BY <2>2, <2>3 DEF Recovered
  <2> QED BY <1>2, <2>4
<1> QED BY <1>1, <1>2

\* What a process that dies leaves behind: the promise, or the promise with the
\* interrupted operation applied.
LEMMA InterruptedOperation ==
  ASSUME IInv, up, op # Idle, OpenSucceeds
  PROVE  Agrees(Recovered, aux_promised) \/ Agrees(Recovered, Applied)
<1> USE DEF IInv
<1>1. aux_promised \in [ObjectIds -> Documents \cup {Absent}] /\ op.id \in ObjectIds
  BY OperationFields DEF Types
<1>2. \A id \in DOMAIN locations : SlotAt(locations[id]).id = id
  BY IndexedSlots
<1>3. ASSUME NEW id \in ObjectIds \ aux_suspect, id # op.id
      PROVE  Recovered[id] = aux_promised[id] /\ Applied[id] = aux_promised[id]
  <2>1. Settled(id, aux_promised[id]) BY <1>3 DEF Contents, ContentOf
  <2> QED BY <1>1, <1>2, <1>3, <2>1, RecoveredSettled, AppliedPromise
<1>4. ASSUME op.id \notin aux_suspect
      PROVE  Recovered[op.id] = aux_promised[op.id] \/ Recovered[op.id] = Applied[op.id]
  <2>1. ContentOf(op.id) BY <1>1, <1>4 DEF Contents
  <2>2. Applied[op.id] = op.doc /\ op.doc \in Documents \cup {Absent}
    BY AppliedPromise, OperationFields
  <2>3. CASE ~Midway
    <3>1. Settled(op.id, aux_promised[op.id]) BY <2>1, <2>3 DEF ContentOf
    <3> QED BY <1>1, <1>2, <3>1, RecoveredSettled
  <2>4. CASE op.pc = "file_header"
    <3>1. Settled(op.id, op.doc) BY <2>1, <2>4 DEF ContentOf, Midway
    <3> QED BY <1>1, <1>2, <2>2, <3>1, RecoveredSettled
  <2>5. CASE op.pc = "rewrite_slot"
    <3> DEFINE old == locations[op.id]
    <3>1. HalfRewritten(op.id) BY <2>1, <2>5 DEF ContentOf, Midway
    <3>2. /\ old \in ActiveSlots /\ Stored(pages[op.page].bytes, SlotAt(old).offset, op.doc)
          /\ Sole(op.id, old)
      BY <3>1 DEF HalfRewritten
    <3>3. op.doc \in Documents /\ op.page = old[1] /\ SlotAt(old).id = op.id
      BY <2>5, RewritingFields DEF Rewriting
    <3>4. op.id \in DOMAIN OpenedLocations /\ OpenedLocations[op.id] = old
      BY <1>1, <3>2, <3>3, OpenedSole
    <3>5. DocumentsAt(old) # {} BY <3>2 DEF OpenSucceeds
    <3>6. ASSUME NEW d \in DocumentsAt(old) PROVE d = op.doc
      <4>1. d \in Documents /\ Length[d] = SlotAt(old).length
            /\ \A k \in 0 .. SlotAt(old).length - 1 :
                 pages[old[1]].bytes[SlotAt(old).offset + k] = <<d, k>>
        BY DEF DocumentsAt, Decode
      <4>2. 0 \in 0 .. SlotAt(old).length - 1 /\ 0 \in 0 .. Length[op.doc] - 1
        <5>1. Length[d] \in Nat \ {0} /\ Length[op.doc] \in Nat \ {0}
          BY <3>3, <4>1, LengthAssumption
        <5>2. \A n \in Nat \ {0} : 0 \in 0 .. n - 1
          OBVIOUS
        <5> QED BY <4>1, <5>1, <5>2
      <4>3. pages[old[1]].bytes[SlotAt(old).offset + 0] = <<d, 0>>
        BY <4>1, <4>2
      <4>4. pages[old[1]].bytes[SlotAt(old).offset + 0] = <<op.doc, 0>>
        BY <3>2, <3>3, <4>2 DEF Stored
      <4>5. <<d, 0>> = <<op.doc, 0>>
        <5> HIDE DEF old
        <5> QED BY <4>3, <4>4
      <4> QED BY <4>5
    <3>7. DocumentsAt(old) = {op.doc} BY <3>5, <3>6
    <3>8. Recovered[op.id] = CHOOSE d \in Documents : d \in {op.doc}
      BY <1>1, <3>4, <3>7 DEF Recovered
    <3> QED BY <2>2, <3>3, <3>8
  <2>6. CASE op.pc = "mark_deleted" /\ op.kind = "update"
    <3> DEFINE old == locations[op.id]
               new == <<op.page, pages[op.page].header.slot_count>>
    <3>1. Relocating(op.id) BY <2>1, <2>6 DEF ContentOf, Midway
    <3>2. old \in ActiveSlots /\ new \in ActiveSlots BY <3>1 DEF Relocating
    <3>3. SlotAt(new).id = op.id /\ new # old /\ SlotAt(old).id = op.id
      BY <1>2, <2>6 DEF OperationProgress
    <3>4. \A s, t \in ActiveSlots : SlotAt(s).id = SlotAt(t).id => s = t
      BY DEF OpenSucceeds
    <3> HIDE DEF old, new
    <3> QED BY <3>2, <3>3, <3>4
  <2> QED BY <2>3, <2>4, <2>5, <2>6 DEF Midway
<1> QED BY <1>3, <1>4 DEF Agrees

\* Whether the file opens, and with which contents, is a matter of the disk.
LEMMA SameDisk ==
  ASSUME UNCHANGED <<disk_header, pages>>
  PROVE  OpenSucceeds' = OpenSucceeds /\ Recovered' = Recovered
<1>1. ActiveSlots' = ActiveSlots BY DEF ActiveSlots, SlotsOf
<1>2. \A s : SlotAt(s)' = SlotAt(s) /\ DocumentsAt(s)' = DocumentsAt(s)
  BY DEF SlotAt, DocumentsAt
<1>3. OpenSucceeds' = OpenSucceeds
  BY <1>1, <1>2 DEF OpenSucceeds, SlotsOf, SlotValid
<1>4. OpenedLocations' = OpenedLocations BY <1>1, <1>2 DEF OpenedLocations
<1>5. Recovered' = Recovered
  <2> DEFINE Pick(S) == CHOOSE d \in Documents : d \in S
  <2>1. Recovered = [id \in ObjectIds |-> IF id \in DOMAIN OpenedLocations
                                            THEN Pick(DocumentsAt(OpenedLocations[id])) ELSE Absent]
    BY DEF Recovered
  <2>2. Recovered' = [id \in ObjectIds |-> IF id \in DOMAIN OpenedLocations'
                                             THEN Pick(DocumentsAt(OpenedLocations[id])') ELSE Absent]
    BY DEF Recovered
  <2>3. \A id : DocumentsAt(OpenedLocations[id])' = DocumentsAt(OpenedLocations[id])
    BY <1>2, <1>4
  <2> HIDE DEF Pick
  <2> QED BY <1>4, <2>1, <2>2, <2>3
<1> QED BY <1>3, <1>5

\* Memory is gone; the disk is what it was.
LEMMA ForgottenMemory ==
  ASSUME IInv, ForgetMemory, aux_promised' \in [ObjectIds -> Documents \cup {Absent}],
         OpenSucceeds => Agrees(Recovered, aux_promised')
  PROVE  IInv'
<1> USE DEF IInv
<1>1. /\ up' = FALSE /\ op' = Idle /\ header' = EmptyFileHeader /\ locations' = <<>>
      /\ UNCHANGED <<disk_header, pages, aux_suspect, faults>>
  BY DEF ForgetMemory
<1>2. EmptyFileHeader \in FileHeaderType /\ DOMAIN <<>> = {} /\ <<>> = [id \in DOMAIN <<>> |-> <<>>[id]]
  BY DEF EmptyFileHeader, FileHeaderType
<1>3. Types' BY <1>1, <1>2 DEF Types, Operations
<1>4. PagesWellFormed' BY <1>1 DEF PagesWellFormed
<1>5. MemoryMatches' BY <1>1 DEF MemoryMatches
<1>6. OperationProgress' BY <1>1 DEF OperationProgress
<1>7. Contents' BY <1>1 DEF Contents
<1>8. HeaderWritten' BY <1>1 DEF HeaderWritten
<1>9. RecoveredIsPromised'
  <2> QED BY <1>1, SameDisk DEF RecoveredIsPromised, Agrees
<1> QED BY <1>3, <1>4, <1>5, <1>6, <1>7, <1>8, <1>9

\* A crash leaves what was promised, or that with the interrupted operation applied.
LEMMA CrashPreserves ==
  ASSUME IInv, Crash
  PROVE  IInv'
<1>1. OpenSucceeds => Agrees(Recovered, aux_promised) \/ Agrees(Recovered, Applied)
  BY InterruptedOperation DEF Crash
<1>2. OpenSucceeds => Agrees(Recovered, aux_promised')
  BY <1>1 DEF Crash
<1>3. aux_promised' \in [ObjectIds -> Documents \cup {Absent}]
  BY AppliedPromise DEF Crash, IInv, Types
<1> QED BY <1>2, <1>3, ForgottenMemory DEF Crash

\* Closing between two operations leaves what was promised.
LEMMA ClosePreserves ==
  ASSUME IInv, Close
  PROVE  IInv'
<1>1. \A id \in DOMAIN locations : SlotAt(locations[id]).id = id
  BY IndexedSlots DEF Close
<1>2. aux_promised \in [ObjectIds -> Documents \cup {Absent}]
  BY DEF IInv, Types
<1>3. \A id \in ObjectIds \ aux_suspect : Recovered[id] = aux_promised[id]
  <2> SUFFICES ASSUME NEW id \in ObjectIds \ aux_suspect PROVE Recovered[id] = aux_promised[id]
    OBVIOUS
  <2>1. Settled(id, aux_promised[id]) BY DEF Close, IInv, Contents, ContentOf
  <2> QED BY <1>1, <1>2, <2>1, RecoveredSettled
<1> QED BY <1>2, <1>3, ForgottenMemory DEF Close, Agrees

\* The index open builds: one active slot of every ID that has one.
LEMMA OpenedIndex ==
  ASSUME \A s, t \in ActiveSlots : SlotAt(s).id = SlotAt(t).id => s = t
  PROVE  /\ \A id \in DOMAIN OpenedLocations :
              OpenedLocations[id] \in ActiveSlots /\ SlotAt(OpenedLocations[id]).id = id
         /\ \A s \in ActiveSlots : /\ SlotAt(s).id \in DOMAIN OpenedLocations
                                   /\ OpenedLocations[SlotAt(s).id] = s
         /\ OpenedLocations \in [DOMAIN OpenedLocations -> ActiveSlots]
<1>1. DOMAIN OpenedLocations = {SlotAt(s).id : s \in ActiveSlots}
  BY DEF OpenedLocations
<1>2. ASSUME NEW id \in DOMAIN OpenedLocations
      PROVE  OpenedLocations[id] \in ActiveSlots /\ SlotAt(OpenedLocations[id]).id = id
  <2>1. \E s \in ActiveSlots : SlotAt(s).id = id BY <1>1
  <2>2. OpenedLocations[id] = CHOOSE s \in ActiveSlots : SlotAt(s).id = id
    BY <1>1 DEF OpenedLocations
  <2> QED BY <2>1, <2>2
<1>3. OpenedLocations = [id \in DOMAIN OpenedLocations |-> OpenedLocations[id]]
  BY DEF OpenedLocations
<1>4. \A s \in ActiveSlots : SlotAt(s).id \in DOMAIN OpenedLocations /\ OpenedLocations[SlotAt(s).id] = s
  BY <1>1, <1>2
<1>5. OpenedLocations \in [DOMAIN OpenedLocations -> ActiveSlots]
  BY <1>2, <1>3
<1> QED BY <1>2, <1>4, <1>5

\* It has as many entries as there are active slots.
LEMMA CountedIndex ==
  ASSUME IsFiniteSet(DOMAIN OpenedLocations),
         \A s, t \in ActiveSlots : SlotAt(s).id = SlotAt(t).id => s = t
  PROVE  Cardinality(DOMAIN OpenedLocations) = Cardinality(ActiveSlots)
<1>1. OpenedLocations \in Surjection(DOMAIN OpenedLocations, ActiveSlots)
  BY OpenedIndex DEF Surjection
<1>2. OpenedLocations \in Injection(DOMAIN OpenedLocations, ActiveSlots)
  BY OpenedIndex DEF Injection, IsInjective
<1> QED BY <1>1, <1>2, FS_Surjection

\* The index and the header open builds match the file it read.
LEMMA OpenPreserves ==
  ASSUME IInv, Open
  PROVE  IInv'
<1> USE DEF IInv
<1>1. /\ ~up /\ up' = TRUE /\ OpenSucceeds /\ op = Idle /\ op' = op
      /\ header' = disk_header /\ locations' = OpenedLocations
      /\ UNCHANGED <<disk_header, pages, aux_promised, aux_suspect, faults>>
  BY DEF Open, MemoryMatches
<1>2. /\ disk_header.next_id <= SIZE_MAX /\ Len(pages) = disk_header.page_count
      /\ \A p \in DOMAIN pages : validate_page_header(pages[p].header)
      /\ \A p \in DOMAIN pages : \A i \in SlotsOf(p) : SlotValid(p, i)
      /\ \A s, t \in ActiveSlots : SlotAt(s).id = SlotAt(t).id => s = t
      /\ \A s \in ActiveSlots : DocumentsAt(s) # {}
      /\ Cardinality(ActiveSlots) = disk_header.live_count
  BY <1>1 DEF OpenSucceeds
<1>3. \A p \in DOMAIN pages : Formatted(pages[p])
  BY <1>2 DEF PagesWellFormed, Unformatted, ZeroPage, validate_page_header
<1>4. \A p \in DOMAIN pages : \A i \in SlotsOf(p) : i \in 1 .. Len(pages[p].slots)
  BY <1>3, CountedSlot
<1>5. \A s \in ActiveSlots : SlotAt(s).id \in ObjectIds
  BY <1>4, ActiveSlot, SlotFields
<1>6. /\ \A id \in DOMAIN OpenedLocations :
           OpenedLocations[id] \in ActiveSlots /\ SlotAt(OpenedLocations[id]).id = id
      /\ \A s \in ActiveSlots : /\ SlotAt(s).id \in DOMAIN OpenedLocations
                                /\ OpenedLocations[SlotAt(s).id] = s
  BY <1>2, OpenedIndex
<1>7. DOMAIN OpenedLocations \subseteq ObjectIds
  BY <1>5, <1>6
<1>15. locations' = [id \in DOMAIN locations' |-> locations'[id]]
  BY <1>1 DEF OpenedLocations
<1>8. Types' BY <1>1, <1>7, <1>15 DEF Types
<1>9. PagesWellFormed' BY <1>1 DEF PagesWellFormed
<1>10. MemoryMatches'
  <2>1. \A p \in DOMAIN pages : p <= disk_header.page_count
    BY <1>2, HeaderFields
  <2>2. \A p \in DOMAIN pages : \A i \in SlotsOf(p) : pages[p].slots[i].id < disk_header.next_id
    BY <1>2 DEF SlotValid
  <2>3. \A id \in DOMAIN locations' : IsCounted(locations[id])' /\ SlotAt(locations[id])'.id = id
    <3> SUFFICES ASSUME NEW id \in DOMAIN OpenedLocations
                 PROVE  IsCounted(locations[id])' /\ SlotAt(locations[id])'.id = id
      BY <1>1
    <3> DEFINE s == OpenedLocations[id]
    <3>1. s \in ActiveSlots /\ SlotAt(s).id = id BY <1>6
    <3> HIDE DEF s
    <3>2. s[1] \in DOMAIN pages /\ s[2] \in SlotsOf(s[1]) /\ s = <<s[1], s[2]>>
      BY <3>1, ActiveSlot
    <3>3. s[1] \in 1 .. disk_header.page_count /\ s[2] \in Nat
      BY <1>2, <3>2, HeaderFields DEF SlotsOf
    <3>4. locations'[id] = s BY <1>1 DEF s
    <3> QED BY <1>1, <3>1, <3>2, <3>3, <3>4 DEF IsCounted, SlotsOf, SlotAt
  <2>4. disk_header.live_count = Cardinality(DOMAIN OpenedLocations)
    BY <1>2, <1>7, FiniteIndex, CountedIndex
  <2>5. Len(pages) \in disk_header.page_count .. disk_header.page_count + 1
    BY <1>2, HeaderFields
  <2> QED BY <1>1, <1>3, <2>1, <2>2, <2>3, <2>4, <2>5 DEF MemoryMatches, SlotsOf
<1>11. OperationProgress' BY <1>1 DEF OperationProgress
<1>12. Contents'
  <2> SUFFICES ASSUME NEW id \in ObjectIds \ aux_suspect
               PROVE  Settled(id, aux_promised[id])'
    BY <1>1 DEF Contents, ContentOf
  <2>1. PICK d : d = aux_promised[id] OBVIOUS
  <2>2. d \in Documents \cup {Absent} BY <2>1 DEF Types
  <2>3. Recovered[id] = d BY <1>1, <2>1 DEF RecoveredIsPromised, Agrees
  <2>4. ActiveSlots' = ActiveSlots BY <1>1 DEF ActiveSlots, SlotsOf
  <2>5. \A s : SlotAt(s)' = SlotAt(s) BY <1>1 DEF SlotAt
  <2>6. CASE id \notin DOMAIN OpenedLocations
    <3>1. d = Absent BY <2>3, <2>6 DEF Recovered
    <3>2. \A t \in ActiveSlots : SlotAt(t).id # id BY <1>6, <2>6
    <3>3. Settled(id, d)' BY <1>1, <2>4, <2>5, <2>6, <3>1, <3>2 DEF Settled
    <3> QED BY <1>1, <2>1, <3>3
  <2>7. CASE id \in DOMAIN OpenedLocations
    <3> DEFINE s == OpenedLocations[id]
    <3>1. s \in ActiveSlots /\ SlotAt(s).id = id BY <1>6, <2>7
    <3>2. \E e \in Documents : e \in DocumentsAt(s)
      BY <1>2, <3>1 DEF DocumentsAt, Decode
    <3>3. d \in Documents /\ d \in DocumentsAt(s)
      BY <2>3, <2>7, <3>2 DEF Recovered
    <3>4. SlotAt(s).length = Length[d] /\ Stored(pages[s[1]].bytes, SlotAt(s).offset, d)
      BY <3>3 DEF DocumentsAt, Decode, Stored
    <3>5. locations'[id] = s /\ id \in DOMAIN locations' BY <1>1, <2>7
    <3>6. ASSUME NEW t, t = s PROVE Holds(t, d)'
      BY <1>1, <2>5, <3>4, <3>6 DEF Holds, Stored
    <3>7. \A t \in ActiveSlots' : SlotAt(t)'.id = id => t = s
      BY <1>6, <2>4, <2>5
    <3> HIDE DEF s
    <3>8. Holds(locations[id], d)' BY <3>5, <3>6
    <3>9. Settled(id, d)' BY <2>4, <3>1, <3>3, <3>5, <3>7, <3>8 DEF Settled, Sole
    <3> QED BY <1>1, <2>1, <3>9
  <2> QED BY <2>6, <2>7
<1>13. RecoveredIsPromised' BY <1>1 DEF RecoveredIsPromised
<1>14. HeaderWritten' BY <1>1, <1>2 DEF HeaderWritten
<1> QED BY <1>8, <1>9, <1>10, <1>11, <1>12, <1>13, <1>14

\* A file linklet_object_file_initialize has made satisfies the invariant.
LEMMA InitEstablishes ==
  ASSUME Init
  PROVE  IInv
<1> USE DEF Init
<1>1. EmptyFileHeader \in FileHeaderType
  BY DEF EmptyFileHeader, FileHeaderType
<1>2. Types BY <1>1 DEF Types, Operations
<1>3. PagesWellFormed BY DEF PagesWellFormed
<1>4. DOMAIN locations = {} /\ DOMAIN pages = {} /\ Len(pages) = 0 OBVIOUS
<1>5. MemoryMatches BY <1>4, FS_EmptySet DEF MemoryMatches, EmptyFileHeader
<1>6. OperationProgress BY DEF OperationProgress
<1>7. ActiveSlots = {} BY <1>4 DEF ActiveSlots
<1>8. Contents BY <1>4, <1>7 DEF Contents, ContentOf, Settled
<1>9. RecoveredIsPromised BY DEF RecoveredIsPromised
<1>10. HeaderWritten BY DEF HeaderWritten, EmptyFileHeader
<1> QED BY <1>2, <1>3, <1>5, <1>6, <1>8, <1>9, <1>10 DEF IInv

\* A step that changes nothing keeps the invariant.
LEMMA StutterPreserves ==
  ASSUME IInv, UNCHANGED vars
  PROVE  IInv'
<1> USE DEF IInv
<1>1. UNCHANGED <<disk_header, pages, up, header, locations, op, aux_promised, aux_suspect, faults>>
  BY DEF vars
<1>2. Types' BY <1>1 DEF Types
<1>3. PagesWellFormed' BY <1>1 DEF PagesWellFormed
<1>4. MemoryMatches' BY <1>1 DEF MemoryMatches, IsCounted, SlotsOf, SlotAt
<1>5. OperationProgress'
  BY <1>1 DEF OperationProgress, IsCounted, SlotsOf, SlotAt, NewSlot, NewSlotIndex, PayloadOffset
<1>6. Contents'
  <2> SUFFICES ASSUME NEW id \in ObjectIds \ aux_suspect, up PROVE ContentOf(id)'
    BY <1>1 DEF Contents
  <2>1. ContentOf(id) BY DEF Contents
  <2>2. \A d : Settled(id, d) => Settled(id, d)' BY <1>1, SamePages
  <2>3. /\ Settled(id, aux_promised[id]) => Settled(id, aux_promised[id])'
        /\ Settled(id, op.doc) => Settled(id, op.doc)'
    BY <1>1, <2>2
  <2>4. ActiveSlots' = ActiveSlots BY <1>1 DEF ActiveSlots, SlotsOf
  <2>5. \A t : SlotAt(t)' = SlotAt(t) BY <1>1 DEF SlotAt
  <2>6. HalfRewritten(id) => HalfRewritten(id)'
    BY <1>1, <2>4, <2>5 DEF HalfRewritten, Sole, Stored
  <2>7. Relocating(id) => Relocating(id)'
    <3>1. \A t, d : Holds(t, d) => Holds(t, d)' BY <1>1, <2>5 DEF Holds, Stored
    <3> QED BY <1>1, <2>4, <2>5, <3>1 DEF Relocating
  <2>8. Midway' = Midway BY <1>1 DEF Midway
  <2>9. CASE op = Idle \/ op.id # id \/ ~Midway
    BY <1>1, <2>1, <2>3, <2>8, <2>9 DEF ContentOf
  <2>10. CASE ~(op = Idle \/ op.id # id \/ ~Midway) /\ op.pc = "file_header"
    BY <1>1, <2>1, <2>3, <2>8, <2>10 DEF ContentOf
  <2>11. CASE ~(op = Idle \/ op.id # id \/ ~Midway) /\ op.pc = "rewrite_slot"
    BY <1>1, <2>1, <2>6, <2>8, <2>11 DEF ContentOf
  <2>12. CASE ~(op = Idle \/ op.id # id \/ ~Midway) /\ op.pc = "mark_deleted"
    BY <1>1, <2>1, <2>7, <2>8, <2>12 DEF ContentOf
  <2> QED BY <2>9, <2>10, <2>11, <2>12 DEF Midway
<1>7. RecoveredIsPromised' BY <1>1, SameDisk DEF RecoveredIsPromised, Agrees
<1>8. HeaderWritten' BY <1>1 DEF HeaderWritten
<1> QED BY <1>2, <1>3, <1>4, <1>5, <1>6, <1>7, <1>8

-----------------------------------------------------------------------------
(* The theorems *)

\* Every write of every operation preserves the invariant.
LEMMA WritePreserves ==
  ASSUME IInv, Write
  PROVE  IInv'
BY AppendResizePreserves, AppendPageHeaderPreserves, AppendFileHeaderPreserves,
   PlacePayloadPreserves, PlaceSlotPreserves, PlacePageHeaderPreserves,
   MarkDeletedPreserves, WriteFileHeaderPreserves,
   RewritePayloadPreserves, RewriteSlotPreserves DEF Write

\* The invariant holds in every state of every behaviour of the file: between any two
\* writes, after crashes, after failing writes and after opening.
THEOREM Inductive == Spec => []IInv
<1>1. Init => IInv
  BY InitEstablishes
<1>2. IInv /\ [Next]_vars => IInv'
  BY InsertPreserves, UpdatePreserves, DeletePreserves, WritePreserves, WriteFailsPreserves,
     CrashPreserves, ClosePreserves, OpenPreserves, StutterPreserves DEF Next
<1> QED BY <1>1, <1>2, PTL DEF Spec

\* The invariant gives the types of the variables.
LEMMA InvariantTypes == IInv => TypeOK
<1> SUFFICES ASSUME IInv PROVE TypeOK
  OBVIOUS
<1> USE DEF IInv
<1>1. Len(pages) \in 0 .. UINT32_MAX + 1
  BY HeaderFields DEF Types
<1>2. \A p \in DOMAIN pages :
        /\ pages[p].header \in [magic : BOOLEAN, slot_count : 0 .. PAGE_SIZE,
                                free_start : 0 .. PAGE_SIZE, free_end : 0 .. PAGE_SIZE]
        /\ pages[p].slots \in Seq(SlotType)
  BY PageFields DEF PageHeaderType
<1>3. \A id \in DOMAIN locations : locations[id] \in (DOMAIN pages) \X Nat
  <2> SUFFICES ASSUME NEW id \in DOMAIN locations PROVE locations[id] \in (DOMAIN pages) \X Nat
    OBVIOUS
  <2>1. up BY DEF MemoryMatches
  <2>2. /\ locations[id] = <<locations[id][1], locations[id][2]>>
        /\ locations[id][1] \in DOMAIN pages /\ locations[id][2] \in SlotsOf(locations[id][1])
    BY <2>1, IndexedSlots
  <2>3. locations[id][2] \in Nat BY <2>2 DEF SlotsOf
  <2> QED BY <2>2, <2>3
<1> QED BY <1>1, <1>2, <1>3 DEF Types, TypeOK

\* No counter, offset or index of the paged object file leaves the range of its field.
THEOREM TypeCorrect == Spec => []TypeOK
BY Inductive, InvariantTypes, PTL

\* Slots that lie apart behind the free space occupy different bytes.
LEMMA InvariantDisjoint == IInv => PayloadsDisjoint
<1> SUFFICES ASSUME IInv, NEW p \in DOMAIN pages
             PROVE  /\ \A i \in SlotsOf(p) :
                         /\ pages[p].slots[i].length <= pages[p].slots[i].capacity
                         /\ Extent(pages[p].slots[i]) \subseteq
                              PAGE_HEADER_SIZE + SLOT_SIZE * Len(pages[p].slots) .. PAGE_SIZE - 1
                    /\ \A i, j \in SlotsOf(p) :
                         i # j => Extent(pages[p].slots[i]) \cap Extent(pages[p].slots[j]) = {}
  BY DEF PayloadsDisjoint
<1> USE DEF IInv
<1> DEFINE n == pages[p].header.slot_count
           m == Len(pages[p].slots)
<1>1. ASSUME NEW i \in SlotsOf(p)
      PROVE  /\ i \in 1 .. m /\ Formatted(pages[p]) /\ Inside(pages[p], i)
             /\ pages[p].slots[i].offset \in Nat /\ pages[p].slots[i].capacity \in Nat
  <2>1. i \in 1 .. m /\ Formatted(pages[p]) BY CountedSlot DEF PagesWellFormed
  <2>2. Inside(pages[p], i) BY <2>1 DEF Formatted, SlotsOf
  <2> QED BY <2>1, <2>2, SlotFields
<1>2. ASSUME Formatted(pages[p])
      PROVE  PAGE_HEADER_SIZE + SLOT_SIZE * m <= pages[p].header.free_end
  <2>1. /\ n \in Nat /\ m \in Nat /\ pages[p].header.free_start \in Nat
        /\ pages[p].header.free_end \in Nat
    <3>1. pages[p].header \in PageHeaderType BY PageFields
    <3> QED BY <3>1, PageFields DEF PageHeaderType
  <2>2. /\ pages[p].header.free_start = PAGE_HEADER_SIZE + n * SLOT_SIZE
        /\ pages[p].header.free_start <= pages[p].header.free_end
        /\ m \in n .. n + 1
        /\ m > n => pages[p].header.free_start + SLOT_SIZE <= pages[p].header.free_end
    BY <1>2 DEF Formatted, validate_page_header
  <2> HIDE DEF n, m
  <2>3. n * SLOT_SIZE \in Nat /\ (n + 1) * SLOT_SIZE = n * SLOT_SIZE + SLOT_SIZE
    BY <2>1, SlotArray
  <2>4. SLOT_SIZE * n = n * SLOT_SIZE /\ SLOT_SIZE * (n + 1) = (n + 1) * SLOT_SIZE
    BY <2>1
  <2>5. CASE m = n BY <2>1, <2>2, <2>3, <2>4, <2>5
  <2>6. CASE m = n + 1 BY <2>1, <2>2, <2>3, <2>4, <2>6
  <2> QED BY <2>1, <2>2, <2>5, <2>6
<1>3. ASSUME NEW i \in SlotsOf(p)
      PROVE  /\ pages[p].slots[i].length <= pages[p].slots[i].capacity
             /\ Extent(pages[p].slots[i]) \subseteq PAGE_HEADER_SIZE + SLOT_SIZE * m .. PAGE_SIZE - 1
  <2>1. /\ pages[p].slots[i].length <= pages[p].slots[i].capacity
        /\ pages[p].header.free_end <= pages[p].slots[i].offset
        /\ pages[p].slots[i].offset + pages[p].slots[i].capacity <= PAGE_SIZE
    BY <1>1 DEF Inside
  <2>2. PAGE_HEADER_SIZE + SLOT_SIZE * m <= pages[p].header.free_end BY <1>1, <1>2
  <2>3. SLOT_SIZE * m \in Nat /\ pages[p].header.free_end \in Nat
    <3>1. pages[p].header \in PageHeaderType /\ m \in Nat BY PageFields
    <3>2. pages[p].header.free_end \in Nat BY <3>1 DEF PageHeaderType
    <3> HIDE DEF m
    <3>3. SLOT_SIZE * m \in Nat BY <3>1
    <3> QED BY <3>2, <3>3
  <2> HIDE DEF m
  <2> QED BY <1>1, <2>1, <2>2, <2>3 DEF Extent
<1>4. ASSUME NEW i \in SlotsOf(p), NEW j \in SlotsOf(p), i # j
      PROVE  Extent(pages[p].slots[i]) \cap Extent(pages[p].slots[j]) = {}
  <2>1. Apart(pages[p].slots[i], pages[p].slots[j])
    BY <1>1, <1>4 DEF Formatted, SlotsOf
  <2>2. SUFFICES ASSUME NEW k \in Extent(pages[p].slots[i]), k \in Extent(pages[p].slots[j])
                 PROVE  FALSE
    OBVIOUS
  <2>3. /\ pages[p].slots[i].offset \in Nat /\ pages[p].slots[i].capacity \in Nat
        /\ pages[p].slots[j].offset \in Nat /\ pages[p].slots[j].capacity \in Nat
    BY <1>1
  <2>4. /\ k \in pages[p].slots[i].offset .. pages[p].slots[i].offset + pages[p].slots[i].capacity - 1
        /\ k \in pages[p].slots[j].offset .. pages[p].slots[j].offset + pages[p].slots[j].capacity - 1
    BY <2>2 DEF Extent
  <2> QED BY <2>1, <2>3, <2>4 DEF Apart
<1> HIDE DEF m
<1> QED BY <1>3, <1>4 DEF m

\* place_object and updates in place never let two payloads, or a payload and the slot
\* array, share bytes of a page, whatever was written, crashed or failed before.
THEOREM DisjointPayloads == Spec => []PayloadsDisjoint
BY Inductive, InvariantDisjoint, PTL

\* linklet_object_file_open finds after a crash, under every ID no write failed on, what
\* the operations that returned promised, with the interrupted one applied or not.
THEOREM PromiseRecovered == Spec => []RecoveredIsPromised
BY Inductive, PTL DEF IInv

\* A settled object is what linklet_object_file_read returns.
LEMMA InvariantContained == IInv => FailuresAreContained
<1> SUFFICES ASSUME IInv, Quiet, NEW id \in ObjectIds \ aux_suspect
             PROVE  Read(id) = {aux_promised[id]} \ {Absent}
  BY DEF FailuresAreContained
<1>1. up /\ op = Idle BY DEF Quiet
<1>2. Settled(id, aux_promised[id]) /\ aux_promised[id] \in Documents \cup {Absent}
  BY <1>1 DEF IInv, Contents, ContentOf, Types
<1>3. CASE aux_promised[id] = Absent
  BY <1>2, <1>3 DEF Settled, Read
<1>4. CASE aux_promised[id] # Absent
  <2>1. /\ id \in DOMAIN locations /\ locations[id] \in ActiveSlots
        /\ Holds(locations[id], aux_promised[id]) /\ SlotAt(locations[id]).active
    BY <1>2, <1>4, ActiveSlot DEF Settled
  <2>2. SlotAt(locations[id]).id = id BY <1>1, <2>1, IndexedSlots
  <2>3. DocumentsAt(locations[id]) = {aux_promised[id]}
    BY <1>2, <1>4, <2>1, HeldDocument
  <2> QED BY <1>4, <2>1, <2>2, <2>3 DEF Read
<1> QED BY <1>3, <1>4

\* An operation that fails at any of its writes does not change what
\* linklet_object_file_read returns for any other object.
THEOREM ContainedFailures == Spec => []FailuresAreContained
BY Inductive, InvariantContained, PTL

\* Between operations of a file no write failed on, every active slot is in the index.
LEMMA InvariantReopens == IInv => ReopenRestores
<1> SUFFICES ASSUME IInv, Quiet, faults = 0, header.page_count <= UINT32_MAX
             PROVE  /\ OpenSucceeds
                    /\ disk_header = header
                    /\ OpenedLocations = locations
  BY DEF ReopenRestores
<1> USE DEF IInv
<1>1. up /\ op = Idle BY DEF Quiet
<1>2. disk_header = header /\ Len(pages) = header.page_count /\ aux_suspect = {}
  BY <1>1 DEF HeaderWritten, Idle
<1>3. \A id \in ObjectIds :
        /\ Settled(id, aux_promised[id]) /\ aux_promised[id] \in Documents \cup {Absent}
  BY <1>1, <1>2 DEF Contents, ContentOf, Types
<1>4. \A p \in DOMAIN pages : Formatted(pages[p])
  BY <1>1, <1>2, HeaderFields DEF MemoryMatches
<1>5. \A p \in DOMAIN pages : \A i \in SlotsOf(p) : i \in 1 .. Len(pages[p].slots)
  BY <1>4, CountedSlot
<1>6. ASSUME NEW t \in ActiveSlots
      PROVE  /\ SlotAt(t).id \in DOMAIN locations /\ locations[SlotAt(t).id] = t
             /\ DocumentsAt(t) # {}
  <2> DEFINE id == SlotAt(t).id
  <2>1. id \in ObjectIds BY <1>5, ActiveSlot, SlotFields
  <2>2. Settled(id, aux_promised[id]) /\ aux_promised[id] \in Documents \cup {Absent}
    BY <1>3, <2>1
  <2>3. aux_promised[id] # Absent BY <2>2 DEF Settled
  <2>4. id \in DOMAIN locations /\ locations[id] = t /\ Holds(t, aux_promised[id])
    BY <2>2, <2>3 DEF Settled, Sole
  <2> HIDE DEF id
  <2>5. DocumentsAt(t) = {aux_promised[id]} BY <2>2, <2>3, <2>4, HeldDocument
  <2> QED BY <2>4, <2>5 DEF id
<1>7. ASSUME NEW id \in DOMAIN locations
      PROVE  locations[id] \in ActiveSlots /\ SlotAt(locations[id]).id = id
  <2>1. SlotAt(locations[id]).id = id /\ id \in ObjectIds BY <1>1, IndexedSlots
  <2>2. Settled(id, aux_promised[id]) BY <1>3, <2>1
  <2>3. aux_promised[id] # Absent BY <2>2 DEF Settled
  <2> QED BY <2>1, <2>2, <2>3 DEF Settled
<1>8. \A s, t \in ActiveSlots : SlotAt(s).id = SlotAt(t).id => s = t
  BY <1>6
<1>9. /\ \A id \in DOMAIN OpenedLocations :
           OpenedLocations[id] \in ActiveSlots /\ SlotAt(OpenedLocations[id]).id = id
      /\ \A s \in ActiveSlots : /\ SlotAt(s).id \in DOMAIN OpenedLocations
                                /\ OpenedLocations[SlotAt(s).id] = s
      /\ OpenedLocations \in [DOMAIN OpenedLocations -> ActiveSlots]
  BY <1>8, OpenedIndex
<1>10. OpenedLocations = locations
  <2>1. DOMAIN OpenedLocations = DOMAIN locations
    <3>1. \A id \in DOMAIN OpenedLocations : id \in DOMAIN locations BY <1>6, <1>9
    <3>2. \A id \in DOMAIN locations : id \in DOMAIN OpenedLocations BY <1>7, <1>9
    <3> QED BY <3>1, <3>2
  <2>2. \A id \in DOMAIN locations : OpenedLocations[id] = locations[id]
    BY <1>7, <1>9
  <2>3. locations = [id \in DOMAIN locations |-> locations[id]]
    BY DEF Types
  <2> QED BY <1>9, <2>1, <2>2, <2>3
<1>11. Cardinality(ActiveSlots) = disk_header.live_count
  <2>1. DOMAIN locations \subseteq ObjectIds /\ header.live_count = Cardinality(DOMAIN locations)
    BY <1>1 DEF Types, MemoryMatches
  <2>2. IsFiniteSet(DOMAIN OpenedLocations) BY <1>10, <2>1, FiniteIndex
  <2> QED BY <1>2, <1>8, <1>10, <2>1, <2>2, CountedIndex
<1>12. \A p \in DOMAIN pages : \A i \in SlotsOf(p) : SlotValid(p, i)
  <2> SUFFICES ASSUME NEW p \in DOMAIN pages, NEW i \in SlotsOf(p) PROVE SlotValid(p, i)
    OBVIOUS
  <2>1. Inside(pages[p], i) BY <1>4 DEF Formatted, SlotsOf
  <2>2. pages[p].slots[i].id < header.next_id BY <1>1 DEF MemoryMatches
  <2>3. pages[p].header.free_end \in Nat /\ pages[p].slots[i].offset \in Nat
    <3>1. pages[p].header \in PageHeaderType BY PageFields
    <3> QED BY <1>5, <3>1, SlotFields DEF PageHeaderType
  <2> QED BY <1>2, <2>1, <2>2, <2>3 DEF Inside, SlotValid
<1>13. /\ disk_header.next_id <= SIZE_MAX /\ disk_header.page_count <= UINT32_MAX
       /\ Len(pages) = disk_header.page_count
       /\ \A p \in DOMAIN pages : validate_page_header(pages[p].header)
  BY <1>2, <1>4, HeaderFields DEF Formatted
<1>14. \A s \in ActiveSlots : DocumentsAt(s) # {} BY <1>6
<1> QED BY <1>2, <1>8, <1>10, <1>11, <1>12, <1>13, <1>14 DEF OpenSucceeds

\* If no write has failed, linklet_object_file_open accepts between operations the file
\* and rebuilds the header and the index the process has in memory, as long as append_page
\* has not added the one page more than open accepts.
THEOREM RestoredOnReopening == Spec => []ReopenRestores
BY Inductive, InvariantReopens, PTL

-----------------------------------------------------------------------------
(* Refinement of the abstract object file, as long as no write has failed.  The   *)
(* abstract objects are the promises of the operations that returned, and next_id *)
(* is the one on disk: an insert and a delete take effect with the write of the   *)
(* file header, an update with its last write, and a crash may complete the       *)
(* interrupted operation or lose the file.                                        *)

\* The next ID as the disk knows it: only an insert that is about to write the file
\* header has issued one more in memory.
IssuedInMemory ==
  IF op # Idle /\ op.pc = "file_header" /\ op.kind = "insert" THEN header.next_id - 1
                                                              ELSE header.next_id

\* What IInv does not say of the IDs, as long as no write has failed: an update and a
\* delete are of an object, and an insert issues the next ID of the disk.
IdsInStep ==
  faults = 0 =>
    /\ op # Idle /\ op.kind # "insert" => aux_promised[op.id] # Absent
    /\ op # Idle /\ op.kind = "insert" /\ op.pc = "file_header" => header.next_id = op.id + 1
    /\ up => disk_header.next_id = IssuedInMemory

\* The abstract state in terms of the promises and of the disk.
Mapping == Objects = aux_promised /\ IssuedIds = disk_header.next_id

-----------------------------------------------------------------------------
(* The invariant *)

\* The steps that start an operation leave file and memory alone.
LEMMA StartKeepsIds ==
  ASSUME IInv, IInv', IdsInStep, op = Idle, op'.pc # "file_header",
         UNCHANGED <<disk_header, pages, up, header, locations, aux_promised, aux_suspect, faults>>
  PROVE  IdsInStep'
<1> USE DEF IInv
<1>1. ASSUME faults = 0, op' # Idle, op'.kind # "insert" PROVE aux_promised[op'.id] # Absent
  <2>1. op' \in Operations BY DEF Types
  <2>2. op'.kind \in {"update", "delete"} BY <1>1, <2>1 DEF Operations, StepsOf
  <2>3. op'.kind = "update" \/ op'.pc = "mark_deleted"
    BY <1>1, <2>2 DEF OperationProgress, StepsOf
  <2>4. op'.id \in DOMAIN locations BY <1>1, <2>3 DEF OperationProgress
  <2>5. op'.id \in ObjectIds BY <2>4 DEF Types
  <2>6. up BY <2>4 DEF MemoryMatches
  <2>7. aux_suspect = {} BY <1>1 DEF HeaderWritten
  <2>8. Settled(op'.id, aux_promised[op'.id]) BY <2>5, <2>6, <2>7 DEF Contents, ContentOf
  <2> QED BY <2>4, <2>8 DEF Settled
<1>2. IssuedInMemory' = IssuedInMemory BY DEF IssuedInMemory
<1> QED BY <1>1, <1>2 DEF IdsInStep

\* A step from one write to the next issues no ID.
LEMMA NextWriteKeepsIds ==
  ASSUME IdsInStep, op # Idle, op' # Idle, op.pc # "file_header",
         op'.kind = op.kind, op'.id = op.id, op'.pc = "file_header" => op.kind = "delete",
         header'.next_id = header.next_id,
         disk_header'.next_id \in {disk_header.next_id, header.next_id},
         UNCHANGED <<up, aux_promised, faults>>
  PROVE  IdsInStep'
<1>1. IssuedInMemory = header.next_id /\ IssuedInMemory' = header.next_id
  BY DEF IssuedInMemory
<1> QED BY <1>1 DEF IdsInStep

\* The last write of an operation ends with memory and disk at the same next ID.
LEMMA ReturnKeepsIds ==
  ASSUME IdsInStep, op' = Idle, header' = header, UNCHANGED <<up, faults>>,
         \/ disk_header' = header
         \/ disk_header' = disk_header /\ op.pc # "file_header"
  PROVE  IdsInStep'
<1>1. IssuedInMemory' = header.next_id BY DEF IssuedInMemory
<1>2. op.pc # "file_header" => IssuedInMemory = header.next_id BY DEF IssuedInMemory
<1> QED BY <1>1, <1>2 DEF IdsInStep

\* The page header write of an insert issues the ID in memory.
LEMMA PlacePageHeaderKeepsIds ==
  ASSUME IInv, IdsInStep, PlacePageHeader
  PROVE  IdsInStep'
<1> USE DEF IInv
<1>1. op # Idle /\ op.pc = "page_header" /\ op.pc \in Steps
  BY DEF PlacePageHeader, Idle, Steps, Placing
<1>2. UNCHANGED <<disk_header, up, faults>> BY DEF PlacePageHeader, Unfaulted
<1>3. CASE op.kind = "insert"
  <2>1. op.id = header.next_id /\ header.next_id \in Nat
    BY <1>1, <1>3, HeaderFields DEF OperationProgress
  <2>2. Goto("file_header") /\ header' = [header EXCEPT !.next_id = @ + 1, !.live_count = @ + 1]
    BY <1>3 DEF PlacePageHeader
  <2>3. op' # Idle /\ op'.pc = "file_header" /\ op'.kind = "insert" /\ op'.id = op.id
    BY <1>1, <1>3, <2>2, GotoNext DEF Steps
  <2>4. header \in FileHeaderType BY DEF Types
  <2>5. header'.next_id = header.next_id + 1 BY <2>2, <2>4 DEF FileHeaderType
  <2>6. IssuedInMemory = header.next_id BY <1>1 DEF IssuedInMemory
  <2>7. IssuedInMemory' = header.next_id BY <2>1, <2>3, <2>5 DEF IssuedInMemory
  <2> QED BY <1>2, <2>1, <2>3, <2>5, <2>6, <2>7 DEF IdsInStep
<1>4. CASE op.kind # "insert"
  <2>1. Goto("mark_deleted") /\ header' = header BY <1>4 DEF PlacePageHeader
  <2>2. /\ op' # Idle /\ op'.pc = "mark_deleted" /\ op'.kind = op.kind /\ op'.id = op.id
        /\ aux_promised' = aux_promised
    BY <1>1, <2>1, GotoNext DEF Steps
  <2> QED BY <1>1, <1>2, <2>1, <2>2, NextWriteKeepsIds
<1> QED BY <1>3, <1>4

\* Flagging the slot of a deleted object issues no ID; that of an update is its last write.
LEMMA MarkDeletedKeepsIds ==
  ASSUME IInv, IdsInStep, MarkDeleted
  PROVE  IdsInStep'
<1> USE DEF IInv
<1>1. op # Idle /\ op.pc = "mark_deleted" /\ op.pc \in Steps
  BY DEF MarkDeleted, Idle, Steps
<1>2. UNCHANGED <<disk_header, up, faults>> BY DEF MarkDeleted, Unfaulted
<1>3. CASE op.kind = "delete"
  <2>1. Goto("file_header") /\ header' = HeaderAfterDelete(header) BY <1>3 DEF MarkDeleted
  <2>2. /\ op' # Idle /\ op'.kind = op.kind /\ op'.id = op.id
        /\ aux_promised' = aux_promised
    BY <1>1, <2>1, GotoNext DEF Steps
  <2>3. header \in FileHeaderType BY DEF Types
  <2>4. header'.next_id = header.next_id BY <2>1, <2>3 DEF HeaderAfterDelete, FileHeaderType
  <2> QED BY <1>1, <1>2, <1>3, <2>2, <2>4, NextWriteKeepsIds
<1>4. CASE op.kind # "delete"
  <2>1. op' = Idle /\ header' = header BY <1>4 DEF MarkDeleted, Return
  <2> QED BY <1>1, <1>2, <2>1, ReturnKeepsIds
<1> QED BY <1>3, <1>4

\* Every write of every operation.
LEMMA WriteKeepsIds ==
  ASSUME IInv, IdsInStep, Write
  PROVE  IdsInStep'
<1> USE DEF IInv
<1>0. header \in FileHeaderType BY DEF Types
<1>1. ASSUME op.pc \in Steps, op.pc # "file_header", NEW pc \in Steps, pc # "file_header", Goto(pc),
             header'.next_id = header.next_id,
             disk_header'.next_id \in {disk_header.next_id, header.next_id}, UNCHANGED <<up, faults>>
      PROVE  IdsInStep'
  <2>1. /\ op # Idle /\ op' # Idle /\ op'.pc = pc /\ op'.kind = op.kind /\ op'.id = op.id
        /\ aux_promised' = aux_promised
    BY <1>1, GotoNext
  <2> QED BY <1>1, <2>1, NextWriteKeepsIds
<1> USE DEF Unfaulted, Steps, Appending, Placing, Rewriting
<1>2. CASE AppendResize BY <1>1, <1>2 DEF AppendResize
<1>3. CASE AppendPageHeader BY <1>0, <1>1, <1>3 DEF AppendPageHeader, FileHeaderType
<1>4. CASE AppendFileHeader BY <1>1, <1>4 DEF AppendFileHeader
<1>5. CASE PlacePayload BY <1>1, <1>5 DEF PlacePayload
<1>6. CASE PlaceSlot BY <1>1, <1>6 DEF PlaceSlot
<1>7. CASE RewritePayload BY <1>1, <1>7 DEF RewritePayload
<1>8. CASE WriteFileHeader BY <1>8, ReturnKeepsIds DEF WriteFileHeader, Return
<1>9. CASE RewriteSlot BY <1>9, ReturnKeepsIds DEF RewriteSlot, Return
<1> QED
  BY <1>2, <1>3, <1>4, <1>5, <1>6, <1>7, <1>8, <1>9, PlacePageHeaderKeepsIds, MarkDeletedKeepsIds
  DEF Write

\* The steps that end or begin the life of the process, and failing writes.
LEMMA RestartKeepsIds ==
  ASSUME IInv, IdsInStep, WriteFails \/ Crash \/ Close \/ Open \/ UNCHANGED vars
  PROVE  IdsInStep'
<1> USE DEF IInv
<1>1. CASE WriteFails
  <2>1. faults' # 0 BY <1>1 DEF WriteFails, Types
  <2> QED BY <2>1 DEF IdsInStep
<1>2. CASE Crash \/ Close
  <2>1. ~up' /\ op' = Idle BY <1>2 DEF Crash, Close, ForgetMemory
  <2> QED BY <2>1 DEF IdsInStep
<1>3. CASE Open
  <2>1. op = Idle /\ op' = Idle /\ header' = disk_header /\ disk_header' = disk_header
    BY <1>3 DEF Open, MemoryMatches
  <2>2. IssuedInMemory' = disk_header.next_id BY <2>1 DEF IssuedInMemory
  <2> QED BY <2>1, <2>2 DEF IdsInStep
<1>4. CASE UNCHANGED vars
  BY <1>4 DEF vars, IdsInStep, IssuedInMemory
<1> QED BY <1>1, <1>2, <1>3, <1>4

\* Every step.
LEMMA StepKeepsIds ==
  ASSUME IInv, IInv', IdsInStep, [Next]_vars
  PROVE  IdsInStep'
<1>1. ASSUME NEW d \in Documents, Insert(d) PROVE IdsInStep'
  <2>1. op'.pc # "file_header" BY <1>1, FoundPage DEF Insert
  <2> QED BY <1>1, <2>1, StartKeepsIds DEF Insert
<1>2. ASSUME NEW id \in ObjectIds, NEW d \in Documents, Update(id, d) PROVE IdsInStep'
  <2>1. op'.pc # "file_header" BY <1>2, FoundPage DEF Update
  <2> QED BY <1>2, <2>1, StartKeepsIds DEF Update
<1>3. ASSUME NEW id \in ObjectIds, Delete(id) PROVE IdsInStep'
  <2>1. op'.pc # "file_header" BY <1>3 DEF Delete
  <2> QED BY <1>3, <2>1, StartKeepsIds DEF Delete
<1> QED BY <1>1, <1>2, <1>3, WriteKeepsIds, RestartKeepsIds DEF Next

-----------------------------------------------------------------------------
(* The mapping *)

\* As long as no write has failed, the objects of the mapping are the promises and its
\* next ID is that of the disk.
LEMMA MappedState == IInv /\ IdsInStep /\ faults = 0 => Mapping
<1> SUFFICES ASSUME IInv, IdsInStep, faults = 0 PROVE Mapping
  OBVIOUS
<1>1. Objects = aux_promised
  <2>1. aux_promised \in [ObjectIds -> Documents \cup {Absent}] BY DEF IInv, Types
  <2>2. CASE ~Quiet BY <2>2 DEF Objects
  <2>3. CASE Quiet
    <3>1. aux_suspect = {} BY DEF IInv, HeaderWritten
    <3>2. \A id \in ObjectIds : Read(id) = {aux_promised[id]} \ {Absent}
      BY <2>3, <3>1, InvariantContained DEF FailuresAreContained
    <3>3. ASSUME NEW id \in ObjectIds
          PROVE  (IF Read(id) = {} THEN Absent ELSE CHOOSE d \in Read(id) : TRUE) = aux_promised[id]
      <4>1. CASE aux_promised[id] = Absent
        <5>1. Read(id) = {} BY <3>2, <4>1
        <5> QED BY <4>1, <5>1
      <4>2. CASE aux_promised[id] # Absent
        <5>1. Read(id) = {aux_promised[id]} BY <3>2, <4>2
        <5> QED BY <5>1
      <4> QED BY <4>1, <4>2
    <3>4. Objects = [id \in ObjectIds |->
                       IF Read(id) = {} THEN Absent ELSE CHOOSE d \in Read(id) : TRUE]
      BY <2>3 DEF Objects
    <3>5. Objects = [id \in ObjectIds |-> aux_promised[id]] BY <3>3, <3>4
    <3> QED BY <2>1, <3>5
  <2> QED BY <2>2, <2>3
<1>2. IssuedIds = disk_header.next_id
  <2>1. ~up => op = Idle BY DEF IInv, MemoryMatches
  <2> QED BY <2>1 DEF IssuedIds, IssuedInMemory, IdsInStep, Quiet
<1> QED BY <1>1, <1>2 DEF Mapping

\* The same of the next state.
LEMMA MappedNext == (IInv /\ IdsInStep /\ faults = 0)' => Mapping'
BY MappedState, PTL

\* A step that neither returns nor loses the file leaves the abstract state alone.
LEMMA RefineQuietSteps ==
  ASSUME Mapping, Mapping', aux_promised' = aux_promised,
         disk_header'.next_id = disk_header.next_id,
         (up' \/ OpenSucceeds') <=> (up \/ OpenSucceeds)
  PROVE  UNCHANGED Abstract!abstractVars
<1>1. Objects' = Objects /\ IssuedIds' = IssuedIds BY DEF Mapping
<1> QED BY <1>1 DEF Abstract!abstractVars

\* A step that applies an update or a delete.
LEMMA RefineApplied ==
  ASSUME IInv, IdsInStep, faults = 0, Mapping, Mapping', up, up' \/ OpenSucceeds',
         op # Idle, op.kind # "insert", aux_promised' = Applied,
         disk_header'.next_id = disk_header.next_id
  PROVE  Abstract!Next
<1>1. op.id \in ObjectIds /\ op.doc \in Documents \cup {Absent} /\ op.kind \in {"update", "delete"}
  BY OperationFields DEF IInv
<1>2. aux_promised[op.id] # Absent BY DEF IdsInStep
<1>3. op.doc = Absent <=> op.kind = "delete" BY DEF IInv, OperationProgress
<1>4. Objects' = [Objects EXCEPT ![op.id] = op.doc] /\ IssuedIds' = IssuedIds
  BY DEF Mapping, Applied
<1>5. Objects[op.id] # Absent BY <1>2 DEF Mapping
<1>6. CASE op.doc = Absent
  <2>1. Abstract!Delete(op.id) BY <1>4, <1>5, <1>6 DEF Abstract!Delete
  <2> QED BY <1>1, <2>1 DEF Abstract!Next, Abstract!ObjectIds, ObjectIds
<1>7. CASE op.doc # Absent
  <2>1. Abstract!Update(op.id, op.doc) BY <1>4, <1>5 DEF Abstract!Update
  <2> QED BY <1>1, <1>7, <2>1 DEF Abstract!Next, Abstract!ObjectIds, ObjectIds
<1> QED BY <1>6, <1>7

\* The file header write makes an insert or a delete.
LEMMA RefineWriteFileHeader ==
  ASSUME IInv, IdsInStep, faults = 0, Mapping, Mapping', WriteFileHeader
  PROVE  Abstract!Next
<1>1. /\ op # Idle /\ op.pc = "file_header" /\ disk_header' = header /\ aux_promised' = Applied
      /\ UNCHANGED <<header, up>>
  BY DEF WriteFileHeader, Return, Unfaulted, Idle
<1>2. up BY <1>1 DEF IInv, MemoryMatches
<1>3. CASE op.kind = "insert"
  <2>1. header.next_id = op.id + 1 /\ op.id \in ObjectIds
    BY <1>1, <1>3, OperationFields DEF IInv, IdsInStep
  <2>2. disk_header.next_id = op.id
    BY <1>1, <1>2, <1>3, <2>1 DEF IdsInStep, IssuedInMemory, ObjectIds
  <2>3. op.doc \in Documents
    BY <1>1, <1>3, OperationFields DEF IInv, OperationProgress
  <2>4. Objects' = [Objects EXCEPT ![IssuedIds] = op.doc] /\ IssuedIds' = IssuedIds + 1
    BY <1>1, <2>1, <2>2 DEF Mapping, Applied
  <2>5. IssuedIds < SIZE_MAX BY <2>1, <2>2 DEF Mapping, ObjectIds
  <2>6. Abstract!Insert(op.doc) BY <1>1, <1>2, <2>4, <2>5 DEF Abstract!Insert
  <2> QED BY <2>3, <2>6 DEF Abstract!Next
<1>4. CASE op.kind # "insert"
  <2>1. disk_header.next_id = header.next_id
    BY <1>2, <1>4 DEF IdsInStep, IssuedInMemory
  <2> QED BY <1>1, <1>2, <1>4, <2>1, RefineApplied
<1> QED BY <1>3, <1>4

\* No file that opens holds an object under the ID an interrupted insert would have got.
LEMMA InterruptedInsert ==
  ASSUME IInv, IdsInStep, faults = 0, up, op # Idle, op.kind = "insert", OpenSucceeds
  PROVE  ~Agrees(Recovered, Applied)
<1> USE DEF IInv
<1>1. op.id \in ObjectIds /\ op.doc \in Documents
  BY OperationFields DEF OperationProgress
<1>2. disk_header.next_id = op.id
  <2>1. op.id \in Nat BY <1>1 DEF ObjectIds
  <2> QED BY <2>1 DEF IdsInStep, IssuedInMemory, OperationProgress
<1>3. aux_suspect = {} BY DEF HeaderWritten
<1>4. Applied[op.id] = op.doc BY AppliedPromise
<1>5. ASSUME Recovered[op.id] = op.doc PROVE FALSE
  <2>1. op.doc # Absent BY <1>1
  <2>2. PICK s \in ActiveSlots : SlotAt(s).id = op.id
    BY <1>1, <1>5, <2>1, OpenedSole
  <2>3. s[1] \in DOMAIN pages /\ s[2] \in SlotsOf(s[1]) BY ActiveSlot
  <2>4. SlotValid(s[1], s[2]) BY <2>3 DEF OpenSucceeds
  <2>5. op.id < disk_header.next_id BY <2>2, <2>4 DEF SlotValid, SlotAt
  <2> QED BY <1>1, <1>2, <2>5 DEF ObjectIds
<1> QED BY <1>1, <1>3, <1>4, <1>5 DEF Agrees

\* A crash or close that leaves a file that open refuses.
LEMMA RefineLose ==
  ASSUME Mapping, Mapping', up, ~up', ~OpenSucceeds', aux_promised' = aux_promised,
         disk_header' = disk_header
  PROVE  Abstract!Next
<1>1. Objects' = Objects /\ IssuedIds' = IssuedIds BY DEF Mapping
<1>2. Abstract!Lose BY <1>1 DEF Abstract!Lose
<1> QED BY <1>2 DEF Abstract!Next

\* A crash completes the interrupted operation, undoes it or loses the file.
LEMMA RefineCrash ==
  ASSUME IInv, IdsInStep, faults = 0, Mapping, Mapping', Crash
  PROVE  Abstract!Next \/ UNCHANGED Abstract!abstractVars
<1>1. up /\ ~up' /\ op # Idle /\ UNCHANGED <<disk_header, pages>>
  BY DEF Crash, ForgetMemory
<1>2. OpenSucceeds' = OpenSucceeds BY <1>1, SameDisk
<1>3. CASE ~OpenSucceeds
  <2>1. aux_promised' = aux_promised BY <1>3 DEF Crash
  <2> QED BY <1>1, <1>2, <1>3, <2>1, RefineLose
<1>4. CASE OpenSucceeds /\ ~Agrees(Recovered, Applied)
  <2>1. aux_promised' = aux_promised BY <1>4 DEF Crash
  <2> QED BY <1>1, <1>2, <1>4, <2>1, RefineQuietSteps
<1>5. CASE OpenSucceeds /\ Agrees(Recovered, Applied)
  <2>1. aux_promised' = Applied BY <1>5 DEF Crash
  <2>2. op.kind # "insert" BY <1>1, <1>5, InterruptedInsert
  <2> QED BY <1>1, <1>2, <1>5, <2>1, <2>2, RefineApplied
<1> QED BY <1>3, <1>4, <1>5

\* Closing leaves a file that opens, or loses it, when it has one page too many.
LEMMA RefineClose ==
  ASSUME Mapping, Mapping', Close
  PROVE  Abstract!Next \/ UNCHANGED Abstract!abstractVars
<1>1. up /\ ~up' /\ UNCHANGED <<disk_header, pages, aux_promised>>
  BY DEF Close, ForgetMemory
<1>2. OpenSucceeds' = OpenSucceeds BY <1>1, SameDisk
<1>3. CASE ~OpenSucceeds BY <1>1, <1>2, <1>3, RefineLose
<1>4. CASE OpenSucceeds BY <1>1, <1>2, <1>4, RefineQuietSteps
<1> QED BY <1>3, <1>4

\* The writes: the last one of an update and the file header change the objects.
LEMMA RefineWrite ==
  ASSUME IInv, IdsInStep, faults = 0, Mapping, Mapping', Write
  PROVE  Abstract!Next \/ UNCHANGED Abstract!abstractVars
<1>1. op # Idle
  <2>1. op = Idle => op.pc = "idle" BY DEF Idle
  <2>2. op.pc # "idle"
    BY DEF Write, AppendResize, AppendPageHeader, AppendFileHeader, PlacePayload, PlaceSlot,
           PlacePageHeader, MarkDeleted, WriteFileHeader, RewritePayload, RewriteSlot
  <2> QED BY <2>1, <2>2
<1>2. up BY <1>1 DEF IInv, MemoryMatches
<1>3. up'
  BY <1>2 DEF Write, AppendResize, AppendPageHeader, AppendFileHeader, PlacePayload, PlaceSlot,
              PlacePageHeader, MarkDeleted, WriteFileHeader, RewritePayload, RewriteSlot, Unfaulted
<1>4. ASSUME NEW pc, Goto(pc), disk_header' = disk_header
      PROVE  UNCHANGED Abstract!abstractVars
  BY <1>2, <1>3, <1>4, RefineQuietSteps DEF Goto
<1>5. CASE AppendFileHeader
  <2>1. /\ op.pc = "append_file_header" /\ disk_header' = header /\ aux_promised' = aux_promised
    BY <1>5 DEF AppendFileHeader, Goto
  <2>2. disk_header.next_id = header.next_id BY <1>2, <2>1 DEF IdsInStep, IssuedInMemory
  <2> QED BY <1>2, <1>3, <2>1, <2>2, RefineQuietSteps
<1>6. CASE MarkDeleted
  <2>1. disk_header' = disk_header /\ op.pc = "mark_deleted" BY <1>6 DEF MarkDeleted
  <2>2. CASE op.kind = "delete"
    <3>1. Goto("file_header") BY <1>6, <2>2 DEF MarkDeleted
    <3> QED BY <1>4, <2>1, <3>1
  <2>3. CASE op.kind # "delete"
    <3>1. aux_promised' = Applied BY <1>6, <2>3 DEF MarkDeleted, Return
    <3>2. op.kind # "insert"
      BY <1>1, <2>1 DEF IInv, OperationProgress, StepsOf, Appending, Placing
    <3> QED BY <1>1, <1>2, <1>3, <2>1, <3>1, <3>2, RefineApplied
  <2> QED BY <2>2, <2>3
<1>7. CASE RewriteSlot
  <2>1. aux_promised' = Applied /\ disk_header' = disk_header /\ op.pc = "rewrite_slot"
    BY <1>7 DEF RewriteSlot, Return
  <2>2. op.kind # "insert"
    BY <1>1, <2>1 DEF IInv, OperationProgress, StepsOf, Appending, Placing
  <2> QED BY <1>1, <1>2, <1>3, <2>1, <2>2, RefineApplied
<1>8. CASE AppendResize \/ AppendPageHeader \/ PlacePayload \/ PlaceSlot \/ RewritePayload
  BY <1>4, <1>8 DEF AppendResize, AppendPageHeader, PlacePayload, PlaceSlot, RewritePayload
<1>9. CASE PlacePageHeader
  <2>1. disk_header' = disk_header /\ (Goto("file_header") \/ Goto("mark_deleted"))
    BY <1>9 DEF PlacePageHeader
  <2> QED BY <1>4, <2>1
<1> QED BY <1>5, <1>6, <1>7, <1>8, <1>9, RefineWriteFileHeader DEF Write

\* Every step of which no write has failed.
LEMMA RefineStep ==
  ASSUME IInv, IdsInStep, faults = 0, faults' = 0, Mapping, Mapping', [Next]_vars
  PROVE  Abstract!Next \/ UNCHANGED Abstract!abstractVars
<1>1. ASSUME UNCHANGED <<disk_header, pages, up, aux_promised>>
      PROVE  UNCHANGED Abstract!abstractVars
  <2>1. OpenSucceeds' = OpenSucceeds BY <1>1, SameDisk
  <2> QED BY <1>1, <2>1, RefineQuietSteps
<1>2. ASSUME NEW d \in Documents, Insert(d) PROVE UNCHANGED Abstract!abstractVars
  BY <1>1, <1>2 DEF Insert
<1>3. ASSUME NEW id \in ObjectIds, NEW d \in Documents, Update(id, d)
      PROVE  UNCHANGED Abstract!abstractVars
  BY <1>1, <1>3 DEF Update
<1>4. ASSUME NEW id \in ObjectIds, Delete(id) PROVE UNCHANGED Abstract!abstractVars
  BY <1>1, <1>4 DEF Delete
<1>5. ~WriteFails
  <2>1. WriteFails => faults' = faults + 1 BY DEF WriteFails
  <2> QED BY <2>1
<1>6. CASE Open
  <2>1. up' /\ OpenSucceeds /\ UNCHANGED <<disk_header, aux_promised>> BY <1>6 DEF Open
  <2> QED BY <2>1, RefineQuietSteps
<1>7. CASE UNCHANGED vars BY <1>1, <1>7 DEF vars
<1> QED BY <1>2, <1>3, <1>4, <1>5, <1>6, <1>7, RefineWrite, RefineCrash, RefineClose DEF Next

-----------------------------------------------------------------------------
(* The theorem *)

\* A file linklet_object_file_initialize has made is the empty abstract object file.
LEMMA RefineInit == Init => Abstract!Init /\ IdsInStep
<1> SUFFICES ASSUME Init PROVE Abstract!Init /\ IdsInStep
  OBVIOUS
<1>1. IdsInStep BY DEF Init, IdsInStep, IssuedInMemory, EmptyFileHeader, Idle
<1>2. Mapping
  <2>1. IInv BY InitEstablishes
  <2>2. faults = 0 BY DEF Init
  <2> QED BY <1>1, <2>1, <2>2, MappedState
<1>3. Objects = [id \in ObjectIds |-> Absent] /\ IssuedIds = 0 /\ up = TRUE
  BY <1>2 DEF Mapping, Init, EmptyFileHeader
<1>4. Abstract!Init
  BY <1>3 DEF Abstract!Init, Abstract!ObjectIds, ObjectIds
<1> QED BY <1>1, <1>4

\* The paged object file implements the abstract object file: as long as no write has
\* failed, every write of every operation, every crash and every restart is a step of
\* it or leaves it as it is.
THEOREM Refinement == Spec => ImplementsObjectFile
<1>1. Init => Abstract!Init /\ IdsInStep BY RefineInit
<1>2. IInv /\ IInv' /\ IdsInStep /\ [Next]_vars => IdsInStep' BY StepKeepsIds
<1>3. IInv /\ IInv' /\ IdsInStep /\ IdsInStep' /\ [Next]_vars =>
        [faults' = 0 => Abstract!Next \/ UNCHANGED Abstract!abstractVars]_vars
  <2> SUFFICES ASSUME IInv, IInv', IdsInStep, IdsInStep', [Next]_vars, faults' = 0
               PROVE  Abstract!Next \/ UNCHANGED Abstract!abstractVars
    OBVIOUS
  <2>1. faults = 0
    <3>1. faults \in Nat BY DEF IInv, Types
    <3>2. faults' \in {faults, faults + 1}
      BY DEF Next, Write, AppendResize, AppendPageHeader, AppendFileHeader, PlacePayload, PlaceSlot,
             PlacePageHeader, MarkDeleted, WriteFileHeader, RewritePayload, RewriteSlot, Unfaulted,
             WriteFails, Crash, Close, Open, ForgetMemory, Insert, Update, Delete, vars
    <3> QED BY <3>1, <3>2
  <2>2. Mapping /\ Mapping' BY <2>1, MappedState, MappedNext
  <2> QED BY <2>1, <2>2, RefineStep
<1> QED BY <1>1, <1>2, <1>3, Inductive, PTL DEF Spec, ImplementsObjectFile
==================================================================================
