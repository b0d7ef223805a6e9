----------------------------- MODULE PagedObjectFile -----------------------------
(* storage/paged_object_file.c, one file write at a time.                        *)
(*                                                                               *)
(* The file is a header followed by fixed-size pages.  A page holds a header,    *)
(* an array of slots that grows upwards from the header and payloads that grow   *)
(* downwards from the end of the page.  Every pwrite and every ftruncate of an   *)
(* operation is a step of its own, so that a crash or a failing write can fall   *)
(* between any two of them.  Changes of the in-memory header and of the location *)
(* index happen with the write that precedes them: nobody observes the           *)
(* difference, and a failing write then leaves memory as the code leaves it.     *)
(*                                                                               *)
(* A call that fails before it writes anything (unknown ID, document too large,  *)
(* ID index full, too many pages) changes nothing and is not a step.             *)
(* Lengths and offsets are counted in abstract units; page p of the model is the *)
(* page with page_index p - 1, slot i the slot with index i - 1.                 *)
EXTENDS Integers, Sequences, FiniteSets

CONSTANTS
  Documents,          \* the BSON documents callers store
  Length,             \* Length[d]: the encoded size of document d
  Absent,             \* the content of an ID that holds no object
  SIZE_MAX,           \* the index is full when next_id reaches it
  UINT32_MAX,         \* the largest page_count open accepts
  PAGE_SIZE,          \* LINKLET_OBJECT_PAGE_SIZE
  PAGE_HEADER_SIZE,   \* LINKLET_OBJECT_PAGE_HEADER_SIZE
  SLOT_SIZE,          \* LINKLET_OBJECT_SLOT_SIZE
  MAX_FAULTS          \* bound: how many writes of a behaviour may fail

ASSUME LengthAssumption == Length \in [Documents -> Nat \ {0}]
ASSUME SizesAssumption ==
  /\ {SIZE_MAX, PAGE_HEADER_SIZE, SLOT_SIZE, PAGE_SIZE} \subseteq Nat \ {0}
  /\ {UINT32_MAX, MAX_FAULTS} \subseteq Nat
  /\ PAGE_HEADER_SIZE + SLOT_SIZE < PAGE_SIZE
  /\ Absent \notin Documents

VARIABLES
  disk_header,   \* the file header on disk
  pages,         \* the pages on disk; Len(pages) is the file size
  up,            \* the file is open
  header,        \* LinkletPagedObjectFile.header, the copy in memory
  locations,     \* LinkletPagedObjectFile.locations, restricted to live IDs
  op,            \* the operation in progress and the write it is about to do
  aux_promised,  \* what the operations that returned promised for each ID
  aux_suspect,   \* the IDs an operation failed on
  faults         \* writes that have failed

vars == <<disk_header, pages, up, header, locations, op,
          aux_promised, aux_suspect, faults>>

ObjectIds == 0 .. SIZE_MAX - 1
Idle == [pc |-> "idle"]
Blank == <<>>
EmptyFileHeader == [next_id |-> 0, live_count |-> 0, page_count |-> 0]

\* The extension of the file by ftruncate reads as zeros.
ZeroPage ==
  [header |-> [magic |-> FALSE, slot_count |-> 0, free_start |-> 0, free_end |-> 0],
   slots  |-> <<>>,
   bytes  |-> [offset \in 0 .. PAGE_SIZE - 1 |-> Blank]]

EmptyPageHeader ==
  [magic |-> TRUE, slot_count |-> 0,
   free_start |-> PAGE_HEADER_SIZE, free_end |-> PAGE_SIZE]

-----------------------------------------------------------------------------
(* Reading the file *)

validate_page_header(h) ==
  /\ h.magic
  /\ h.free_start = PAGE_HEADER_SIZE + h.slot_count * SLOT_SIZE
  /\ h.free_start <= h.free_end
  /\ h.free_end <= PAGE_SIZE

\* The documents for which `length` units at `offset` are a valid encoding: the
\* length a document declares must be the length of the buffer.
Decode(bytes, offset, length) ==
  {d \in Documents :
     /\ Length[d] = length
     /\ \A k \in 0 .. length - 1 : bytes[offset + k] = <<d, k>>}

SlotsOf(p) == 1 .. pages[p].header.slot_count
ActiveSlots ==
  {s \in UNION {{p} \X SlotsOf(p) : p \in DOMAIN pages} :
     pages[s[1]].slots[s[2]].active}
SlotAt(s) == pages[s[1]].slots[s[2]]
DocumentsAt(s) == Decode(pages[s[1]].bytes, SlotAt(s).offset, SlotAt(s).length)

\* linklet_object_file_read: the documents the buffer it returns decodes to.
Read(id) ==
  IF id \in DOMAIN locations /\ SlotAt(locations[id]).id = id /\ SlotAt(locations[id]).active
    THEN DocumentsAt(locations[id])
    ELSE {}

\* The checks of linklet_object_file_open.
SlotValid(p, i) ==
  LET slot == pages[p].slots[i]
  IN  /\ slot.id < disk_header.next_id
      /\ slot.length <= slot.capacity
      /\ slot.offset >= pages[p].header.free_end
      /\ slot.offset + slot.capacity <= PAGE_SIZE

OpenSucceeds ==
  /\ disk_header.next_id <= SIZE_MAX
  /\ disk_header.page_count <= UINT32_MAX
  /\ Len(pages) = disk_header.page_count
  /\ \A p \in DOMAIN pages : validate_page_header(pages[p].header)
  /\ \A p \in DOMAIN pages : \A i \in SlotsOf(p) : SlotValid(p, i)
  /\ \A s, t \in ActiveSlots : SlotAt(s).id = SlotAt(t).id => s = t
  /\ \A s \in ActiveSlots : DocumentsAt(s) # {}
  /\ Cardinality(ActiveSlots) = disk_header.live_count

\* The location index open builds, and the objects a caller then reads.
OpenedLocations ==
  [id \in {SlotAt(s).id : s \in ActiveSlots} |->
     CHOOSE s \in ActiveSlots : SlotAt(s).id = id]
Recovered ==
  [id \in ObjectIds |->
     IF id \in DOMAIN OpenedLocations
       THEN CHOOSE d \in Documents : d \in DocumentsAt(OpenedLocations[id])
       ELSE Absent]

-----------------------------------------------------------------------------
(* Starting an operation *)

\* Seeded bug: the slot of the new object is not counted.
Required_NoSlot(d) == Length[d]
Required(d) == SLOT_SIZE + Length[d]
PagesWithRoom(d) ==
  {p \in 1 .. header.page_count :
     pages[p].header.free_end - pages[p].header.free_start >= Required(d)}

\* find_page_for_object: the first page with room, or a page to append.
find_page_for_object(kind, id, d) ==
  /\ Required(d) <= PAGE_SIZE - PAGE_HEADER_SIZE
  /\ IF PagesWithRoom(d) # {}
       THEN op' = [pc |-> "payload", kind |-> kind, id |-> id, doc |-> d,
                   page |-> CHOOSE p \in PagesWithRoom(d) :
                              \A q \in PagesWithRoom(d) : p <= q]
       ELSE /\ header.page_count <= UINT32_MAX
            /\ op' = [pc |-> "append_resize", kind |-> kind, id |-> id, doc |-> d,
                      page |-> header.page_count + 1]

Insert(d) ==
  /\ up /\ op = Idle
  /\ header.next_id < SIZE_MAX
  /\ find_page_for_object("insert", header.next_id, d)
  /\ UNCHANGED <<disk_header, pages, up, header, locations, aux_promised, aux_suspect, faults>>

Update(id, d) ==
  /\ up /\ op = Idle
  /\ id \in DOMAIN locations
  /\ IF Length[d] <= SlotAt(locations[id]).capacity
       THEN op' = [pc |-> "rewrite_payload", kind |-> "update", id |-> id, doc |-> d,
                   page |-> locations[id][1]]
       ELSE find_page_for_object("update", id, d)
  /\ UNCHANGED <<disk_header, pages, up, header, locations, aux_promised, aux_suspect, faults>>

Delete(id) ==
  /\ up /\ op = Idle
  /\ id \in DOMAIN locations
  /\ op' = [pc |-> "mark_deleted", kind |-> "delete", id |-> id, doc |-> Absent,
            page |-> locations[id][1]]
  /\ UNCHANGED <<disk_header, pages, up, header, locations, aux_promised, aux_suspect, faults>>

-----------------------------------------------------------------------------
(* The writes of an operation *)

Goto(pc) == op' = [op EXCEPT !.pc = pc] /\ UNCHANGED aux_promised
Applied == [aux_promised EXCEPT ![op.id] = op.doc]
Return == op' = Idle /\ aux_promised' = Applied
Unfaulted == UNCHANGED <<up, aux_suspect, faults>>

\* append_page: grow the file by a page.  A page a failed append left behind is
\* already inside the new size and keeps its bytes.
AppendResize ==
  /\ op.pc = "append_resize"
  /\ pages' = IF Len(pages) = header.page_count THEN Append(pages, ZeroPage) ELSE pages
  /\ Goto("append_page_header")
  /\ UNCHANGED <<disk_header, header, locations>> /\ Unfaulted

AppendPageHeader ==
  /\ op.pc = "append_page_header"
  /\ pages' = [pages EXCEPT ![op.page].header = EmptyPageHeader]
  /\ header' = [header EXCEPT !.page_count = @ + 1]
  /\ Goto("append_file_header")
  /\ UNCHANGED <<disk_header, locations>> /\ Unfaulted

AppendFileHeader ==
  /\ op.pc = "append_file_header"
  /\ disk_header' = header
  /\ Goto("payload")
  /\ UNCHANGED <<pages, header, locations>> /\ Unfaulted

\* The units of page bytes after document d is written at offset.
WithPayload(bytes, offset, d) ==
  [k \in DOMAIN bytes |->
     IF k \in offset .. offset + Length[d] - 1 THEN <<d, k - offset>> ELSE bytes[k]]

\* place_object: payload, then slot, then page header.
PayloadOffset == pages[op.page].header.free_end - Length[op.doc]
NewSlotIndex == pages[op.page].header.slot_count + 1

\* The page header that counts the placed slot.
\* Seeded bug: the payload is not taken from the free space.
HeaderAfterPlacing_KeepsFreeEnd(h) ==
  [h EXCEPT !.slot_count = @ + 1, !.free_start = @ + SLOT_SIZE]
HeaderAfterPlacing(h) ==
  [h EXCEPT !.slot_count = @ + 1, !.free_start = @ + SLOT_SIZE, !.free_end = PayloadOffset]

PlacePayload ==
  /\ op.pc = "payload"
  /\ pages' = [pages EXCEPT ![op.page].bytes = WithPayload(@, PayloadOffset, op.doc)]
  /\ Goto("slot")
  /\ UNCHANGED <<disk_header, header, locations>> /\ Unfaulted

PlaceSlot ==
  /\ op.pc = "slot"
  /\ LET slot == [id |-> op.id, offset |-> PayloadOffset, length |-> Length[op.doc],
                  capacity |-> Length[op.doc], active |-> TRUE]
     IN  pages' = [pages EXCEPT ![op.page].slots =
                     SubSeq(@, 1, NewSlotIndex - 1) \o <<slot>>]
  /\ Goto("page_header")
  /\ UNCHANGED <<disk_header, header, locations>> /\ Unfaulted

\* The page header write makes the slot visible.  An insert then indexes the
\* object and writes the file header; an update deletes the slot it replaces.
PlacePageHeader ==
  /\ op.pc = "page_header"
  /\ pages' = [pages EXCEPT ![op.page].header = HeaderAfterPlacing(@)]
  /\ IF op.kind = "insert"
       THEN /\ locations' = [id \in DOMAIN locations \cup {op.id} |->
                               IF id = op.id THEN <<op.page, NewSlotIndex>>
                                             ELSE locations[id]]
            /\ header' = [header EXCEPT !.next_id = @ + 1, !.live_count = @ + 1]
            /\ Goto("file_header")
       ELSE /\ Goto("mark_deleted")
            /\ UNCHANGED <<header, locations>>
  /\ UNCHANGED disk_header /\ Unfaulted

\* The slot mark_location_deleted flags.
\* Seeded bug: a relocating update flags its new slot instead of the old one.
DoomedSlot_New ==
  IF op.kind = "delete" THEN locations[op.id]
                        ELSE <<op.page, pages[op.page].header.slot_count>>
DoomedSlot == locations[op.id]

\* The index and the header in memory after a delete.
\* Seeded bugs: the object stays indexed; live_count is not decremented; the
\* deleted ID is issued again.
IndexAfterDelete_Unchanged == locations
IndexAfterDelete == [id \in DOMAIN locations \ {op.id} |-> locations[id]]
HeaderAfterDelete_NoCount(h) == h
HeaderAfterDelete_ReusesId(h) ==
  [h EXCEPT !.live_count = @ - 1, !.next_id = IF op.id = @ - 1 THEN op.id ELSE @]
HeaderAfterDelete(h) == [h EXCEPT !.live_count = @ - 1]

\* mark_location_deleted: of the replaced slot of a relocating update, which then
\* switches the index to the new slot (the last one of op.page), or of the slot of
\* the deleted object, which then leaves the index.
MarkDeleted ==
  /\ op.pc = "mark_deleted"
  /\ pages' = [pages EXCEPT ![DoomedSlot[1]].slots[DoomedSlot[2]].active = FALSE]
  /\ IF op.kind = "delete"
       THEN /\ locations' = IndexAfterDelete
            /\ header' = HeaderAfterDelete(header)
            /\ Goto("file_header")
       ELSE /\ locations' = [locations EXCEPT
                               ![op.id] = <<op.page, pages[op.page].header.slot_count>>]
            /\ Return
            /\ UNCHANGED header
  /\ UNCHANGED disk_header /\ Unfaulted

\* write_file_header, the last write of an insert and of a delete.
WriteFileHeader ==
  /\ op.pc = "file_header"
  /\ disk_header' = header
  /\ Return
  /\ UNCHANGED <<pages, header, locations>> /\ Unfaulted

\* An update that fits the capacity of its slot: payload in place, then slot.
RewritePayload ==
  /\ op.pc = "rewrite_payload"
  /\ pages' = [pages EXCEPT ![op.page].bytes =
                 WithPayload(@, SlotAt(locations[op.id]).offset, op.doc)]
  /\ Goto("rewrite_slot")
  /\ UNCHANGED <<disk_header, header, locations>> /\ Unfaulted

RewriteSlot ==
  /\ op.pc = "rewrite_slot"
  /\ pages' = [pages EXCEPT ![op.page].slots[locations[op.id][2]].length = Length[op.doc]]
  /\ Return
  /\ UNCHANGED <<disk_header, header, locations>> /\ Unfaulted

Write ==
  \/ AppendResize \/ AppendPageHeader \/ AppendFileHeader
  \/ PlacePayload \/ PlaceSlot \/ PlacePageHeader
  \/ MarkDeleted \/ WriteFileHeader
  \/ RewritePayload \/ RewriteSlot

-----------------------------------------------------------------------------
(* Failing writes, crashes, closing and opening *)

\* The pending write fails and writes nothing; the operation returns false.
WriteFails ==
  /\ op # Idle
  /\ faults < MAX_FAULTS
  /\ faults' = faults + 1
  /\ aux_suspect' = aux_suspect \cup {op.id}
  /\ op' = Idle
  /\ UNCHANGED <<disk_header, pages, up, header, locations, aux_promised>>

ForgetMemory ==
  /\ up' = FALSE
  /\ op' = Idle
  /\ header' = EmptyFileHeader
  /\ locations' = <<>>
  /\ UNCHANGED <<disk_header, pages, aux_suspect, faults>>

\* Equal contents of every ID no write failed on.
Agrees(contents1, contents2) ==
  \A id \in ObjectIds \ aux_suspect : contents1[id] = contents2[id]

\* The process dies between two writes.  What a caller may expect afterwards is
\* the promise, or the promise with the interrupted operation applied.
Crash ==
  /\ up /\ op # Idle
  /\ ForgetMemory
  /\ aux_promised' = IF OpenSucceeds /\ Agrees(Recovered, Applied) THEN Applied ELSE aux_promised

\* linklet_object_file_destroy; a crash between two operations has its effect.
Close ==
  /\ up /\ op = Idle
  /\ ForgetMemory
  /\ UNCHANGED aux_promised

Open ==
  /\ ~up
  /\ OpenSucceeds
  /\ up' = TRUE
  /\ header' = disk_header
  /\ locations' = OpenedLocations
  /\ UNCHANGED <<disk_header, pages, op, aux_promised, aux_suspect, faults>>

\* linklet_object_file_initialize
Init ==
  /\ disk_header = EmptyFileHeader
  /\ pages = <<>>
  /\ up = TRUE
  /\ header = EmptyFileHeader
  /\ locations = <<>>
  /\ op = Idle
  /\ aux_promised = [id \in ObjectIds |-> Absent]
  /\ aux_suspect = {}
  /\ faults = 0

Next ==
  \/ \E d \in Documents : Insert(d)
  \/ \E id \in ObjectIds, d \in Documents : Update(id, d)
  \/ \E id \in ObjectIds : Delete(id)
  \/ Write
  \/ WriteFails
  \/ Crash \/ Close \/ Open

Spec == Init /\ [][Next]_vars

-----------------------------------------------------------------------------
(* Properties *)

SlotType == [id : ObjectIds, offset : 0 .. PAGE_SIZE, length : 0 .. PAGE_SIZE,
             capacity : 0 .. PAGE_SIZE, active : BOOLEAN]
FileHeaderType == [next_id : 0 .. SIZE_MAX, live_count : 0 .. SIZE_MAX,
                   page_count : 0 .. UINT32_MAX + 1]

\* The types of the variables; in particular no counter leaves its field.
TypeOK ==
  /\ disk_header \in FileHeaderType
  /\ header \in FileHeaderType
  /\ Len(pages) \in 0 .. UINT32_MAX + 1
  /\ \A p \in DOMAIN pages :
       /\ pages[p].header \in [magic : BOOLEAN, slot_count : 0 .. PAGE_SIZE,
                               free_start : 0 .. PAGE_SIZE, free_end : 0 .. PAGE_SIZE]
       /\ pages[p].slots \in Seq(SlotType)
  /\ up \in BOOLEAN
  /\ DOMAIN locations \subseteq ObjectIds
  /\ \A id \in DOMAIN locations : locations[id] \in (DOMAIN pages) \X Nat
  /\ aux_promised \in [ObjectIds -> Documents \cup {Absent}]
  /\ aux_suspect \subseteq ObjectIds
  /\ faults \in 0 .. MAX_FAULTS

Extent(slot) == slot.offset .. slot.offset + slot.capacity - 1

\* place_object and in-place updates never let two payloads, or a payload and the
\* slot array, occupy the same bytes of a page, whatever was written before, and
\* also in the middle of an operation or after failed ones.
PayloadsDisjoint ==
  \A p \in DOMAIN pages :
    /\ \A i \in SlotsOf(p) :
         /\ pages[p].slots[i].length <= pages[p].slots[i].capacity
         /\ Extent(pages[p].slots[i]) \subseteq
              PAGE_HEADER_SIZE + SLOT_SIZE * Len(pages[p].slots) .. PAGE_SIZE - 1
    /\ \A i, j \in SlotsOf(p) :
         i # j => Extent(pages[p].slots[i]) \cap Extent(pages[p].slots[j]) = {}

Quiet == up /\ op = Idle

\* Between operations, if none has failed, opening the file again succeeds and
\* rebuilds exactly the header and the index the process holds in memory, as long as
\* append_page has not added the one page more than open accepts.
ReopenRestores ==
  Quiet /\ faults = 0 /\ header.page_count <= UINT32_MAX =>
    /\ OpenSucceeds
    /\ disk_header = header
    /\ OpenedLocations = locations

\* A file that opens after a crash holds, under every ID no write failed on, what
\* the operations that returned promised, with the interrupted operation applied
\* completely or not at all.
RecoveredIsPromised ==
  ~up /\ OpenSucceeds => Agrees(Recovered, aux_promised)

\* An operation that fails at any of its writes does not change what the open file
\* returns for any other object.
FailuresAreContained ==
  Quiet => \A id \in ObjectIds \ aux_suspect :
             Read(id) = {aux_promised[id]} \ {Absent}

-----------------------------------------------------------------------------
(* Refinement: between operations the objects are what Read returns; during one  *)
(* they are what they were before it.                                            *)

Objects ==
  IF Quiet
    THEN [id \in ObjectIds |-> IF Read(id) = {} THEN Absent ELSE CHOOSE d \in Read(id) : TRUE]
    ELSE aux_promised
IssuedIds == IF Quiet THEN header.next_id
             ELSE IF op # Idle /\ op.pc = "file_header" /\ op.kind = "insert" THEN header.next_id - 1
             ELSE IF up THEN header.next_id ELSE disk_header.next_id

Abstract == INSTANCE ObjectFile
              WITH objects <- Objects, next_id <- IssuedIds, usable <- up \/ OpenSucceeds

\* As long as no write has failed, the paged object file implements the abstract
\* object file: every step is a step of it or leaves it as it is.
ImplementsObjectFile ==
  Abstract!Init /\ [][faults' = 0 => Abstract!Next \/ UNCHANGED Abstract!abstractVars]_vars
=================================================================================
