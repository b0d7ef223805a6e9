----------------------------------- MODULE Bson -----------------------------------
(* bson/: the writer that builds documents in place, the iterator that reads them,  *)
(* and merge.  The validator is in BsonValidator.                                   *)
(*                                                                                  *)
(* A document is a sequence of cells.  What takes a fixed number of bytes, a 32-bit *)
(* length, a type, a character, a value of a fixed size, is one cell; the sizes and *)
(* bounds of the code are counted in cells (the empty document has 2 for 5 bytes).  *)
(* A client builds a document, opening nested ones, stores it, and reads, copies,   *)
(* extends or merges what it has stored.                                            *)
EXTENDS Integers, Sequences, SequencesExt

CONSTANTS
  Keys,              \* the keys a client uses: non-empty sequences of characters
  Values,            \* the values it appends: [type, cells]
  MAX_SIZE,          \* INT32_MAX
  MAX_CELLS,         \* bound: the cells under construction and stored
  INITIAL_CAPACITY   \* LINKLET_BSON_INITIAL_CAPACITY

VARIABLES
  open,        \* documents under construction, the innermost last
  stored,      \* the bytes the client has stored
  aux_fields,  \* for each document of open, the elements appended to it
  aux_stored   \* those of the stored document

vars == <<open, stored, aux_fields, aux_stored>>

-----------------------------------------------------------------------------
(* Types.  A cell equal to Invalid stands for text linklet_bson_utf8_validate refuses. *)

DOUBLE == 1
UTF8 == 2
DOCUMENT == 3
ARRAY == 4
BINARY == 5
NULL == 10
REGEX == 11
DBPOINTER == 12
CODE == 13
SYMBOL == 14
CODEWSCOPE == 15
INT32 == 16

NoValueTypes == {6, NULL, 127, 255}
FixedTypes == {DOUBLE, 7, 8, 9, INT32, 17, 18, 19}
TextTypes == {UTF8, CODE, SYMBOL}
NestedTypes == {DOCUMENT, ARRAY}
Types == NoValueTypes \cup FixedTypes \cup TextTypes \cup NestedTypes
         \cup {BINARY, REGEX, DBPOINTER, CODEWSCOPE}

Invalid == 255
utf8_validate(text) == Invalid \notin Range(text)

EMPTY == <<2, 0>>
EMPTY_SIZE == Len(EMPTY)
CODEWSCOPE_MIN == 3 + EMPTY_SIZE

-----------------------------------------------------------------------------
(* Reader.  Positions are those of cells; end is the position after the last cell. *)

\* The position of the first NUL in from .. end - 1, or 0.
memchr(d, from, end) == SelectInSubSeq(d, from, end - 1, LAMBDA cell : cell = 0)

\* linklet_bson_value_size: 0 when the value does not fit before end.
value_size(type, d, at, end) ==
  LET fits(size) == IF at + size <= end THEN size ELSE 0
      lengthFits == at < end
      second == memchr(d, at, end) + 1
      closing == memchr(d, second, end)
  IN  CASE type \in FixedTypes -> fits(1)
        [] type \in TextTypes -> IF lengthFits /\ d[at] >= 1 THEN fits(1 + d[at]) ELSE 0
        [] type \in NestedTypes -> IF lengthFits /\ d[at] >= EMPTY_SIZE THEN fits(d[at]) ELSE 0
        [] type = BINARY -> IF lengthFits THEN fits(2 + d[at]) ELSE 0
        [] type = DBPOINTER -> IF lengthFits /\ d[at] >= 1 THEN fits(2 + d[at]) ELSE 0
        [] type = CODEWSCOPE ->
             IF lengthFits /\ d[at] >= CODEWSCOPE_MIN THEN fits(d[at]) ELSE 0
        [] type = REGEX -> IF second = 1 \/ closing = 0 THEN 0 ELSE closing + 1 - at
        [] OTHER -> 0

\* Cells that are a value of the type: as many as its size says.
IsValue(type, cells) ==
  /\ cells \in Seq(Nat)
  /\ value_size(type, cells, 1, Len(cells) + 1) = Len(cells)
  /\ cells = <<>> => type \in NoValueTypes

ASSUME SizesAssumption ==
  MAX_SIZE \in Nat /\ EMPTY_SIZE <= MAX_SIZE /\ INITIAL_CAPACITY \in Nat \ {0}
ASSUME KeysAssumption == \A key \in Keys : key \in Seq(Nat \ {0})
ASSUME ValuesAssumption ==
  \A value \in Values : value.type \in Types \ NestedTypes /\ IsValue(value.type, value.cells)

NoElement == [type |-> 0, key |-> <<>>, value |-> <<>>, next |-> 0]

\* linklet_bson_iterator_decode_at.
decode_at(d, at) ==
  LET end == Len(d) + 1
      key_end == memchr(d, at + 1, end)
      size == value_size(d[at], d, key_end + 1, end)
  IN  IF \/ at >= end
         \/ d[at] = 0
         \/ key_end = 0
         \/ size = 0 /\ d[at] \notin NoValueTypes
      THEN NoElement
      ELSE [type |-> d[at], key |-> SubSeq(d, at + 1, key_end - 1),
            value |-> SubSeq(d, key_end + 1, key_end + size), next |-> key_end + size + 1]

\* linklet_bson_iterator_init and _next, to the end: behind the elements returned so far
\* there is another one or none.  A document has fewer elements than cells.
iterator_next(d, elements) ==
  LET element == decode_at(d, IF elements = <<>> THEN 2 ELSE Last(elements).next)
  IN  IF element = NoElement THEN elements ELSE Append(elements, element)

Elements(d) ==
  LET returned[i \in 0 .. Len(d)] == IF i = 0 THEN <<>> ELSE iterator_next(d, returned[i - 1])
  IN  IF Len(d) < EMPTY_SIZE THEN <<>> ELSE returned[Len(d)]

Field(element) == [type |-> element.type, key |-> element.key, value |-> element.value]
Fields(d) == LET elements == Elements(d) IN [i \in DOMAIN elements |-> Field(elements[i])]

\* linklet_bson_find: the first element with the key, as a sequence of at most one.
find(fields, key) ==
  LET first == SelectInSeq(fields, LAMBDA field : field.key = key)
  IN  IF first = 0 THEN <<>> ELSE <<fields[first]>>

-----------------------------------------------------------------------------
(* Writer.  A LinkletBson with no data yet reads as the empty document. *)

NewBson == [data |-> <<>>, capacity |-> 0, static |-> FALSE]
get_data(bson) == IF bson.data = <<>> THEN EMPTY ELSE bson.data

\* The capacity linklet_bson_reserve_to grows to: doubled until it suffices, which takes
\* less than required turns of its loop.
Doubled(capacity, required) ==
  LET Grow(reached) == IF reached < required THEN 2 * reached ELSE reached
      grown[turn \in 0 .. required] == IF turn = 0 THEN capacity ELSE Grow(grown[turn - 1])
  IN  grown[required]

\* Seeded bug: doubled once.
Reserved_Once(bson, required) ==
  IF required <= bson.capacity THEN bson.capacity
  ELSE IF bson.capacity = 0 THEN INITIAL_CAPACITY ELSE 2 * bson.capacity
Reserved(bson, required) ==
  IF required <= bson.capacity THEN bson.capacity
  ELSE Doubled(IF bson.capacity = 0 THEN INITIAL_CAPACITY ELSE bson.capacity, required)

\* What linklet_bson_reserve_to and the checks before it accept.
Growable(bson, required) == ~bson.static /\ required <= MAX_SIZE

\* linklet_bson_append_value_begin writes type and key over the terminator; its
\* caller, the value.  Seeded bug: it writes them after the terminator.
Body_KeepsTerminator(bson) == Tail(get_data(bson))
Body(bson) == SubSeq(get_data(bson), 2, Len(get_data(bson)) - 1)

Document(body) == <<Len(body) + 2>> \o body \o <<0>>
Encoded(field) == <<field.type>> \o field.key \o <<0>> \o field.value
Appended(bson, field) == Document(Body(bson) \o Encoded(field))

AppendField(bson, field) ==
  [bson EXCEPT !.data = Appended(bson, field),
               !.capacity = Reserved(bson, Len(Appended(bson, field)))]

Appendable(bson, field) ==
  /\ field.key # <<>> /\ utf8_validate(field.key)
  /\ field.type = UTF8 => utf8_validate(field.value)
  /\ Growable(bson, Len(Appended(bson, field)))

\* linklet_bson_merge: the elements of original that patch does not find, then those
\* of patch.  Seeded bug: the whole original.
MergedFields_All(original, patch) == original \o patch
MergedFields(original, patch) ==
  LET Keep(kept, field) == IF find(patch, field.key) = <<>> THEN Append(kept, field) ELSE kept
  IN  FoldLeft(Keep, <<>>, original) \o patch

\* Every append of the merge fits when the whole result does.
Merged(original, patch) == FoldLeft(AppendField, NewBson, MergedFields(Fields(original), Fields(patch)))

-----------------------------------------------------------------------------
(* A client.  When a nested document was lost it clears what it was building.         *)

Top == Last(open)
TopFields == Last(aux_fields)

\* The child of the last element is under construction, or was lost.
Unfinished(fields) ==
  fields # <<>> /\ Last(fields).type \in NestedTypes /\ Last(fields).value = <<>>

\* The top document lost a child that did not fit.
Broken == Unfinished(TopFields)

\* linklet_bson_array_key: the count of the elements before the new one, as a number that
\* takes one cell.  Only linklet_bson_array_append_* give that key; the other calls take
\* any key, in an array as in a document.
ArrayKey(index) == <<48 + index>>
NextKeys == Keys \cup {ArrayKey(Len(Elements(get_data(Top))))}

Cells == FoldLeft(LAMBDA cells, bson : cells + Len(bson.data), Len(stored), open)

AppendToTop(field) ==
  /\ ~Broken
  /\ Cells < MAX_CELLS
  /\ Appendable(Top, field)

AppendValue(key, value) ==
  LET field == [key |-> key, type |-> value.type, value |-> value.cells]
  IN  /\ AppendToTop(field)
      /\ open' = [open EXCEPT ![Len(open)] = AppendField(@, field)]
      /\ aux_fields' = [aux_fields EXCEPT ![Len(open)] = Append(@, field)]
      /\ UNCHANGED <<stored, aux_stored>>

\* linklet_bson_append_document, linklet_bson_append_array: the whole stored document,
\* whatever keys it has.
AppendStored(key, type) == AppendValue(key, [type |-> type, cells |-> stored])

\* linklet_bson_append_nested_begin.
BeginNested(key, type) ==
  LET field == [key |-> key, type |-> type, value |-> <<>>]
  IN  /\ AppendToTop(field)
      /\ open' = Append([open EXCEPT ![Len(open)] = AppendField(@, field)], NewBson)
      /\ aux_fields' = Append([aux_fields EXCEPT ![Len(open)] = Append(@, field)], <<>>)
      /\ UNCHANGED <<stored, aux_stored>>

\* linklet_bson_append_nested_end: the child's bytes become the value of the element
\* that nested_begin wrote, unless they do not fit.
Attached(parent, child) ==
  LET data == Document(Body(parent) \o get_data(child))
  IN  [parent EXCEPT !.data = data, !.capacity = Reserved(parent, Len(data))]

EndNested ==
  LET level == Len(open) - 1
      fields == aux_fields[level]
      fits == Growable(open[level], Len(open[level].data) + Len(get_data(Top)))
  IN  /\ Len(open) > 1 /\ ~Broken
      /\ open' = IF fits THEN Append(SubSeq(open, 1, level - 1), Attached(open[level], Top))
                 ELSE Front(open)
      /\ aux_fields' =
           IF fits THEN [Front(aux_fields) EXCEPT ![level][Len(fields)].value = get_data(Top)]
           ELSE Front(aux_fields)
      /\ UNCHANGED <<stored, aux_stored>>

Restart(bson, fields) == open' = <<bson>> /\ aux_fields' = <<fields>>

\* linklet_bson_clear of everything under construction.
Clear ==
  /\ open # <<NewBson>>
  /\ Restart(NewBson, <<>>)
  /\ UNCHANGED <<stored, aux_stored>>

Complete == Len(open) = 1 /\ ~Broken

Store ==
  /\ Complete
  /\ stored' = get_data(Top)
  /\ aux_stored' = TopFields
  /\ Restart(NewBson, <<>>)

\* linklet_bson_copy, linklet_bson_view: an empty document may be extended, not a view.
Copy ==
  /\ open = <<NewBson>>
  /\ Restart([data |-> stored, capacity |-> Len(stored), static |-> FALSE], aux_stored)
  /\ UNCHANGED <<stored, aux_stored>>

View ==
  /\ open = <<NewBson>>
  /\ Restart([data |-> stored, capacity |-> 0, static |-> TRUE], aux_stored)
  /\ UNCHANGED <<stored, aux_stored>>

Merge ==
  LET merged == Merged(stored, get_data(Top))
  IN  /\ Complete
      /\ Len(get_data(merged)) <= MAX_SIZE
      /\ Restart(merged, MergedFields(aux_stored, TopFields))
      /\ UNCHANGED <<stored, aux_stored>>

Init ==
  /\ open = <<NewBson>>
  /\ stored = EMPTY
  /\ aux_fields = <<<<>>>>
  /\ aux_stored = <<>>

Next ==
  \/ \E key \in NextKeys, value \in Values : AppendValue(key, value)
  \/ \E key \in NextKeys, type \in NestedTypes : AppendStored(key, type)
  \/ \E key \in NextKeys, type \in NestedTypes : BeginNested(key, type)
  \/ EndNested \/ Clear \/ Store \/ Copy \/ View \/ Merge

Spec == Init /\ [][Next]_vars

-----------------------------------------------------------------------------
(* Properties *)

\* A buffer never holds more than its capacity or than MAX_SIZE; a document with data
\* begins with its length and ends with a NUL, whatever is nested or half built.
TypeOK ==
  /\ Len(open) = Len(aux_fields) /\ open # <<>>
  /\ \A i \in DOMAIN open :
       LET data == get_data(open[i])
       IN  /\ data[1] = Len(data) /\ Last(data) = 0
           /\ Len(data) <= MAX_SIZE
           /\ open[i].data # <<>> => open[i].static \/ Len(data) <= open[i].capacity

\* The iterator returns exactly the elements that were appended, in order, up to the one
\* whose child is still open or did not fit.
Whole(fields) == IF Unfinished(fields) THEN Front(fields) ELSE fields
ReadsBack ==
  /\ \A i \in DOMAIN open : Fields(get_data(open[i])) = Whole(aux_fields[i])
  /\ Fields(stored) = aux_stored

\* In a merged document every key has the value the patch has for it, and otherwise the
\* one the original has, duplicates and nested documents included.
MergePrefersPatch ==
  Complete =>
    LET merged == Fields(get_data(Merged(stored, get_data(Top))))
        fields == merged \o TopFields \o aux_stored
    IN  \A key \in {field.key : field \in Range(fields)} :
          find(merged, key) = IF find(TopFields, key) # <<>> THEN find(TopFields, key)
                              ELSE find(aux_stored, key)
====================================================================================
