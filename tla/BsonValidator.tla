------------------------------ MODULE BsonValidator ------------------------------
(* bson/bson.c: linklet_bson_validate, which decides whether bytes from a file are a *)
(* document, on what the clients of Bson write and on what becomes of it on a        *)
(* damaged disk.                                                                     *)
EXTENDS Bson

CONSTANTS
  MAX_DEPTH,         \* LINKLET_BSON_DEFAULT_MAX_DEPTH
  Damage             \* the cells that a damaged cell may hold

\* linklet_bson_validate_string, on the value at a position.  Seeded bug: the length and
\* the NUL are checked, the text is not.
validate_string_AnyText(d, at, end) ==
  at < end /\ d[at] >= 1 /\ at + d[at] < end /\ d[at + d[at]] = 0
validate_string(d, at, end) ==
  /\ at < end /\ d[at] >= 1 /\ at + d[at] < end
  /\ d[at + d[at]] = 0
  /\ utf8_validate(SubSeq(d, at + 1, at + d[at] - 1))

\* An element of a document, apart from what is nested in it.  Seeded bug: bytes after
\* a terminator are not refused.
TerminatesAt_Anywhere(d, at) == TRUE
TerminatesAt(d, at) == at = Len(d)

RECURSIVE validate_document_range(_, _, _), ValidElements(_, _, _, _, _)

\* linklet_bson_validate_value and linklet_bson_validate_code_with_scope.
validate_value(type, d, at, end, depth) ==
  LET code_end == at + 1 + d[at + 1]
      scope_end == at + d[at]
  IN  CASE type \in NestedTypes ->
             validate_document_range(SubSeq(d, at, at + d[at] - 1), depth + 1, type = ARRAY)
        [] type \in TextTypes \cup {DBPOINTER} -> validate_string(d, at, end)
        [] type = CODEWSCOPE ->
             /\ validate_string(d, at + 1, scope_end)
             /\ code_end + 1 < scope_end
             /\ code_end + 1 + d[code_end + 1] = scope_end
             /\ validate_document_range(SubSeq(d, code_end + 1, scope_end - 1), depth + 1, FALSE)
        [] OTHER -> TRUE

ValidElements(d, at, depth, is_array, index) ==
  LET end == Len(d) + 1
      key_end == memchr(d, at + 1, end)
      key == SubSeq(d, at + 1, key_end - 1)
      size == value_size(d[at], d, key_end + 1, end)
  IN  IF at >= end THEN FALSE
      ELSE IF d[at] = 0 THEN TerminatesAt(d, at)
      ELSE /\ d[at] \in Types
           /\ key_end # 0 /\ key # <<>> /\ utf8_validate(key)
           /\ is_array => key = ArrayKey(index)
           /\ size = 0 => d[at] \in NoValueTypes
           /\ validate_value(d[at], d, key_end + 1, end, depth)
           /\ ValidElements(d, key_end + size + 1, depth, is_array, index + 1)

validate_document_range(d, depth, is_array) ==
  /\ Len(d) >= EMPTY_SIZE
  /\ depth <= MAX_DEPTH
  /\ Last(d) = 0
  /\ ValidElements(d, 2, depth, is_array, 0)

linklet_bson_validate(d) == Len(d) >= EMPTY_SIZE /\ d[1] = Len(d) /\ validate_document_range(d, 0, FALSE)

-----------------------------------------------------------------------------
(* Properties *)

RECURSIVE Depth(_)
Depth(d) ==
  LET elements == Range(Elements(d))
      children == {Depth(e.value) : e \in {e \in elements : e.type \in NestedTypes}}
      scopes == {0 : e \in {e \in elements : e.type = CODEWSCOPE}}
  IN  IF children \cup scopes = {} THEN 0 ELSE 1 + Max(children \cup scopes)

\* The elements of every array in a document are under the keys 0, 1, 2 and so on.
RECURSIVE ArraysCount(_)
ArraysCount(d) ==
  \A e \in Range(Elements(d)) : e.type \in NestedTypes =>
    LET fields == Fields(e.value)
    IN  /\ e.type = ARRAY => \A i \in DOMAIN fields : fields[i].key = ArrayKey(i - 1)
        /\ ArraysCount(e.value)

\* A finished document passes linklet_bson_validate, so that a file that holds it opens
\* again, unless the client did what the writer lets it do and the validator does not:
\* nested deeper than MAX_DEPTH, wrote text that is not UTF-8 as code, symbol or
\* dbpointer, or gave the elements of an array other keys than linklet_bson_array_append_*
\* do.  A document passes only if it did none of these.
WrittenValidates ==
  Complete =>
    LET d == get_data(Top)
    IN  linklet_bson_validate(d) <=>
          Invalid \notin Range(d) /\ Depth(d) <= MAX_DEPTH /\ ArraysCount(d)

\* The iterator reads a document to its terminator, and the documents in it.
RECURSIVE ReadToEnd(_)
ReadToEnd(d) ==
  LET elements == Elements(d)
  IN  /\ IF elements = <<>> THEN Len(d) = EMPTY_SIZE ELSE Last(elements).next = Len(d)
      /\ \A e \in Range(elements) : e.type \in NestedTypes => ReadToEnd(e.value)

\* Bytes that were damaged in one cell, or lost everything from a cell on, and that the
\* validator still accepts are read to their end: the iterator, which checks less, never
\* stops early or leaves the buffer on what the validator let through.
Damaged(d) ==
  {[d EXCEPT ![i] = cell] : i \in DOMAIN d, cell \in Damage}
  \cup {[i \in DOMAIN d |-> IF i < from THEN d[i] ELSE 0] : from \in DOMAIN d}
ValidatedIsReadable ==
  Complete /\ stored = EMPTY =>
    \A d \in Damaged(get_data(Top)) : linklet_bson_validate(d) => ReadToEnd(d)
==================================================================================
