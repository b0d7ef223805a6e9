------------------------------- MODULE BsonProofs -------------------------------
EXTENDS Bson, CommonProofs, SequenceTheorems

-----------------------------------------------------------------------------
(* Cells *)

\* memchr finds the first NUL of a stretch, or that there is none.
LEMMA MemchrIs ==
  ASSUME NEW d, NEW from \in Nat \ {0}, NEW end \in Int
  PROVE  \/ memchr(d, from, end) = 0 /\ \A i \in from .. end - 1 : d[i] # 0
         \/ /\ memchr(d, from, end) \in from .. end - 1 /\ d[memchr(d, from, end)] = 0
            /\ \A i \in from .. memchr(d, from, end) - 1 : d[i] # 0
<1> DEFINE nuls == {i \in from .. end - 1 : d[i] = 0}
<1>1. memchr(d, from, end) = IF nuls # {} THEN Min(nuls) ELSE 0
  BY DEF memchr, SelectInSubSeq
<1>2. CASE nuls = {}
  BY <1>1, <1>2
<1>3. CASE nuls # {}
  <2>1. nuls \in SUBSET Nat
    OBVIOUS
  <2> HIDE DEF nuls
  <2>2. Min(nuls) \in nuls /\ \A i \in nuls : Min(nuls) <= i
    BY <1>3, <2>1, MinIsLeast
  <2>3. PICK least \in nuls : least = memchr(d, from, end) /\ \A i \in nuls : least <= i
    BY <1>1, <1>3, <2>2
  <2>4. least \in from .. end - 1 /\ d[least] = 0
    BY <2>3 DEF nuls
  <2>5. \A i \in from .. least - 1 : d[i] # 0
    BY <2>3, <2>4 DEF nuls
  <2> QED BY <2>3, <2>4, <2>5
<1> QED BY <1>2, <1>3

LEMMA MemchrFinds ==
  ASSUME NEW d, NEW from \in Nat \ {0}, NEW end \in Int, NEW nul \in from .. end - 1,
         d[nul] = 0, \A i \in from .. nul - 1 : d[i] # 0
  PROVE  memchr(d, from, end) = nul
<1>1. PICK m : m = memchr(d, from, end)
  OBVIOUS
<1>2. \/ m = 0 /\ \A i \in from .. end - 1 : d[i] # 0
      \/ m \in from .. end - 1 /\ d[m] = 0 /\ \A i \in from .. m - 1 : d[i] # 0
  BY <1>1, MemchrIs
<1>3. m \in from .. end - 1 /\ d[m] = 0 /\ \A i \in from .. m - 1 : d[i] # 0
  BY <1>2
<1>4. ~(m < nul) /\ ~(nul < m)
  BY <1>3
<1> QED BY <1>1, <1>3, <1>4

-----------------------------------------------------------------------------
(* Sizes: linklet_bson_value_size for each family of types *)

\* The size, when it fits.
Fitting(at, size, end) == IF at + size <= end THEN size ELSE 0

LEMMA NoValueSize ==
  ASSUME NEW type \in NoValueTypes, NEW d, NEW at, NEW end
  PROVE  value_size(type, d, at, end) =
             0
  BY DEF Fitting, value_size, NoValueTypes, FixedTypes, TextTypes, NestedTypes, BINARY, REGEX, DBPOINTER,
     CODEWSCOPE, NULL, DOUBLE, UTF8, DOCUMENT, ARRAY, CODE, SYMBOL, INT32

LEMMA FixedSize ==
  ASSUME NEW type \in FixedTypes, NEW d, NEW at, NEW end
  PROVE  value_size(type, d, at, end) =
             Fitting(at, 1, end)
  BY DEF Fitting, value_size, NoValueTypes, FixedTypes, TextTypes, NestedTypes, BINARY, REGEX, DBPOINTER,
     CODEWSCOPE, NULL, DOUBLE, UTF8, DOCUMENT, ARRAY, CODE, SYMBOL, INT32

LEMMA TextSize ==
  ASSUME NEW type \in TextTypes, NEW d, NEW at, NEW end
  PROVE  value_size(type, d, at, end) =
             IF at < end /\ d[at] >= 1 THEN Fitting(at, 1 + d[at], end) ELSE 0
  BY DEF Fitting, value_size, NoValueTypes, FixedTypes, TextTypes, NestedTypes, BINARY, REGEX, DBPOINTER,
     CODEWSCOPE, NULL, DOUBLE, UTF8, DOCUMENT, ARRAY, CODE, SYMBOL, INT32

LEMMA NestedSize ==
  ASSUME NEW type \in NestedTypes, NEW d, NEW at, NEW end
  PROVE  value_size(type, d, at, end) =
             IF at < end /\ d[at] >= EMPTY_SIZE THEN Fitting(at, d[at], end) ELSE 0
  BY DEF Fitting, value_size, NoValueTypes, FixedTypes, TextTypes, NestedTypes, BINARY, REGEX, DBPOINTER,
     CODEWSCOPE, NULL, DOUBLE, UTF8, DOCUMENT, ARRAY, CODE, SYMBOL, INT32

LEMMA BinarySize ==
  ASSUME NEW d, NEW at, NEW end
  PROVE  value_size(BINARY, d, at, end) =
             IF at < end THEN Fitting(at, 2 + d[at], end) ELSE 0
  BY DEF Fitting, value_size, NoValueTypes, FixedTypes, TextTypes, NestedTypes, BINARY, REGEX, DBPOINTER,
     CODEWSCOPE, NULL, DOUBLE, UTF8, DOCUMENT, ARRAY, CODE, SYMBOL, INT32

LEMMA PointerSize ==
  ASSUME NEW d, NEW at, NEW end
  PROVE  value_size(DBPOINTER, d, at, end) =
             IF at < end /\ d[at] >= 1 THEN Fitting(at, 2 + d[at], end) ELSE 0
  BY DEF Fitting, value_size, NoValueTypes, FixedTypes, TextTypes, NestedTypes, BINARY, REGEX, DBPOINTER,
     CODEWSCOPE, NULL, DOUBLE, UTF8, DOCUMENT, ARRAY, CODE, SYMBOL, INT32

LEMMA ScopeSize ==
  ASSUME NEW d, NEW at, NEW end
  PROVE  value_size(CODEWSCOPE, d, at, end) =
             IF at < end /\ d[at] >= CODEWSCOPE_MIN THEN Fitting(at, d[at], end) ELSE 0
  BY DEF Fitting, value_size, NoValueTypes, FixedTypes, TextTypes, NestedTypes, BINARY, REGEX, DBPOINTER,
     CODEWSCOPE, NULL, DOUBLE, UTF8, DOCUMENT, ARRAY, CODE, SYMBOL, INT32

LEMMA RegexSize ==
  ASSUME NEW d, NEW at, NEW end
  PROVE  value_size(REGEX, d, at, end) =
             LET second == memchr(d, at, end) + 1
                 closing == memchr(d, second, end)
             IN  IF second = 1 \/ closing = 0 THEN 0 ELSE closing + 1 - at
  BY DEF Fitting, value_size, NoValueTypes, FixedTypes, TextTypes, NestedTypes, BINARY, REGEX, DBPOINTER,
     CODEWSCOPE, NULL, DOUBLE, UTF8, DOCUMENT, ARRAY, CODE, SYMBOL, INT32


\* Every type is of one of these families.
LEMMA Families ==
  ASSUME NEW type, NEW d, NEW at, NEW end, value_size(type, d, at, end) # 0
  PROVE  \/ type \in FixedTypes \/ type \in TextTypes \/ type \in NestedTypes
         \/ type \in {BINARY, DBPOINTER, CODEWSCOPE, REGEX}
  BY DEF value_size

\* A value takes the same number of cells wherever it stands.
LEMMA SizeMoves ==
  ASSUME NEW type, NEW cells, IsValue(type, cells), NEW d, NEW at \in Nat \ {0}, NEW end \in Nat,
         \A k \in 1 .. Len(cells) : d[at - 1 + k] = cells[k], at + Len(cells) <= end
  PROVE  value_size(type, d, at, end) = Len(cells)
<1> DEFINE n == Len(cells)
<1>1. cells \in Seq(Nat) /\ n \in Nat /\ (n = 0 => type \in NoValueTypes)
  BY DEF IsValue
<1>2. value_size(type, cells, 1, n + 1) = n
  BY DEF IsValue
<1>3. CASE n = 0
  BY <1>1, <1>3, NoValueSize
<1>4. CASE n # 0
  <2>1. n > 0 /\ 1 < n + 1 /\ at < end /\ at + n <= end
    BY <1>1, <1>4
  <2>2. d[at] = cells[1] /\ cells[1] \in Nat
    <3>1. 1 \in 1 .. n /\ at - 1 + 1 = at
      BY <1>1, <2>1
    <3> QED BY <1>1, <3>1
  <2> HIDE DEF n
  <2>3. \/ type \in FixedTypes \/ type \in TextTypes \/ type \in NestedTypes
        \/ type \in {BINARY, DBPOINTER, CODEWSCOPE, REGEX}
    BY <1>2, <1>4, Families
  <2>4. CASE type \in FixedTypes
    BY <1>1, <1>2, <2>1, <2>4, FixedSize DEF Fitting, n
  <2>5. CASE type \in TextTypes
    <3>1. n = IF cells[1] >= 1 THEN Fitting(1, 1 + cells[1], n + 1) ELSE 0
      BY <1>2, <2>1, <2>5, TextSize
    <3>2. value_size(type, d, at, end) =
            IF d[at] >= 1 THEN Fitting(at, 1 + d[at], end) ELSE 0
      BY <2>1, <2>5, TextSize
    <3> QED BY <1>1, <2>1, <2>2, <3>1, <3>2 DEF Fitting, n
  <2>6. CASE type \in NestedTypes
    <3>1. n = IF cells[1] >= EMPTY_SIZE THEN Fitting(1, cells[1], n + 1) ELSE 0
      BY <1>2, <2>1, <2>6, NestedSize
    <3>2. value_size(type, d, at, end) =
            IF d[at] >= EMPTY_SIZE THEN Fitting(at, d[at], end) ELSE 0
      BY <2>1, <2>6, NestedSize
    <3> QED BY <1>1, <2>1, <2>2, <3>1, <3>2 DEF Fitting, n
  <2>7. CASE type = BINARY
    <3>1. n = Fitting(1, 2 + cells[1], n + 1)
      BY <1>2, <2>1, <2>7, BinarySize
    <3>2. value_size(type, d, at, end) = Fitting(at, 2 + d[at], end)
      BY <2>1, <2>7, BinarySize
    <3> QED BY <1>1, <2>1, <2>2, <3>1, <3>2 DEF Fitting, n
  <2>8. CASE type = DBPOINTER
    <3>1. n = IF cells[1] >= 1 THEN Fitting(1, 2 + cells[1], n + 1) ELSE 0
      BY <1>2, <2>1, <2>8, PointerSize
    <3>2. value_size(type, d, at, end) =
            IF d[at] >= 1 THEN Fitting(at, 2 + d[at], end) ELSE 0
      BY <2>1, <2>8, PointerSize
    <3> QED BY <1>1, <2>1, <2>2, <3>1, <3>2 DEF Fitting, n
  <2>9. CASE type = CODEWSCOPE
    <3>1. n = IF cells[1] >= CODEWSCOPE_MIN THEN Fitting(1, cells[1], n + 1) ELSE 0
      BY <1>2, <2>1, <2>9, ScopeSize
    <3>2. value_size(type, d, at, end) =
            IF d[at] >= CODEWSCOPE_MIN THEN Fitting(at, d[at], end) ELSE 0
      BY <2>1, <2>9, ScopeSize
    <3> QED BY <1>1, <2>1, <2>2, <3>1, <3>2 DEF Fitting, n
  <2>10. CASE type = REGEX
    <3> DEFINE first == memchr(cells, 1, n + 1)
               last == memchr(cells, first + 1, n + 1)
    <3>1. n = IF first + 1 = 1 \/ last = 0 THEN 0 ELSE last + 1 - 1
      BY <1>2, <2>10, RegexSize
    <3>2. \/ first = 0
          \/ /\ first \in 1 .. n /\ cells[first] = 0
             /\ \A i \in 1 .. first - 1 : cells[i] # 0
      BY <1>1, MemchrIs DEF n
    <3> HIDE DEF first
    <3>3. first # 0
      BY <1>4, <3>1
    <3>4. \/ last = 0
          \/ /\ last \in first + 1 .. n /\ cells[last] = 0
             /\ \A i \in first + 1 .. last - 1 : cells[i] # 0
      <4>1. first + 1 \in Nat \ {0} /\ n + 1 \in Int
        BY <1>1, <3>2, <3>3 DEF n
      <4>2. (n + 1) - 1 = n
        BY <1>1 DEF n
      <4> QED BY <4>1, <4>2, MemchrIs
    <3> HIDE DEF last
    <3>5. last = n
      BY <1>1, <1>4, <3>1, <3>4 DEF n
    <3>6. first \in 1 .. n - 1
      BY <1>1, <1>4, <3>2, <3>3, <3>4, <3>5
    <3>7. memchr(d, at, end) = at - 1 + first
      <4> PICK nul \in at .. end - 1 : nul = at - 1 + first
        BY <1>1, <2>1, <3>6
      <4>1. d[nul] = 0
        BY <1>1, <3>2, <3>3 DEF n
      <4>2. ASSUME NEW i \in at .. nul - 1 PROVE d[i] # 0
        <5> PICK k \in 1 .. first - 1 : i = at - 1 + k
          <6>1. i - at + 1 \in 1 .. first - 1 /\ i = at - 1 + (i - at + 1)
            BY <3>6
          <6> QED BY <6>1
        <5>1. k \in 1 .. Len(cells)
          BY <1>1, <3>6 DEF n
        <5> QED BY <3>2, <3>3, <5>1
      <4> QED BY <4>1, <4>2, MemchrFinds
    <3>8. memchr(d, at + first, end) = at - 1 + n
      <4> PICK nul \in at + first .. end - 1 : nul = at - 1 + n
        BY <1>1, <2>1, <3>6
      <4>1. d[nul] = 0
        BY <1>1, <1>4, <3>4, <3>5 DEF n
      <4>2. ASSUME NEW i \in at + first .. nul - 1 PROVE d[i] # 0
        <5> PICK k \in first + 1 .. n - 1 : i = at - 1 + k
          <6>1. i - at + 1 \in first + 1 .. n - 1 /\ i = at - 1 + (i - at + 1)
            BY <1>1, <3>6
          <6> QED BY <6>1
        <5>1. k \in 1 .. Len(cells)
          BY <1>1, <3>6 DEF n
        <5> QED BY <1>4, <3>4, <3>5, <5>1
      <4> PICK start \in Nat \ {0} : start = at + first
        BY <3>6
      <4>3. nul \in start .. end - 1 /\ \A i \in start .. nul - 1 : d[i] # 0
        BY <4>2
      <4>4. memchr(d, start, end) = nul
        BY <4>1, <4>3, MemchrFinds
      <4> QED BY <4>4
    <3>9. memchr(d, at, end) + 1 = at + first /\ at + first # 1 /\ at - 1 + n # 0
      BY <1>1, <3>6, <3>7
    <3>10. value_size(type, d, at, end) = at - 1 + n + 1 - at
      BY <2>10, <3>8, <3>9, RegexSize
    <3> QED BY <1>1, <3>10 DEF n
  <2> QED BY <2>3, <2>4, <2>5, <2>6, <2>7, <2>8, <2>9, <2>10
<1> QED BY <1>3, <1>4

-----------------------------------------------------------------------------
(* Layout: where the elements of a document lie *)

FieldSet == [type : Nat, key : Seq(Nat), value : Seq(Nat)]

\* A field as the writer accepts it, complete or with its nested document to come.
Header(f) == f \in FieldSet /\ f.type \in Types /\ f.key \in Seq(Nat \ {0})
HasValue(f) == Header(f) /\ IsValue(f.type, f.value)
Awaits(f) == Header(f) /\ f.type \in NestedTypes /\ f.value = <<>>

Width(f) == Len(f.key) + Len(f.value) + 2

\* The cells of d from at on are the field.
Laid(d, at, f) ==
  /\ d \in Seq(Nat) /\ at \in Nat \ {0} /\ at + Width(f) <= Len(d)
  /\ d[at] = f.type
  /\ \A k \in 1 .. Len(f.key) : d[at + k] = f.key[k]
  /\ d[at + Len(f.key) + 1] = 0
  /\ \A k \in 1 .. Len(f.value) : d[at + Len(f.key) + 1 + k] = f.value[k]

\* pos[i] is where field i begins, the last position that of the terminator.
Places(pos, d, fs) ==
  /\ pos[1] = 2 /\ pos[Len(fs) + 1] = Len(d)
  /\ \A i \in 1 .. Len(fs) + 1 : pos[i] \in i + 1 .. Len(d)
  /\ \A i \in 1 .. Len(fs) : pos[i + 1] = pos[i] + Width(fs[i]) /\ Laid(d, pos[i], fs[i])

DocumentOf(d, fs) ==
  /\ d \in Seq(Nat) /\ Len(d) >= EMPTY_SIZE
  /\ d[1] = Len(d) /\ d[Len(d)] = 0
  /\ \E pos \in [1 .. Len(fs) + 1 -> Nat] : Places(pos, d, fs)

\* Only the last of the fields may lack its value.
Readable(fs) ==
  /\ fs \in Seq(FieldSet)
  /\ \A i \in 1 .. Len(fs) : HasValue(fs[i]) \/ (i = Len(fs) /\ Awaits(fs[i]))

Element(f, next) == [type |-> f.type, key |-> f.key, value |-> f.value, next |-> next]

LEMMA TypeNumbers == \A type \in Types : type \in Nat \ {0}
  BY DEF Types, NoValueTypes, FixedTypes, TextTypes, NestedTypes, BINARY, REGEX, DBPOINTER,
     CODEWSCOPE, NULL, DOUBLE, UTF8, DOCUMENT, ARRAY, CODE, SYMBOL, INT32

LEMMA NestedDiffer == \A type \in NestedTypes : type \notin NoValueTypes
  BY DEF NoValueTypes, NestedTypes, NULL, DOCUMENT, ARRAY

\* The sizes that matter for a field in a document.
Sizes(d, f, last, n, m) == last = Len(d) /\ n = Len(f.key) /\ m = Len(f.value)

\* What it means for a field to be in place, in these sizes.
InPlace(d, at, f, last, n, m) ==
  /\ at + n + m + 2 <= last
  /\ d[at] = f.type
  /\ \A k \in 1 .. n : d[at + k] = f.key[k]
  /\ d[at + n + 1] = 0
  /\ \A k \in 1 .. m : d[at + n + 1 + k] = f.value[k]

LEMMA WidthIs ==
  ASSUME NEW d, NEW f, NEW last, NEW n \in Nat, NEW m \in Nat, Sizes(d, f, last, n, m)
  PROVE  Width(f) = n + m + 2
  BY DEF Width, Sizes

LEMMA LaidCells ==
  ASSUME NEW d, NEW f, Header(f), NEW at, Laid(d, at, f)
  PROVE  \E last, n, m \in Nat : Sizes(d, f, last, n, m) /\ InPlace(d, at, f, last, n, m)
<1>1. f.key \in Seq(Nat) /\ f.value \in Seq(Nat) /\ d \in Seq(Nat) /\ at \in Nat \ {0}
  BY DEF Header, FieldSet, Laid
<1>2. PICK last \in Nat : last = Len(d)
  BY <1>1
<1>3. PICK n \in Nat : n = Len(f.key)
  BY <1>1
<1>4. PICK m \in Nat : m = Len(f.value)
  BY <1>1
<1>5. Sizes(d, f, last, n, m)
  BY <1>2, <1>3, <1>4 DEF Sizes
<1>6. Width(f) = n + m + 2
  BY <1>5, WidthIs
<1>7. at + (n + m + 2) <= last
  BY <1>2, <1>6 DEF Laid
<1>8. at + n + m + 2 <= last
  BY <1>1, <1>7
<1>9. InPlace(d, at, f, last, n, m)
  BY <1>3, <1>4, <1>8 DEF InPlace, Laid
<1> QED BY <1>5, <1>9

\* A field with its key in place: where the key ends.
LEMMA KeyEnds ==
  ASSUME NEW d, NEW f, Header(f), NEW at \in Nat \ {0}, NEW last \in Nat, NEW n \in Nat, NEW m \in Nat,
         Sizes(d, f, last, n, m), InPlace(d, at, f, last, n, m)
  PROVE  memchr(d, at + 1, last + 1) = at + n + 1
<1>1. f.key \in Seq(Nat \ {0}) /\ n = Len(f.key)
  BY DEF Header, Sizes
<1>2. at + n + m + 2 <= last
  BY DEF InPlace
<1>3. PICK start \in Nat \ {0} : start = at + 1
  OBVIOUS
<1>4. PICK end \in Int : end = last + 1
  OBVIOUS
<1>5. PICK nul \in start .. end - 1 : nul = at + n + 1
  BY <1>2, <1>3, <1>4
<1>6. d[nul] = 0
  BY <1>5 DEF InPlace
<1>7. ASSUME NEW i \in start .. nul - 1 PROVE d[i] # 0
  <2>1. PICK k \in 1 .. n : i = at + k
    <3>1. i - at \in 1 .. n /\ i = at + (i - at)
      BY <1>3, <1>5
    <3> QED BY <3>1
  <2>2. f.key[k] \in Nat \ {0}
    BY <1>1
  <2>3. d[at + k] = f.key[k]
    BY DEF InPlace
  <2> QED BY <2>1, <2>2, <2>3
<1>8. memchr(d, start, end) = nul
  BY <1>6, <1>7, MemchrFinds
<1> QED BY <1>3, <1>4, <1>5, <1>8

\* A stretch of cells.
LEMMA CellsBetween ==
  ASSUME NEW d \in Seq(Nat), NEW s \in Seq(Nat), NEW at \in Nat \ {0}, NEW n \in Nat, n = Len(s),
         at + n <= Len(d) + 1, \A k \in 1 .. n : d[at - 1 + k] = s[k]
  PROVE  SubSeq(d, at, at + n - 1) = s
<1> DEFINE cut == SubSeq(d, at, at + n - 1)
<1>1. cut \in Seq(Nat) /\ Len(cut) = n /\ \A k \in 1 .. n : cut[k] = d[at + k - 1]
  <2>1. Len(d) \in Nat
    OBVIOUS
  <2>2. \A i \in at .. at + n - 1 : i \in 1 .. Len(d)
    BY <2>1
  <2> QED BY <2>2, SubSeqProperties
<1> HIDE DEF cut
<1>2. \A k \in 1 .. n : cut[k] = s[k]
  BY <1>1
<1>3. cut = s
  BY <1>1, <1>2, SeqEqual
<1> QED BY <1>3 DEF cut

\* linklet_bson_iterator_decode_at reads a field where it lies.
LEMMA LaidReads ==
  ASSUME NEW d, NEW f, HasValue(f), NEW at, Laid(d, at, f)
  PROVE  decode_at(d, at) = Element(f, at + Width(f))
<1>1. Header(f) /\ IsValue(f.type, f.value)
  BY DEF HasValue
<1>2. d \in Seq(Nat) /\ at \in Nat \ {0} /\ f.key \in Seq(Nat) /\ f.value \in Seq(Nat)
      /\ f.type \in Nat \ {0}
  BY <1>1, TypeNumbers DEF Header, FieldSet, Laid
<1>3. PICK last \in Nat, n \in Nat, m \in Nat :
        Sizes(d, f, last, n, m) /\ InPlace(d, at, f, last, n, m)
  BY <1>1, LaidCells
<1>4. last = Len(d) /\ n = Len(f.key) /\ m = Len(f.value)
  BY <1>3 DEF Sizes
<1>5. PICK end \in Nat : end = last + 1
  OBVIOUS
<1>6. PICK start \in Nat \ {0} : start = at + n + 2
  BY <1>2
<1>7. /\ at + n + m + 2 <= last /\ d[at] = f.type
      /\ \A k \in 1 .. n : d[at + k] = f.key[k]
      /\ \A k \in 1 .. m : d[at + n + 1 + k] = f.value[k]
  BY <1>3 DEF InPlace
<1> DEFINE key_end == memchr(d, at + 1, end)
           size == value_size(d[at], d, key_end + 1, end)
<1>8. key_end = at + n + 1
  BY <1>1, <1>2, <1>3, <1>5, KeyEnds
<1> HIDE DEF key_end
<1>9. \A k \in 1 .. m : d[start - 1 + k] = f.value[k]
  <2> TAKE k \in 1 .. m
  <2>1. start - 1 + k = at + n + 1 + k
    BY <1>2, <1>6
  <2> QED BY <1>7, <2>1
<1>10. start + m <= end
  BY <1>2, <1>5, <1>6, <1>7
<1>11. size = m
  <2>1. value_size(f.type, d, start, end) = m
    BY <1>1, <1>4, <1>9, <1>10, SizeMoves
  <2>2. key_end + 1 = start
    BY <1>2, <1>6, <1>8
  <2> QED BY <1>7, <2>1, <2>2
<1> HIDE DEF size
<1>12. m = 0 => d[at] \in NoValueTypes
  <2>1. m = 0 => f.value = <<>>
    BY <1>2, <1>4, EmptySeq, Zenon
  <2> QED BY <1>1, <1>7, <2>1 DEF IsValue
<1>13. SubSeq(d, at + 1, key_end - 1) = f.key
  <2>1. PICK from \in Nat \ {0} : from = at + 1
    BY <1>2
  <2>2. \A k \in 1 .. n : d[from - 1 + k] = f.key[k]
    <3> TAKE k \in 1 .. n
    <3>1. from - 1 + k = at + k
      BY <1>2, <2>1
    <3> QED BY <1>7, <3>1
  <2>3. from + n <= last + 1
    BY <1>2, <1>7, <2>1
  <2>4. SubSeq(d, from, from + n - 1) = f.key
    BY <1>2, <1>4, <2>2, <2>3, CellsBetween
  <2>5. from + n - 1 = key_end - 1
    BY <1>2, <1>8, <2>1
  <2> QED BY <2>1, <2>4, <2>5
<1>14. SubSeq(d, key_end + 1, key_end + size) = f.value
  <2>1. start + m <= last + 1
    BY <1>5, <1>10
  <2>2. SubSeq(d, start, start + m - 1) = f.value
    BY <1>2, <1>4, <1>9, <2>1, CellsBetween
  <2>3. key_end + 1 = start /\ key_end + size = start + m - 1
    BY <1>2, <1>6, <1>8, <1>11
  <2> QED BY <2>2, <2>3
<1>15. key_end + size + 1 = at + (n + m + 2) /\ key_end # 0 /\ ~(at >= end) /\ d[at] # 0
  BY <1>2, <1>5, <1>7, <1>8, <1>11
<1>16. Width(f) = n + m + 2
  BY <1>3, WidthIs
<1>17. decode_at(d, at) =
         IF at >= end \/ d[at] = 0 \/ key_end = 0 \/ (size = 0 /\ d[at] \notin NoValueTypes)
         THEN NoElement
         ELSE [type |-> d[at], key |-> SubSeq(d, at + 1, key_end - 1),
               value |-> SubSeq(d, key_end + 1, key_end + size), next |-> key_end + size + 1]
  <2>1. end = Len(d) + 1
    BY <1>4, <1>5
  <2> QED BY <2>1 DEF decode_at, key_end, size
<1>18. ~(at >= end \/ d[at] = 0 \/ key_end = 0 \/ (size = 0 /\ d[at] \notin NoValueTypes))
  BY <1>11, <1>12, <1>15
<1>19. d[at] = f.type
  BY <1>7
<1> QED BY <1>13, <1>14, <1>15, <1>16, <1>17, <1>18, <1>19 DEF Element

\* Nothing is read at the terminator.
LEMMA StopsAtEnd ==
  ASSUME NEW d, NEW at, d[at] = 0
  PROVE  decode_at(d, at) = NoElement
  BY DEF decode_at

\* Nor is the field read whose nested document is to come.
LEMMA StopsAtAwaited ==
  ASSUME NEW d, d[Len(d)] = 0, NEW f, Awaits(f), NEW at, Laid(d, at, f), at + Width(f) = Len(d)
  PROVE  decode_at(d, at) = NoElement
<1>1. Header(f) /\ f.type \in NestedTypes /\ f.value = <<>> /\ at \in Nat \ {0}
  BY DEF Awaits, Laid
<1>2. PICK last \in Nat, n \in Nat, m \in Nat :
        Sizes(d, f, last, n, m) /\ InPlace(d, at, f, last, n, m)
  BY <1>1, LaidCells
<1>3. last = Len(d) /\ m = 0
  BY <1>1, <1>2 DEF Sizes
<1>4. Width(f) = n + m + 2
  BY <1>2, WidthIs
<1>5. at + n + 1 = last - 1
  <2>1. at + (n + m + 2) = last
    BY <1>3, <1>4
  <2> QED BY <1>1, <1>3, <2>1
<1>6. memchr(d, at + 1, last + 1) = last - 1
  BY <1>1, <1>2, <1>5, KeyEnds
<1>7. value_size(f.type, d, last, last + 1) = 0
  <2>1. ~(0 >= EMPTY_SIZE)
    BY DEF EMPTY_SIZE, EMPTY
  <2>2. d[last] = 0
    BY <1>3
  <2> QED BY <1>1, <2>1, <2>2, NestedSize
<1>8. last - 1 + 1 = last
  OBVIOUS
<1>9. d[at] = f.type /\ f.type \notin NoValueTypes
  BY <1>1, <1>2, NestedDiffer DEF InPlace
<1>10. value_size(d[at], d, memchr(d, at + 1, Len(d) + 1) + 1, Len(d) + 1) = 0
  BY <1>3, <1>6, <1>7, <1>8, <1>9
<1> QED BY <1>9, <1>10 DEF decode_at

\* The client's own account of an unfinished document.
LEMMA UnfinishedAwaits ==
  ASSUME NEW fs, Readable(fs)
  PROVE  /\ Unfinished(fs) => Len(fs) # 0 /\ Awaits(fs[Len(fs)])
         /\ \A i \in 1 .. Len(fs) : i # Len(fs) \/ ~Unfinished(fs) => HasValue(fs[i])
<1>1. fs \in Seq(FieldSet) /\ Len(fs) \in Nat /\ (fs # <<>> <=> Len(fs) # 0)
  BY DEF Readable
<1>2. Unfinished(fs) <=>
        fs # <<>> /\ fs[Len(fs)].type \in NestedTypes /\ fs[Len(fs)].value = <<>>
  BY DEF Unfinished, Last
<1>3. ASSUME Unfinished(fs) PROVE Awaits(fs[Len(fs)])
  <2>1. HasValue(fs[Len(fs)]) \/ Awaits(fs[Len(fs)])
    BY <1>1, <1>2, <1>3 DEF Readable
  <2>2. ~HasValue(fs[Len(fs)])
    BY <1>2, <1>3, NestedDiffer DEF HasValue, IsValue
  <2> QED BY <2>1, <2>2
<1>4. ASSUME NEW i \in 1 .. Len(fs), i # Len(fs) \/ ~Unfinished(fs) PROVE HasValue(fs[i])
  <2>1. HasValue(fs[i]) \/ (i = Len(fs) /\ Awaits(fs[i]))
    BY DEF Readable
  <2>2. i = Len(fs) /\ Awaits(fs[i]) => Unfinished(fs)
    BY <1>1, <1>2 DEF Awaits
  <2> QED BY <1>4, <2>1, <2>2
<1> QED BY <1>1, <1>2, <1>3, <1>4

\* The number of the elements that can be read.
Readables(fs) == IF Unfinished(fs) THEN Len(fs) - 1 ELSE Len(fs)

\* The iterator returns the fields of a document, in order, to the last that is complete.
LEMMA ElementsRead ==
  ASSUME NEW d, NEW fs, DocumentOf(d, fs), Readable(fs)
  PROVE  /\ Readables(fs) \in Nat
         /\ \E pos : Elements(d) = [i \in 1 .. Readables(fs) |-> Element(fs[i], pos[i + 1])]
<1>1. /\ fs \in Seq(FieldSet) /\ Len(fs) \in Nat /\ d \in Seq(Nat) /\ Len(d) \in Nat
      /\ Len(d) >= EMPTY_SIZE /\ d[Len(d)] = 0
  BY DEF Readable, DocumentOf
<1> PICK pos \in [1 .. Len(fs) + 1 -> Nat] : Places(pos, d, fs)
  BY DEF DocumentOf
<1> PICK n \in Nat : n = Len(fs)
  BY <1>1
<1> PICK m \in 0 .. n : m = Readables(fs)
  <2>1. Unfinished(fs) => n # 0
    BY UnfinishedAwaits
  <2> QED BY <2>1 DEF Readables
<1>2. /\ pos[1] = 2 /\ pos[n + 1] = Len(d)
      /\ \A i \in 1 .. n + 1 : pos[i] \in i + 1 .. Len(d)
      /\ \A i \in 1 .. n : pos[i + 1] = pos[i] + Width(fs[i]) /\ Laid(d, pos[i], fs[i])
  BY DEF Places
<1> DEFINE First(k) == [i \in 1 .. k |-> Element(fs[i], pos[i + 1])]
<1>3. ASSUME NEW i \in 1 .. m PROVE decode_at(d, pos[i]) = Element(fs[i], pos[i + 1])
  <2>1. i \in 1 .. Len(fs) /\ (i # Len(fs) \/ ~Unfinished(fs))
    BY DEF Readables
  <2>2. HasValue(fs[i])
    BY <2>1, UnfinishedAwaits
  <2>3. i \in 1 .. n /\ i \in 1 .. n + 1 /\ i + 1 \in 1 .. n + 1
    OBVIOUS
  <2>4. Laid(d, pos[i], fs[i]) /\ pos[i + 1] = pos[i] + Width(fs[i])
    BY <1>2, <2>3
  <2> QED BY <2>2, <2>4, LaidReads
<1>4. decode_at(d, pos[m + 1]) = NoElement
  <2>1. CASE Unfinished(fs)
    <3>1. m + 1 = n /\ n \in 1 .. n /\ n \in 1 .. n + 1 /\ n = Len(fs) /\ Awaits(fs[n])
      BY <2>1, UnfinishedAwaits DEF Readables
    <3>2. Laid(d, pos[n], fs[n]) /\ pos[n] + Width(fs[n]) = Len(d)
      BY <1>2, <3>1
    <3> QED BY <1>1, <3>1, <3>2, StopsAtAwaited
  <2>2. CASE ~Unfinished(fs)
    <3>1. m = n
      BY <2>2 DEF Readables
    <3> QED BY <1>1, <1>2, <3>1, StopsAtEnd
  <2> QED BY <2>1, <2>2
<1>5. ASSUME NEW k \in 0 .. m
      PROVE  iterator_next(d, First(k)) = IF k < m THEN First(k + 1) ELSE First(k)
  <2>1. (First(k) = <<>> <=> k = 0) /\ Len(First(k)) = k
    OBVIOUS
  <2>2. k # 0 => Last(First(k)).next = pos[k + 1]
    <3>1. Last(First(k)) = First(k)[k]
      BY <2>1 DEF Last
    <3>2. k # 0 => First(k)[k] = Element(fs[k], pos[k + 1])
      OBVIOUS
    <3> HIDE DEF First
    <3> QED BY <3>1, <3>2 DEF Element
  <2> HIDE DEF First
  <2>3. (IF First(k) = <<>> THEN 2 ELSE Last(First(k)).next) = pos[k + 1]
    BY <1>2, <2>1, <2>2
  <2>4. iterator_next(d, First(k)) =
          IF decode_at(d, pos[k + 1]) = NoElement THEN First(k)
          ELSE Append(First(k), decode_at(d, pos[k + 1]))
    BY <2>3 DEF iterator_next
  <2>5. CASE k < m
    <3> PICK j \in 1 .. m : j = k + 1
      BY <2>5
    <3>1. decode_at(d, pos[j]) = Element(fs[j], pos[j + 1])
      BY <1>3
    <3>2. Element(fs[j], pos[j + 1]) # NoElement
      <4>1. j \in 1 .. Len(fs)
        OBVIOUS
      <4>3. Header(fs[j])
        BY <4>1 DEF Readable, HasValue, Awaits
      <4>2. fs[j].type # 0
        BY <4>3, TypeNumbers DEF Header
      <4> QED BY <4>2 DEF Element, NoElement
    <3>3. Append(First(k), Element(fs[j], pos[j + 1])) = First(j)
      BY DEF First
    <3> QED BY <2>4, <2>5, <3>1, <3>2, <3>3
  <2>6. CASE k = m
    BY <1>4, <2>4, <2>6
  <2> QED BY <2>5, <2>6
<1> DEFINE Reached(i) == IF i <= m THEN First(i) ELSE First(m)
           Equation(f) == f = [i \in 0 .. Len(d) |-> IF i = 0 THEN <<>> ELSE iterator_next(d, f[i - 1])]
           returned == CHOOSE f : Equation(f)
           g == [i \in 0 .. Len(d) |-> Reached(i)]
<1>6. \A i \in 0 .. Len(d) : Reached(i) = IF i = 0 THEN <<>> ELSE iterator_next(d, Reached(i - 1))
  <2> SUFFICES ASSUME NEW i \in 0 .. Len(d)
               PROVE  Reached(i) = IF i = 0 THEN <<>> ELSE iterator_next(d, Reached(i - 1))
    OBVIOUS
  <2>1. CASE i = 0
    BY <2>1
  <2>2. CASE i # 0
    <3> PICK k \in Nat : k = i - 1 /\ i = k + 1
      BY <1>1, <2>2
    <3> HIDE DEF First
    <3>1. CASE k <= m
      BY <1>5, <3>1, <2>2
    <3>2. CASE k > m
      <4>1. m \in 0 .. m /\ ~(m < m)
        OBVIOUS
      <4> QED BY <1>5, <2>2, <3>2, <4>1
    <3> QED BY <3>1, <3>2
  <2> QED BY <2>1, <2>2
<1>7. Equation(g)
  <2> HIDE DEF Reached
  <2>1. \A i \in 0 .. Len(d) : i # 0 => g[i - 1] = Reached(i - 1)
    BY <1>1
  <2>2. \A i \in 0 .. Len(d) : Reached(i) = IF i = 0 THEN <<>> ELSE iterator_next(d, g[i - 1])
    BY <1>6, <2>1
  <2> QED BY <2>2, Zenon
<1>8. Equation(returned)
  <2> HIDE DEF Equation
  <2> QED BY <1>7
<1>9. \A i \in 0 .. Len(d) : returned[i] = IF i = 0 THEN <<>> ELSE iterator_next(d, returned[i - 1])
  <2> HIDE DEF returned
  <2> QED BY <1>8, Zenon
<1>10. Elements(d) = returned[Len(d)]
  <2>1. ~(Len(d) < EMPTY_SIZE)
    <3>1. EMPTY_SIZE \in Nat
      BY DEF EMPTY_SIZE, EMPTY
    <3> QED BY <1>1, <3>1
  <2> QED BY <2>1, Zenon DEF Elements
<1> HIDE DEF returned, Reached
<1>11. returned[Len(d)] = Reached(Len(d))
  <2> DEFINE H == {i \in 0 .. Len(d) : returned[i] = Reached(i)}
  <2>1. 0 \in H
    BY <1>1, <1>6, <1>9
  <2>2. \A i \in 0 .. Len(d) - 1 : i \in H => i + 1 \in H
    <3> SUFFICES ASSUME NEW i \in 0 .. Len(d) - 1, returned[i] = Reached(i)
                 PROVE  returned[i + 1] = Reached(i + 1)
      BY <1>1
    <3> PICK k \in 0 .. Len(d) : k = i + 1
      BY <1>1
    <3>1. k # 0 /\ k - 1 = i
      OBVIOUS
    <3> QED BY <1>6, <1>9, <3>1
  <2>3. H \in SUBSET Nat
    OBVIOUS
  <2> HIDE DEF H
  <2>4. 0 .. Len(d) \subseteq H
    BY <1>1, <2>1, <2>2, <2>3, UpTo
  <2>5. Len(d) \in H
    BY <1>1, <2>4
  <2> QED BY <2>5 DEF H
<1>12. Reached(Len(d)) = First(m)
  <2>1. pos[n + 1] \in n + 2 .. Len(d)
    BY <1>2
  <2>2. m <= Len(d)
    BY <1>1, <2>1
  <2>3. Len(d) <= m => Len(d) = m
    BY <1>1, <2>2
  <2> HIDE DEF First
  <2> QED BY <2>3 DEF Reached
<1>13. Elements(d) = [i \in 1 .. Readables(fs) |-> Element(fs[i], pos[i + 1])]
  BY <1>10, <1>11, <1>12
<1>14. Readables(fs) \in Nat
  OBVIOUS
<1> QED BY <1>13, <1>14, Zenon

\* What is read is what is complete.
LEMMA FieldsRead ==
  ASSUME NEW d, NEW fs, DocumentOf(d, fs), Readable(fs)
  PROVE  Fields(d) = Whole(fs) /\ Len(Elements(d)) \in Nat
<1>1. fs \in Seq(FieldSet) /\ Len(fs) \in Nat
  BY DEF Readable
<1> PICK m \in Nat : m = Readables(fs)
  BY ElementsRead
<1>2. PICK pos : Elements(d) = [i \in 1 .. m |-> Element(fs[i], pos[i + 1])]
  BY ElementsRead
<1> DEFINE elements == [i \in 1 .. m |-> Element(fs[i], pos[i + 1])]
<1>3. DOMAIN elements = 1 .. m /\ Len(elements) = m
  OBVIOUS
<1>4. m <= Len(fs)
  BY <1>1 DEF Readables
<1>5. \A i \in 1 .. m : Field(elements[i]) = fs[i]
  <2> TAKE i \in 1 .. m
  <2>1. fs[i] \in FieldSet
    BY <1>1, <1>4
  <2>2. fs[i] = [type |-> fs[i].type, key |-> fs[i].key, value |-> fs[i].value]
    BY <2>1 DEF FieldSet
  <2>3. elements[i] = Element(fs[i], pos[i + 1])
    OBVIOUS
  <2> QED BY <2>2, <2>3 DEF Field, Element
<1> HIDE DEF elements
<1>6. Fields(d) = [i \in 1 .. m |-> fs[i]]
  BY <1>2, <1>3, <1>5 DEF Fields, elements
<1>7. Whole(fs) = [i \in 1 .. m |-> fs[i]]
  <2>1. CASE Unfinished(fs)
    <3>1. m = Len(fs) - 1 /\ Whole(fs) = SubSeq(fs, 1, Len(fs) - 1)
      BY <2>1 DEF Readables, Whole, Front
    <3> QED BY <1>1, <3>1
  <2>2. CASE ~Unfinished(fs)
    <3>1. m = Len(fs) /\ Whole(fs) = fs
      BY <2>2 DEF Readables, Whole
    <3> QED BY <1>1, <3>1
  <2> QED BY <2>1, <2>2
<1> QED BY <1>2, <1>3, <1>6, <1>7 DEF elements

-----------------------------------------------------------------------------
(* Writing *)

BsonSet == [data : Seq(Nat), capacity : Nat, static : BOOLEAN]

\* Two sequences of cells, one after the other.
Joined(s, a, b) ==
  /\ Len(s) = Len(a) + Len(b)
  /\ \A i \in 1 .. Len(a) : s[i] = a[i]
  /\ \A i \in 1 .. Len(b) : s[Len(a) + i] = b[i]

LEMMA TwoParts ==
  ASSUME NEW a \in Seq(Nat), NEW b \in Seq(Nat)
  PROVE  a \o b \in Seq(Nat) /\ Joined(a \o b, a, b)
<1>1. a \o b \in Seq(Nat)
  OBVIOUS
<1>2. PICK s \in Seq(Nat) : s = a \o b
  BY <1>1
<1>3. Len(s) = Len(a) + Len(b) /\ \A i \in 1 .. Len(a) + Len(b) : s[i] = IF i <= Len(a) THEN a[i] ELSE b[i - Len(a)]
  BY <1>2
<1>4. Len(a) \in Nat /\ Len(b) \in Nat
  OBVIOUS
<1>5. \A i \in 1 .. Len(a) : s[i] = a[i]
  BY <1>3, <1>4
<1>6. ASSUME NEW i \in 1 .. Len(b) PROVE s[Len(a) + i] = b[i]
  <2>1. PICK n \in Nat, j \in Nat : n = Len(a) /\ j = n + i
    BY <1>4
  <2>2. j \in 1 .. Len(a) + Len(b) /\ ~(j <= n) /\ j - n = i
    BY <1>4, <2>1
  <2>3. s[j] = IF j <= Len(a) THEN a[j] ELSE b[j - Len(a)]
    BY <1>3, <2>2
  <2> QED BY <2>1, <2>2, <2>3
<1>7. Joined(s, a, b)
  BY <1>3, <1>5, <1>6 DEF Joined
<1> QED BY <1>2, <1>7

\* More of a document: longer by the tail, which takes the place of its terminator.
Longer(longer, d, tail) ==
  /\ longer \in Seq(Nat) /\ Len(longer) = Len(d) + Len(tail)
  /\ longer[1] = Len(longer) /\ longer[Len(longer)] = 0
  /\ \A i \in 2 .. Len(d) - 1 : longer[i] = d[i]
  /\ \A k \in 1 .. Len(tail) : longer[Len(d) - 1 + k] = tail[k]

LEMMA DocumentGrows ==
  ASSUME NEW d \in Seq(Nat), Len(d) >= 2, NEW tail \in Seq(Nat)
  PROVE  Longer(Document(SubSeq(d, 2, Len(d) - 1) \o tail), d, tail)
<1>1. PICK body \in Seq(Nat) :
        /\ body = SubSeq(d, 2, Len(d) - 1) /\ Len(body) = Len(d) - 2
        /\ \A i \in 1 .. Len(d) - 2 : body[i] = d[i + 1]
  <2> DEFINE cut == SubSeq(d, 2, Len(d) - 1)
  <2>1. Len(d) \in Nat
    OBVIOUS
  <2>2. \A i \in 2 .. Len(d) - 1 : i \in 1 .. Len(d)
    BY <2>1
  <2>6. PICK last \in Nat : last = Len(d) - 1
    BY <2>1
  <2>7. /\ cut \in Seq(Nat) /\ Len(cut) = IF 2 <= last THEN last - 2 + 1 ELSE 0
        /\ \A i \in 1 .. last - 2 + 1 : cut[i] = d[2 + i - 1]
    <3>1. \A i \in 2 .. last : i \in 1 .. Len(d)
      BY <2>2, <2>6
    <3> QED BY <2>6, <3>1, SubSeqProperties
  <2>3. /\ cut \in Seq(Nat) /\ Len(cut) = Len(d) - 2
        /\ \A i \in 1 .. Len(d) - 2 : cut[i] = d[2 + i - 1]
    <3>1. last - 2 + 1 = Len(d) - 2 /\ (~(2 <= last) => Len(d) - 2 = 0)
      BY <2>1, <2>6
    <3> HIDE DEF cut
    <3> QED BY <2>7, <3>1
  <2> HIDE DEF cut
  <2>4. \A i \in 1 .. Len(d) - 2 : 2 + i - 1 = i + 1
    BY <2>1
  <2>5. cut \in Seq(Nat) /\ Len(cut) = Len(d) - 2 /\ \A i \in 1 .. Len(d) - 2 : cut[i] = d[i + 1]
    BY <2>3, <2>4
  <2> QED BY <2>5 DEF cut
<1>2. PICK both \in Seq(Nat) : both = body \o tail /\ Joined(both, body, tail)
  BY TwoParts, Zenon
<1>3. PICK size \in Nat : size = Len(both) + 2
  BY <1>2
<1>4. PICK front \in Seq(Nat) : front = <<size>> \o both /\ Joined(front, <<size>>, both)
  <2>1. <<size>> \in Seq(Nat)
    OBVIOUS
  <2> QED BY <2>1, TwoParts, Zenon
<1>5. PICK longer \in Seq(Nat) : longer = front \o <<0>> /\ Joined(longer, front, <<0>>)
  <2>1. <<0>> \in Seq(Nat)
    OBVIOUS
  <2> QED BY <2>1, TwoParts, Zenon
<1>6. Document(SubSeq(d, 2, Len(d) - 1) \o tail) = longer
  BY <1>1, <1>2, <1>3, <1>4, <1>5, Zenon DEF Document
<1>7. PICK n \in Nat : n = Len(d)
  OBVIOUS
<1>8. PICK m \in Nat : m = Len(tail)
  OBVIOUS
<1>9. Len(body) = n - 2 /\ Len(both) = n - 2 + m /\ size = n + m /\ Len(front) = n + m - 1
      /\ Len(longer) = n + m /\ n >= 2
  <2>1. Len(<<size>>) = 1 /\ Len(<<0>>) = 1
    OBVIOUS
  <2>2. Len(body) = n - 2 /\ n >= 2
    BY <1>1, <1>7
  <2>3. Len(both) = n - 2 + m
    BY <1>2, <1>8, <2>2 DEF Joined
  <2>4. size = n + m
    BY <1>3, <2>2, <2>3
  <2>5. Len(front) = 1 + Len(both)
    BY <1>4, <2>1 DEF Joined
  <2>6. Len(longer) = Len(front) + 1
    BY <1>5, <2>1 DEF Joined
  <2> QED BY <2>2, <2>3, <2>4, <2>5, <2>6
<1>10. \A i \in 1 .. n - 2 : both[i] = body[i]
  BY <1>2, <1>9 DEF Joined
<1>11. \A k \in 1 .. m : both[n - 2 + k] = tail[k]
  BY <1>2, <1>8, <1>9 DEF Joined
<1>12. front[1] = size
  <2>1. Len(<<size>>) = 1 /\ <<size>>[1] = size /\ 1 \in 1 .. 1
    OBVIOUS
  <2> QED BY <1>4, <2>1 DEF Joined
<1>13. \A i \in 1 .. n - 2 + m : front[1 + i] = both[i]
  <2>1. Len(<<size>>) = 1
    OBVIOUS
  <2> QED BY <1>4, <1>9, <2>1 DEF Joined
<1>14. \A i \in 1 .. n + m - 1 : longer[i] = front[i]
  BY <1>5, <1>9 DEF Joined
<1>15. longer[n + m] = 0
  <2>1. Len(<<0>>) = 1 /\ <<0>>[1] = 0 /\ 1 \in 1 .. 1
    OBVIOUS
  <2>2. longer[Len(front) + 1] = 0
    BY <1>5, <2>1 DEF Joined
  <2>3. Len(front) + 1 = n + m
    BY <1>9
  <2> QED BY <2>2, <2>3
<1>16. longer[1] = n + m
  <2>1. 1 \in 1 .. n + m - 1
    BY <1>9
  <2> QED BY <1>9, <1>12, <1>14, <2>1
<1>17. ASSUME NEW i \in 2 .. n - 1 PROVE longer[i] = d[i]
  <2>1. PICK j \in 1 .. n - 2 : i = 1 + j
    <3>1. i - 1 \in 1 .. n - 2 /\ i = 1 + (i - 1)
      OBVIOUS
    <3> QED BY <3>1
  <2>2. i \in 1 .. n + m - 1 /\ j \in 1 .. n - 2 + m
    BY <2>1
  <2>3. longer[i] = front[i] /\ front[1 + j] = both[j] /\ both[j] = body[j]
    BY <1>10, <1>13, <1>14, <2>2
  <2>4. body[j] = d[j + 1] /\ j + 1 = i
    BY <1>1, <1>7, <2>1
  <2> QED BY <2>1, <2>3, <2>4
<1>18. ASSUME NEW k \in 1 .. m PROVE longer[n - 1 + k] = tail[k]
  <2>1. PICK j \in 1 .. n - 2 + m : j = n - 2 + k
    BY <1>9
  <2>2. PICK i \in 1 .. n + m - 1 : i = 1 + j /\ i = n - 1 + k
    BY <1>9, <2>1
  <2>3. longer[i] = front[i] /\ front[1 + j] = both[j] /\ both[j] = tail[k]
    BY <1>11, <1>13, <1>14, <2>1
  <2> QED BY <2>2, <2>3
<1>19. Longer(longer, d, tail)
  BY <1>7, <1>8, <1>9, <1>15, <1>16, <1>17, <1>18 DEF Longer
<1> QED BY <1>6, <1>19

\* The cells of a field: its type, its key with a NUL, its value.
Measured(f, n, m) == n = Len(f.key) /\ m = Len(f.value)

LEMMA EncodedCells ==
  ASSUME NEW f, Header(f), NEW n \in Nat, NEW m \in Nat, Measured(f, n, m)
  PROVE  /\ Encoded(f) \in Seq(Nat) /\ Len(Encoded(f)) = n + m + 2
         /\ Encoded(f)[1] = f.type /\ Encoded(f)[n + 2] = 0
         /\ \A k \in 1 .. n : Encoded(f)[1 + k] = f.key[k]
         /\ \A k \in 1 .. m : Encoded(f)[n + 2 + k] = f.value[k]
<1>1. PICK key \in Seq(Nat), value \in Seq(Nat), type \in Nat :
        key = f.key /\ value = f.value /\ type = f.type
  BY DEF Header, FieldSet
<1>2. PICK head \in Seq(Nat) : head = <<type>> \o key /\ Joined(head, <<type>>, key)
  <2>1. <<type>> \in Seq(Nat)
    OBVIOUS
  <2> QED BY <2>1, TwoParts, Zenon
<1>3. PICK named \in Seq(Nat) : named = head \o <<0>> /\ Joined(named, head, <<0>>)
  <2>1. <<0>> \in Seq(Nat)
    OBVIOUS
  <2> QED BY <2>1, TwoParts, Zenon
<1>4. PICK all \in Seq(Nat) : all = named \o value /\ Joined(all, named, value)
  BY TwoParts, Zenon
<1>5. Encoded(f) = all
  BY <1>1, <1>2, <1>3, <1>4, Zenon DEF Encoded
<1>6. Len(head) = n + 1 /\ Len(named) = n + 2 /\ Len(all) = n + m + 2 /\ Len(key) = n /\ Len(value) = m
  <2>1. Len(<<type>>) = 1 /\ Len(<<0>>) = 1 /\ Len(key) = n /\ Len(value) = m
    BY <1>1 DEF Measured
  <2>2. Len(head) = n + 1
    <3>1. Len(head) = 1 + n
      BY <1>2, <2>1 DEF Joined
    <3>2. 1 + n = n + 1
      OBVIOUS
    <3> QED BY <3>1, <3>2
  <2>3. Len(named) = n + 2
    <3>1. Len(named) = n + 1 + 1
      BY <1>3, <2>1, <2>2 DEF Joined
    <3>2. n + 1 + 1 = n + 2
      OBVIOUS
    <3> QED BY <3>1, <3>2
  <2>4. Len(all) = n + m + 2
    <3>1. Len(all) = n + 2 + m
      BY <1>4, <2>1, <2>3 DEF Joined
    <3>2. n + 2 + m = n + m + 2
      OBVIOUS
    <3> QED BY <3>1, <3>2
  <2> QED BY <2>1, <2>2, <2>3, <2>4, Zenon
<1>7. head[1] = type /\ \A k \in 1 .. n : head[1 + k] = key[k]
  <2>1. Len(<<type>>) = 1 /\ <<type>>[1] = type /\ 1 \in 1 .. 1
    OBVIOUS
  <2> QED BY <1>2, <1>6, <2>1 DEF Joined
<1>8. \A i \in 1 .. n + 1 : named[i] = head[i]
  BY <1>3, <1>6 DEF Joined
<1>9. named[n + 2] = 0
  <2>1. Len(<<0>>) = 1 /\ <<0>>[1] = 0 /\ 1 \in 1 .. 1
    OBVIOUS
  <2>2. named[n + 1 + 1] = 0
    BY <1>3, <1>6, <2>1 DEF Joined
  <2>3. n + 1 + 1 = n + 2
    OBVIOUS
  <2> QED BY <2>2, <2>3
<1>10. \A i \in 1 .. n + 2 : all[i] = named[i]
  BY <1>4, <1>6 DEF Joined
<1>11. \A k \in 1 .. m : all[n + 2 + k] = value[k]
  BY <1>4, <1>6 DEF Joined
<1>12. all[1] = type /\ all[n + 2] = 0
  <2>1. 1 \in 1 .. n + 1 /\ 1 \in 1 .. n + 2 /\ n + 2 \in 1 .. n + 2
    OBVIOUS
  <2>2. all[1] = named[1] /\ named[1] = head[1] /\ all[n + 2] = named[n + 2]
    BY <1>8, <1>10, <2>1
  <2> QED BY <1>7, <1>9, <2>2, Zenon
<1>13. ASSUME NEW k \in 1 .. n PROVE all[1 + k] = key[k]
  <2>1. 1 + k \in 1 .. n + 1 /\ 1 + k \in 1 .. n + 2
    OBVIOUS
  <2> QED BY <1>7, <1>8, <1>10, <2>1
<1> QED BY <1>1, <1>5, <1>6, <1>11, <1>12, <1>13

LEMMA EncodedType == ASSUME NEW f, Header(f) PROVE Encoded(f) \in Seq(Nat)
<1>1. f.key \in Seq(Nat) /\ f.value \in Seq(Nat)
  BY DEF Header, FieldSet
<1>2. Len(f.key) \in Nat /\ Len(f.value) \in Nat
  BY <1>1
<1>3. \E n, m \in Nat : Measured(f, n, m)
  BY <1>2, Zenon DEF Measured
<1> QED BY <1>3, EncodedCells

\* What is in place is, in the sizes, what is laid.
LEMMA CellsLaid ==
  ASSUME NEW d \in Seq(Nat), NEW f, Header(f), NEW at \in Nat \ {0}, NEW last \in Nat,
         NEW n \in Nat, NEW m \in Nat, Sizes(d, f, last, n, m), InPlace(d, at, f, last, n, m)
  PROVE  Laid(d, at, f) /\ Width(f) = n + m + 2
<1>1. Width(f) = n + m + 2
  BY WidthIs
<1>2. at + (n + m + 2) <= last
  BY DEF InPlace
<1>3. at + Width(f) <= Len(d)
  BY <1>1, <1>2 DEF Sizes
<1> QED BY <1>1, <1>3 DEF Laid, InPlace, Sizes

\* The fields that are complete in a document keep their place in a longer one.
LEMMA StaysLaid ==
  ASSUME NEW d, NEW tail \in Seq(Nat), NEW longer, Longer(longer, d, tail), NEW f, Header(f), NEW at,
         Laid(d, at, f), at # 1
  PROVE  Laid(longer, at, f)
<1>1. PICK last \in Nat, n \in Nat, m \in Nat : Sizes(d, f, last, n, m) /\ InPlace(d, at, f, last, n, m)
  BY LaidCells
<1>2. /\ at \in Nat /\ at >= 2 /\ at + n + m + 2 <= last /\ longer \in Seq(Nat)
      /\ d[at] = f.type /\ d[at + n + 1] = 0
      /\ \A k \in 1 .. n : d[at + k] = f.key[k]
      /\ \A k \in 1 .. m : d[at + n + 1 + k] = f.value[k]
  <2>1. at \in Nat /\ at >= 2 /\ longer \in Seq(Nat)
    BY DEF Laid, Longer
  <2>2. /\ at + n + m + 2 <= last /\ d[at] = f.type /\ d[at + n + 1] = 0
        /\ \A k \in 1 .. n : d[at + k] = f.key[k]
        /\ \A k \in 1 .. m : d[at + n + 1 + k] = f.value[k]
    BY <1>1, Zenon DEF InPlace
  <2> QED BY <2>1, <2>2, Zenon
<1>3. \A i \in 2 .. last - 1 : longer[i] = d[i]
  BY <1>1 DEF Longer, Sizes
<1>4. longer[at] = f.type /\ longer[at + n + 1] = 0
  <2>1. at \in 2 .. last - 1 /\ at + n + 1 \in 2 .. last - 1
    BY <1>2
  <2> QED BY <1>2, <1>3, <2>1
<1>5. \A k \in 1 .. n : longer[at + k] = f.key[k]
  <2> TAKE k \in 1 .. n
  <2>1. at + k \in 2 .. last - 1
    BY <1>2
  <2> QED BY <1>2, <1>3, <2>1
<1>6. \A k \in 1 .. m : longer[at + n + 1 + k] = f.value[k]
  <2> TAKE k \in 1 .. m
  <2>1. at + n + 1 + k \in 2 .. last - 1
    BY <1>2
  <2> QED BY <1>2, <1>3, <2>1
<1>7. PICK end \in Nat : end = Len(longer) /\ end >= last
  <2>1. Len(longer) = last + Len(tail) /\ Len(tail) \in Nat
    BY <1>1 DEF Longer, Sizes
  <2> QED BY <2>1
<1>8. Sizes(longer, f, end, n, m)
  BY <1>1, <1>7 DEF Sizes
<1>9. InPlace(longer, at, f, end, n, m)
  <2>1. at + n + m + 2 <= end
    BY <1>2, <1>7
  <2> QED BY <1>4, <1>5, <1>6, <2>1 DEF InPlace
<1> QED BY <1>2, <1>8, <1>9, CellsLaid

\* A document with one more field.
LEMMA AppendKeeps ==
  ASSUME NEW d, NEW fs, DocumentOf(d, fs), Readable(fs), NEW f, Header(f),
         NEW longer, Longer(longer, d, Encoded(f))
  PROVE  DocumentOf(longer, Append(fs, f)) /\ Len(longer) > Len(d)
<1>1. PICK n \in Nat : n = Len(fs)
  BY DEF Readable
<1>2. PICK last \in Nat : last = Len(d) /\ last >= 2 /\ d \in Seq(Nat)
  BY DEF DocumentOf, EMPTY_SIZE, EMPTY
<1>3. PICK pos \in [1 .. n + 1 -> Nat] :
        /\ pos[1] = 2 /\ pos[n + 1] = last
        /\ \A i \in 1 .. n + 1 : pos[i] \in i + 1 .. last
        /\ \A i \in 1 .. n : pos[i + 1] = pos[i] + Width(fs[i]) /\ Laid(d, pos[i], fs[i])
  BY <1>1, <1>2 DEF DocumentOf, Places
<1>4. PICK l \in Nat, m \in Nat : l = Len(f.key) /\ m = Len(f.value)
  BY DEF Header, FieldSet
<1>5. PICK tail \in Seq(Nat) :
        /\ tail = Encoded(f) /\ Len(tail) = l + m + 2 /\ tail[1] = f.type /\ tail[l + 2] = 0
        /\ \A k \in 1 .. l : tail[1 + k] = f.key[k]
        /\ \A k \in 1 .. m : tail[l + 2 + k] = f.value[k]
  BY <1>4, EncodedCells DEF Measured
<1>6. PICK end \in Nat : end = Len(longer) /\ end = last + l + m + 2
  <2>1. Len(longer) = last + (l + m + 2)
    BY <1>2, <1>5 DEF Longer
  <2> QED BY <2>1
<1>7. /\ longer \in Seq(Nat) /\ longer[1] = end /\ longer[end] = 0
      /\ \A k \in 1 .. l + m + 2 : longer[last - 1 + k] = tail[k]
  BY <1>2, <1>5, <1>6 DEF Longer
<1>8. Laid(longer, last, f) /\ Width(f) = l + m + 2
  <2>1. Sizes(longer, f, end, l, m)
    BY <1>4, <1>6 DEF Sizes
  <2>2. longer[last] = f.type
    <3>1. 1 \in 1 .. l + m + 2 /\ last - 1 + 1 = last
      OBVIOUS
    <3> QED BY <1>5, <1>7, <3>1
  <2>3. longer[last + l + 1] = 0
    <3>1. l + 2 \in 1 .. l + m + 2 /\ last - 1 + (l + 2) = last + l + 1
      OBVIOUS
    <3> QED BY <1>5, <1>7, <3>1
  <2>4. \A k \in 1 .. l : longer[last + k] = f.key[k]
    <3> TAKE k \in 1 .. l
    <3>1. 1 + k \in 1 .. l + m + 2 /\ last - 1 + (1 + k) = last + k
      OBVIOUS
    <3> QED BY <1>5, <1>7, <3>1
  <2>5. \A k \in 1 .. m : longer[last + l + 1 + k] = f.value[k]
    <3> TAKE k \in 1 .. m
    <3>1. l + 2 + k \in 1 .. l + m + 2 /\ last - 1 + (l + 2 + k) = last + l + 1 + k
      OBVIOUS
    <3> QED BY <1>5, <1>7, <3>1
  <2>6. InPlace(longer, last, f, end, l, m)
    BY <1>6, <2>2, <2>3, <2>4, <2>5 DEF InPlace
  <2>7. last \in Nat \ {0}
    BY <1>2
  <2> QED BY <1>7, <2>1, <2>6, <2>7, CellsLaid
<1>9. ASSUME NEW i \in 1 .. n PROVE Laid(longer, pos[i], fs[i])
  <2>1. Header(fs[i]) /\ pos[i] # 1 /\ Laid(d, pos[i], fs[i])
    BY <1>1, <1>3 DEF Readable, HasValue, Awaits
  <2> QED BY <1>5, <2>1, StaysLaid
<1>10. PICK gs : /\ gs = Append(fs, f) /\ Len(gs) = n + 1 /\ gs[n + 1] = f
                 /\ \A i \in 1 .. n : gs[i] = fs[i]
  <2>1. fs \in Seq(FieldSet) /\ f \in FieldSet
    BY DEF Readable, Header
  <2>2. /\ Len(Append(fs, f)) = Len(fs) + 1 /\ Append(fs, f)[Len(fs) + 1] = f
        /\ \A i \in 1 .. Len(fs) : Append(fs, f)[i] = fs[i]
    BY <2>1, AppendProperties
  <2>3. /\ Len(Append(fs, f)) = n + 1 /\ Append(fs, f)[n + 1] = f
        /\ \A i \in 1 .. n : Append(fs, f)[i] = fs[i]
    BY <1>1, <2>2
  <2> QED BY <2>3, Zenon
<1>11. PICK at \in [1 .. n + 2 -> Nat] : at[n + 2] = end /\ \A i \in 1 .. n + 1 : at[i] = pos[i]
  <2> DEFINE at == [i \in 1 .. n + 2 |-> IF i = n + 2 THEN end ELSE pos[i]]
  <2>1. at \in [1 .. n + 2 -> Nat]
    OBVIOUS
  <2>2. n + 2 \in 1 .. n + 2 /\ \A i \in 1 .. n + 1 : i \in 1 .. n + 2 /\ i # n + 2
    OBVIOUS
  <2>3. at[n + 2] = end /\ \A i \in 1 .. n + 1 : at[i] = pos[i]
    BY <2>2
  <2> QED BY <2>1, <2>3
<1>12. \A i \in 1 .. n + 2 : at[i] \in i + 1 .. end
  <2> TAKE i \in 1 .. n + 2
  <2>1. pos[n + 1] \in n + 2 .. last
    BY <1>3
  <2>2. CASE i = n + 2
    BY <1>6, <1>11, <2>1, <2>2
  <2>3. CASE i \in 1 .. n + 1
    BY <1>3, <1>6, <1>11, <2>3
  <2> QED BY <2>2, <2>3
<1>13. ASSUME NEW i \in 1 .. n + 1
       PROVE  at[i + 1] = at[i] + Width(gs[i]) /\ Laid(longer, at[i], gs[i])
  <2>1. CASE i \in 1 .. n
    <3>1. i \in 1 .. n + 1 /\ i + 1 \in 1 .. n + 1
      BY <2>1
    <3> QED BY <1>3, <1>9, <1>10, <1>11, <2>1, <3>1
  <2>2. CASE i = n + 1
    <3>1. at[n + 1] = last /\ n + 1 + 1 = n + 2
      BY <1>3, <1>11
    <3>2. end = last + (l + m + 2)
      BY <1>6
    <3> QED BY <1>8, <1>10, <1>11, <2>2, <3>1, <3>2
  <2> QED BY <2>1, <2>2
<1>14. at[1] = 2
  <2>1. 1 \in 1 .. n + 1
    OBVIOUS
  <2> QED BY <1>3, <1>11, <2>1
<1>15. Places(at, longer, gs) /\ Len(gs) + 1 = n + 2
  <2>1. Len(gs) = n + 1 /\ Len(gs) + 1 = n + 2 /\ Len(longer) = end
    BY <1>6, <1>10
  <2> QED BY <1>11, <1>12, <1>13, <1>14, <2>1, Zenon DEF Places
<1>16. Len(longer) >= EMPTY_SIZE /\ Len(longer) > Len(d)
  BY <1>2, <1>6 DEF EMPTY_SIZE, EMPTY
<1>17. DocumentOf(longer, gs)
  BY <1>6, <1>7, <1>15, <1>16 DEF DocumentOf
<1> QED BY <1>10, <1>16, <1>17

\* A document whose last field gets the value it awaited.
LEMMA AttachKeeps ==
  ASSUME NEW d, NEW fs, DocumentOf(d, fs), Readable(fs), Unfinished(fs),
         NEW child \in Seq(Nat), NEW longer, Longer(longer, d, child)
  PROVE  DocumentOf(longer, [fs EXCEPT ![Len(fs)].value = child])
<1>1. PICK n \in Nat : n = Len(fs) /\ n # 0 /\ fs \in Seq(FieldSet)
  BY UnfinishedAwaits DEF Readable
<1>2. PICK last \in Nat : last = Len(d) /\ last >= 2 /\ d \in Seq(Nat)
  BY DEF DocumentOf, EMPTY_SIZE, EMPTY
<1>3. PICK pos \in [1 .. n + 1 -> Nat] :
        /\ pos[1] = 2 /\ pos[n + 1] = last
        /\ \A i \in 1 .. n + 1 : pos[i] \in i + 1 .. last
        /\ \A i \in 1 .. n : pos[i + 1] = pos[i] + Width(fs[i]) /\ Laid(d, pos[i], fs[i])
  BY <1>1, <1>2 DEF DocumentOf, Places
<1>4. PICK f : /\ f = fs[n] /\ Awaits(f) /\ Header(f) /\ f.value = <<>>
               /\ pos[n] \in Nat /\ pos[n] >= 2 /\ Laid(d, pos[n], f) /\ pos[n] + Width(f) = last
  <2>1. Awaits(fs[n]) /\ n \in 1 .. n /\ n \in 1 .. n + 1
    BY <1>1, UnfinishedAwaits
  <2> QED BY <1>3, <2>1 DEF Awaits
<1>5. PICK l \in Nat : l = Len(f.key)
  BY <1>4 DEF Header, FieldSet
<1>6. PICK m \in Nat : m = Len(child)
  OBVIOUS
<1>7. PICK start \in Nat : start = pos[n] /\ start >= 2
  BY <1>4
<1>8. /\ start + l + 2 = last /\ d[start] = f.type /\ d[start + l + 1] = 0
      /\ \A k \in 1 .. l : d[start + k] = f.key[k]
  <2>1. PICK w \in Nat, n0 \in Nat, m0 \in Nat : Sizes(d, f, w, n0, m0) /\ InPlace(d, start, f, w, n0, m0)
    BY <1>4, <1>7, LaidCells
  <2>2. n0 = l /\ m0 = 0
    BY <1>4, <1>5, <2>1 DEF Sizes
  <2>3. Width(f) = l + 0 + 2
    BY <2>1, <2>2, WidthIs
  <2>4. start + (l + 0 + 2) = last
    BY <1>4, <1>7, <2>3
  <2>5. start + l + 2 = last
    BY <2>4
  <2> QED BY <2>1, <2>2, <2>5 DEF InPlace
<1>9. PICK end \in Nat : end = Len(longer) /\ end = last + m
  <2>1. Len(longer) = last + m
    BY <1>2, <1>6 DEF Longer
  <2> QED BY <2>1
<1>10. /\ longer \in Seq(Nat) /\ longer[1] = end /\ longer[end] = 0
       /\ \A k \in 1 .. m : longer[last - 1 + k] = child[k]
       /\ \A i \in 2 .. last - 1 : longer[i] = d[i]
  BY <1>2, <1>6, <1>9 DEF Longer
<1>11. PICK g : g = [f EXCEPT !.value = child] /\ Header(g) /\ g.type = f.type /\ g.key = f.key
                /\ g.value = child
  <2> DEFINE g == [f EXCEPT !.value = child]
  <2>1. f \in FieldSet /\ f.type \in Types /\ f.key \in Seq(Nat \ {0})
    BY <1>4 DEF Header
  <2>2. g \in FieldSet /\ g.type = f.type /\ g.key = f.key /\ g.value = child
    BY <2>1 DEF FieldSet
  <2> HIDE DEF g
  <2>3. Header(g)
    BY <2>1, <2>2, Zenon DEF Header
  <2> QED BY <2>2, <2>3 DEF g
<1>12. Laid(longer, start, g) /\ Width(g) = l + m + 2
  <2>1. Sizes(longer, g, end, l, m)
    BY <1>5, <1>6, <1>9, <1>11 DEF Sizes
  <2>2. longer[start] = g.type /\ longer[start + l + 1] = 0
    <3>1. start + l + 2 = last
      BY <1>8
    <3>2. start \in 2 .. last - 1 /\ start + l + 1 \in 2 .. last - 1
      BY <1>7, <3>1
    <3> QED BY <1>8, <1>10, <1>11, <3>2
  <2>3. \A k \in 1 .. l : longer[start + k] = g.key[k]
    <3> TAKE k \in 1 .. l
    <3>1. start + k \in 2 .. last - 1
      <4>1. start + l + 2 = last
        BY <1>8
      <4>2. k \in Nat /\ 1 <= k /\ k <= l
        OBVIOUS
      <4> QED BY <1>7, <4>1, <4>2
    <3> QED BY <1>8, <1>10, <1>11, <3>1
  <2>4. \A k \in 1 .. m : longer[start + l + 1 + k] = g.value[k]
    <3> TAKE k \in 1 .. m
    <3>1. last - 1 + k = start + l + 1 + k
      <4>1. start + l + 2 = last
        BY <1>8
      <4> QED BY <4>1
    <3> QED BY <1>10, <1>11, <3>1
  <2>5. start + l + m + 2 <= end
    BY <1>8, <1>9
  <2>6. InPlace(longer, start, g, end, l, m)
    BY <2>2, <2>3, <2>4, <2>5 DEF InPlace
  <2>7. start \in Nat \ {0}
    BY <1>7
  <2> QED BY <1>10, <1>11, <2>1, <2>6, <2>7, CellsLaid
<1>13. ASSUME NEW i \in 1 .. n - 1 PROVE Laid(longer, pos[i], fs[i])
  <2>1. i \in 1 .. n /\ i \in 1 .. n + 1
    OBVIOUS
  <2>2. i \in 1 .. Len(fs)
    BY <1>1, <2>1
  <2>3. Header(fs[i])
    BY <2>2 DEF Readable, HasValue, Awaits
  <2>4. pos[i] # 1 /\ Laid(d, pos[i], fs[i])
    BY <1>3, <2>1
  <2> QED BY <2>3, <2>4, StaysLaid
<1>14. PICK gs : /\ gs = [fs EXCEPT ![Len(fs)].value = child] /\ Len(gs) = n /\ gs[n] = g
                 /\ \A i \in 1 .. n - 1 : gs[i] = fs[i]
  <2> DEFINE hs == [fs EXCEPT ![n].value = child]
  <2>1. n \in DOMAIN fs /\ DOMAIN hs = DOMAIN fs
    BY <1>1
  <2>2. hs[n] = g /\ \A i \in 1 .. n - 1 : hs[i] = fs[i]
    BY <1>1, <1>4, <1>11, <2>1
  <2>3. Len(hs) = n
    BY <1>1, <2>1
  <2> QED BY <1>1, <2>2, <2>3
<1>15. PICK at \in [1 .. n + 1 -> Nat] : at[n + 1] = end /\ \A i \in 1 .. n : at[i] = pos[i]
  <2> DEFINE at == [i \in 1 .. n + 1 |-> IF i = n + 1 THEN end ELSE pos[i]]
  <2>1. at \in [1 .. n + 1 -> Nat]
    OBVIOUS
  <2>2. n + 1 \in 1 .. n + 1 /\ \A i \in 1 .. n : i \in 1 .. n + 1 /\ i # n + 1
    OBVIOUS
  <2>3. at[n + 1] = end /\ \A i \in 1 .. n : at[i] = pos[i]
    BY <2>2
  <2> QED BY <2>1, <2>3
<1>16. \A i \in 1 .. n + 1 : at[i] \in i + 1 .. end
  <2> TAKE i \in 1 .. n + 1
  <2>1. pos[n + 1] \in n + 2 .. last
    BY <1>3
  <2>2. CASE i = n + 1
    BY <1>3, <1>9, <1>15, <2>1, <2>2
  <2>3. CASE i \in 1 .. n
    BY <1>3, <1>9, <1>15, <2>3
  <2> QED BY <2>2, <2>3
<1>17. ASSUME NEW i \in 1 .. n
       PROVE  at[i + 1] = at[i] + Width(gs[i]) /\ Laid(longer, at[i], gs[i])
  <2>1. CASE i \in 1 .. n - 1
    <3>1. i \in 1 .. n /\ i + 1 \in 1 .. n
      BY <2>1
    <3> QED BY <1>3, <1>13, <1>14, <1>15, <2>1, <3>1
  <2>2. CASE i = n
    <3>1. end = start + (l + m + 2)
      BY <1>8, <1>9
    <3> QED BY <1>7, <1>12, <1>14, <1>15, <2>2, <3>1
  <2> QED BY <2>1, <2>2
<1>18. at[1] = 2
  <2>1. 1 \in 1 .. n
    BY <1>1
  <2> QED BY <1>3, <1>15, <2>1
<1>19. Places(at, longer, gs)
  BY <1>9, <1>14, <1>15, <1>16, <1>17, <1>18 DEF Places
<1>20. Len(longer) >= EMPTY_SIZE
  BY <1>2, <1>9 DEF EMPTY_SIZE, EMPTY
<1>21. DocumentOf(longer, gs)
  BY <1>9, <1>10, <1>14, <1>15, <1>19, <1>20 DEF DocumentOf
<1> QED BY <1>14, <1>21

-----------------------------------------------------------------------------
(* Growing a document: the fields and the buffer *)

LEMMA NothingReadable == DocumentOf(EMPTY, <<>>) /\ Readable(<<>>) /\ ~Unfinished(<<>>)
<1>1. Readable(<<>>) /\ ~Unfinished(<<>>)
  BY DEF Readable, Unfinished
<1>2. PICK d : d = EMPTY /\ d \in Seq(Nat) /\ Len(d) = 2 /\ d[1] = 2 /\ d[2] = 0
  <2>1. <<2, 0>> \in Seq(Nat) /\ Len(<<2, 0>>) = 2 /\ <<2, 0>>[1] = 2 /\ <<2, 0>>[2] = 0
    OBVIOUS
  <2> QED BY <2>1, Zenon DEF EMPTY
<1>3. PICK pos \in [1 .. 0 + 1 -> Nat] : pos = [i \in 1 .. 0 + 1 |-> 2]
  OBVIOUS
<1>4. Len(<<>>) = 0
  OBVIOUS
<1>5. pos[1] = 2 /\ \A i \in 1 .. 0 + 1 : pos[i] \in i + 1 .. 2
  BY <1>3
<1>6. Places(pos, d, <<>>)
  <2>1. 0 + 1 = 1
    OBVIOUS
  <2> QED BY <1>2, <1>4, <1>5, <2>1 DEF Places
<1>7. Len(d) >= EMPTY_SIZE
  BY <1>2 DEF EMPTY_SIZE, EMPTY
<1>8. pos \in [1 .. Len(<<>>) + 1 -> Nat]
  BY <1>4
<1>9. DocumentOf(d, <<>>)
  BY <1>2, <1>6, <1>7, <1>8 DEF DocumentOf
<1> QED BY <1>1, <1>2, <1>9

LEMMA ReadableGrows ==
  ASSUME NEW fs, Readable(fs), ~Unfinished(fs), NEW f, HasValue(f) \/ Awaits(f)
  PROVE  Readable(Append(fs, f)) /\ (Unfinished(Append(fs, f)) <=> Awaits(f))
<1>1. fs \in Seq(FieldSet) /\ f \in FieldSet /\ Header(f)
  BY DEF Readable, HasValue, Awaits, Header
<1>2. PICK n \in Nat : n = Len(fs)
  BY <1>1
<1>3. PICK gs \in Seq(FieldSet) :
        /\ gs = Append(fs, f) /\ Len(gs) = n + 1 /\ gs[n + 1] = f /\ gs # <<>>
        /\ \A i \in 1 .. n : gs[i] = fs[i]
  <2>1. /\ Append(fs, f) \in Seq(FieldSet) /\ Len(Append(fs, f)) = Len(fs) + 1
        /\ Append(fs, f)[Len(fs) + 1] = f /\ Append(fs, f) # <<>>
        /\ \A i \in 1 .. Len(fs) : Append(fs, f)[i] = fs[i]
    BY <1>1, AppendProperties
  <2>2. /\ Append(fs, f) \in Seq(FieldSet) /\ Len(Append(fs, f)) = n + 1
        /\ Append(fs, f)[n + 1] = f /\ Append(fs, f) # <<>>
        /\ \A i \in 1 .. n : Append(fs, f)[i] = fs[i]
    BY <1>2, <2>1
  <2> QED BY <2>2, Zenon
<1>4. \A i \in 1 .. n : HasValue(fs[i])
  BY <1>2, UnfinishedAwaits
<1>5. Readable(gs)
  <2>1. ASSUME NEW i \in 1 .. n + 1 PROVE HasValue(gs[i]) \/ (i = n + 1 /\ Awaits(gs[i]))
    <3>1. CASE i \in 1 .. n
      <4>1. gs[i] = fs[i] /\ HasValue(fs[i])
        BY <1>3, <1>4, <3>1, Zenon
      <4> QED BY <4>1, Zenon
    <3>2. CASE i = n + 1
      <4>1. gs[i] = f
        BY <1>3, <3>2, Zenon
      <4> QED BY <3>2, <4>1
    <3> QED BY <3>1, <3>2
  <2> QED BY <1>3, <2>1, Zenon DEF Readable
<1>6. Unfinished(gs) <=> f.type \in NestedTypes /\ f.value = <<>>
  BY <1>3 DEF Unfinished, Last
<1>7. Unfinished(gs) <=> Awaits(f)
  BY <1>1, <1>6 DEF Awaits
<1> QED BY <1>3, <1>5, <1>7

\* A document is a value of the nested types.
LEMMA DocumentIsValue ==
  ASSUME NEW d, NEW fs, DocumentOf(d, fs), NEW type \in NestedTypes
  PROVE  IsValue(type, d) /\ d # <<>>
<1>1. PICK n \in Nat : n = Len(d) /\ n >= EMPTY_SIZE /\ d \in Seq(Nat) /\ d[1] = n
  BY DEF DocumentOf
<1>2. n >= 2
  BY <1>1 DEF EMPTY_SIZE, EMPTY
<1>3. d # <<>>
  BY <1>1, <1>2
<1>4. value_size(type, d, 1, n + 1) = n
  <2>1. value_size(type, d, 1, n + 1) =
          IF 1 < n + 1 /\ d[1] >= EMPTY_SIZE THEN Fitting(1, d[1], n + 1) ELSE 0
    BY NestedSize
  <2>2. 1 < n + 1
    BY <1>2
  <2>3. Fitting(1, n, n + 1) = n
    BY DEF Fitting
  <2> QED BY <1>1, <2>1, <2>2, <2>3
<1> QED BY <1>1, <1>3, <1>4 DEF IsValue

LEMMA ReadableAttached ==
  ASSUME NEW fs, Readable(fs), Unfinished(fs), NEW child, NEW cs, DocumentOf(child, cs)
  PROVE  LET gs == [fs EXCEPT ![Len(fs)].value = child]
         IN  Readable(gs) /\ ~Unfinished(gs) /\ Len(gs) = Len(fs)
<1>1. PICK n \in Nat : n = Len(fs) /\ n # 0 /\ fs \in Seq(FieldSet)
  BY UnfinishedAwaits DEF Readable
<1>2. PICK f : f = fs[n] /\ Awaits(f) /\ Header(f)
  BY <1>1, UnfinishedAwaits DEF Awaits
<1>3. child \in Seq(Nat)
  BY DEF DocumentOf
<1>4. PICK g : g = [f EXCEPT !.value = child] /\ HasValue(g) /\ g.value # <<>> /\ g \in FieldSet
  <2> DEFINE g == [f EXCEPT !.value = child]
  <2>1. f \in FieldSet /\ f.type \in Types /\ f.key \in Seq(Nat \ {0}) /\ f.type \in NestedTypes
    BY <1>2 DEF Header, Awaits
  <2>2. g \in FieldSet /\ g.type = f.type /\ g.key = f.key /\ g.value = child
    BY <1>3, <2>1 DEF FieldSet
  <2> HIDE DEF g
  <2>3. IsValue(g.type, g.value) /\ g.value # <<>>
    BY <2>1, <2>2, DocumentIsValue
  <2>4. HasValue(g)
    BY <2>1, <2>2, <2>3, Zenon DEF Header, HasValue
  <2> QED BY <2>2, <2>3, <2>4 DEF g
<1>5. PICK gs \in Seq(FieldSet) :
        /\ gs = [fs EXCEPT ![Len(fs)].value = child] /\ Len(gs) = n /\ gs[n] = g
        /\ \A i \in 1 .. n - 1 : gs[i] = fs[i]
  <2> DEFINE hs == [fs EXCEPT ![n].value = child]
  <2>1. n \in DOMAIN fs /\ DOMAIN hs = DOMAIN fs
    BY <1>1
  <2>2. hs[n] = g /\ \A i \in 1 .. n - 1 : hs[i] = fs[i]
    BY <1>1, <1>2, <1>4, <2>1
  <2>3. hs = [fs EXCEPT ![n] = g]
    BY <1>2, <1>4
  <2>4. hs \in Seq(FieldSet) /\ Len(hs) = n
    <3>1. [fs EXCEPT ![n] = g] \in Seq(FieldSet) /\ Len([fs EXCEPT ![n] = g]) = n
      BY <1>1, <1>4, <2>1
    <3> QED BY <2>3, <3>1
  <2> QED BY <1>1, <2>2, <2>4
<1>6. \A i \in 1 .. n - 1 : HasValue(fs[i])
  BY <1>1, UnfinishedAwaits
<1>7. Readable(gs)
  <2>1. ASSUME NEW i \in 1 .. n PROVE HasValue(gs[i])
    <3>1. i \in 1 .. n - 1 \/ i = n
      OBVIOUS
    <3> QED BY <1>4, <1>5, <1>6, <3>1
  <2>2. \A i \in 1 .. Len(gs) : HasValue(gs[i])
    BY <1>5, <2>1
  <2> QED BY <2>2, Zenon DEF Readable
<1>8. ~Unfinished(gs)
  BY <1>4, <1>5 DEF Unfinished, Last
<1> QED BY <1>1, <1>5, <1>7, <1>8

\* The loop of linklet_bson_reserve_to ends with enough.
LEMMA DoubledSuffices ==
  ASSUME NEW capacity \in Nat \ {0}, NEW required \in Nat
  PROVE  Doubled(capacity, required) \in Nat /\ Doubled(capacity, required) >= required
<1> DEFINE Grow(reached) == IF reached < required THEN 2 * reached ELSE reached
           Equation(f) == f = [turn \in 0 .. required |-> IF turn = 0 THEN capacity ELSE Grow(f[turn - 1])]
           grown == CHOOSE f : Equation(f)
           T == Nat \ {0}
           step == [i \in 1 .. required |-> [reached \in T |-> Grow(reached)]]
<1>1. \A reached \in T : Grow(reached) \in T
  OBVIOUS
<1>2. PICK g \in [0 .. required -> T] : Recurs(g, required, capacity, step)
  <2>1. step \in [1 .. required -> [T -> T]]
    BY <1>1
  <2>2. capacity \in T
    OBVIOUS
  <2> HIDE DEF step, T
  <2> QED BY <2>1, <2>2, Recursion
<1>3. g[0] = capacity /\ \A i \in 1 .. required : g[i] = Grow(g[i - 1])
  <2>1. ASSUME NEW i \in 1 .. required PROVE g[i] = Grow(g[i - 1])
    <3>1. g[i - 1] \in T
      OBVIOUS
    <3>2. g[i] = step[i][g[i - 1]]
      BY <1>2 DEF Recurs
    <3> QED BY <3>1, <3>2
  <2> QED BY <1>2, <2>1 DEF Recurs
<1>4. Equation(g)
  <2> HIDE DEF Grow
  <2>1. \A i \in 0 .. required : g[i] = IF i = 0 THEN capacity ELSE Grow(g[i - 1])
    BY <1>3
  <2> QED BY <2>1
<1>5. Equation(grown)
  <2> HIDE DEF Equation
  <2> QED BY <1>4
<1>6. grown[0] = capacity /\ \A i \in 1 .. required : grown[i] = Grow(grown[i - 1])
  <2> HIDE DEF grown, Grow
  <2> QED BY <1>5
<1>7. Doubled(capacity, required) = grown[required]
  BY Zenon DEF Doubled
<1> HIDE DEF grown
<1> DEFINE H == {i \in 0 .. required : grown[i] \in Nat \ {0} /\ (grown[i] >= required \/ grown[i] > i)}
<1>8. 0 \in H
  BY <1>6
<1>9. \A i \in 0 .. required - 1 : i \in H => i + 1 \in H
  <2> SUFFICES ASSUME NEW i \in 0 .. required - 1, i \in H PROVE i + 1 \in H
    OBVIOUS
  <2>1. PICK c \in Nat \ {0} : c = grown[i] /\ (c >= required \/ c > i)
    OBVIOUS
  <2>2. PICK j \in 1 .. required : j = i + 1 /\ j - 1 = i
    OBVIOUS
  <2>3. grown[j] = Grow(c)
    BY <1>6, <2>1, <2>2
  <2>4. Grow(c) \in Nat \ {0} /\ (Grow(c) >= required \/ Grow(c) > j)
    BY <2>1, <2>2
  <2>5. j \in 0 .. required
    OBVIOUS
  <2> HIDE DEF Grow
  <2> QED BY <2>2, <2>3, <2>4, <2>5
<1>10. required \in H
  <2>1. H \in SUBSET Nat
    OBVIOUS
  <2> HIDE DEF H
  <2>2. 0 .. required \subseteq H
    BY <1>8, <1>9, <2>1, UpTo
  <2> QED BY <2>2
<1> QED BY <1>7, <1>10

LEMMA ReservedSuffices ==
  ASSUME NEW bson \in BsonSet, NEW required \in Nat
  PROVE  Reserved(bson, required) \in Nat /\ Reserved(bson, required) >= required
<1>1. PICK capacity \in Nat : capacity = bson.capacity
  BY DEF BsonSet
<1>2. PICK from \in Nat \ {0} : from = IF capacity = 0 THEN INITIAL_CAPACITY ELSE capacity
  BY SizesAssumption
<1>3. Reserved(bson, required) = IF required <= capacity THEN capacity ELSE Doubled(from, required)
  BY <1>1, <1>2 DEF Reserved
<1>4. Doubled(from, required) \in Nat /\ Doubled(from, required) >= required
  BY DoubledSuffices
<1> QED BY <1>3, <1>4

\* A document under construction: its bytes are its fields, its buffer holds them.
Built(bson, fs) ==
  /\ bson \in BsonSet /\ Readable(fs)
  /\ DocumentOf(get_data(bson), fs)
  /\ bson.data # <<>> => bson.static \/ Len(bson.data) <= bson.capacity

LEMMA NothingBuilt == Built(NewBson, <<>>)
<1>1. NewBson.data = <<>> /\ NewBson \in BsonSet
  BY DEF NewBson, BsonSet
<1>2. get_data(NewBson) = EMPTY
  BY <1>1 DEF get_data
<1> QED BY <1>1, <1>2, NothingReadable DEF Built

\* The data of a document, once there are any.
LEMMA BuiltData ==
  ASSUME NEW bson, NEW fs, Built(bson, fs)
  PROVE  /\ get_data(bson) \in Seq(Nat) /\ Len(get_data(bson)) \in Nat /\ Len(get_data(bson)) >= 2
         /\ fs # <<>> => bson.data # <<>> /\ get_data(bson) = bson.data
<1>1. PICK d : d = get_data(bson) /\ DocumentOf(d, fs)
  BY DEF Built
<1>2. d \in Seq(Nat) /\ Len(d) \in Nat /\ Len(d) >= 2
  BY <1>1 DEF DocumentOf, EMPTY_SIZE, EMPTY
<1>3. ASSUME fs # <<>> PROVE bson.data # <<>>
  <2>1. PICK n \in Nat : n = Len(fs) /\ n # 0
    BY <1>3, EmptySeq DEF Built, Readable
  <2>2. PICK pos \in [1 .. n + 1 -> Nat] : pos[n + 1] \in n + 2 .. Len(d)
    <3>1. PICK pos \in [1 .. n + 1 -> Nat] : Places(pos, d, fs)
      BY <1>1, <2>1 DEF DocumentOf
    <3>2. n + 1 \in 1 .. n + 1 /\ n + 1 + 1 = n + 2
      OBVIOUS
    <3>3. pos[n + 1] \in n + 1 + 1 .. Len(d)
      BY <2>1, <3>1, <3>2 DEF Places
    <3> QED BY <3>2, <3>3
  <2>3. Len(d) > 2
    BY <1>2, <2>1, <2>2
  <2>4. Len(EMPTY) = 2
    BY DEF EMPTY
  <2>5. bson.data = <<>> => d = EMPTY
    BY <1>1, Zenon DEF get_data
  <2>6. d # EMPTY
    <3>1. ASSUME d = EMPTY PROVE FALSE
      <4>1. Len(d) = 2
        BY <2>4, <3>1, Zenon
      <4>2. ~(2 > 2)
        OBVIOUS
      <4> QED BY <2>3, <4>1, <4>2, Zenon
    <3> QED BY <3>1
  <2> QED BY <2>5, <2>6
<1> QED BY <1>1, <1>2, <1>3 DEF get_data

\* Longer data in a buffer that was reserved for them.
LEMMA BuiltLonger ==
  ASSUME NEW bson \in BsonSet, NEW tail, NEW data, Longer(data, get_data(bson), tail),
         NEW gs, Readable(gs), DocumentOf(data, gs), NEW longer,
         longer = [bson EXCEPT !.data = data, !.capacity = Reserved(bson, Len(data))]
  PROVE  Built(longer, gs) /\ get_data(longer) = data
<1>1. data \in Seq(Nat) /\ Len(data) \in Nat /\ data # <<>>
  <2>1. data \in Seq(Nat) /\ Len(data) >= 2
    BY DEF DocumentOf, EMPTY_SIZE, EMPTY
  <2> QED BY <2>1
<1>2. PICK capacity \in Nat : capacity = Reserved(bson, Len(data)) /\ capacity >= Len(data)
  BY <1>1, ReservedSuffices
<1>3. longer \in BsonSet /\ longer.data = data /\ longer.capacity = capacity
  BY <1>1, <1>2 DEF BsonSet
<1>4. get_data(longer) = data
  BY <1>1, <1>3 DEF get_data
<1>5. Len(longer.data) <= longer.capacity
  BY <1>1, <1>2, <1>3
<1> QED BY <1>3, <1>4, <1>5 DEF Built

\* linklet_bson_append_value_begin with its caller.
LEMMA BuiltAppend ==
  ASSUME NEW bson, NEW fs, Built(bson, fs), ~Unfinished(fs), NEW f, HasValue(f) \/ Awaits(f)
  PROVE  /\ Built(AppendField(bson, f), Append(fs, f))
         /\ get_data(AppendField(bson, f)) = Appended(bson, f)
<1>1. bson \in BsonSet /\ Readable(fs) /\ DocumentOf(get_data(bson), fs) /\ Header(f)
  BY DEF Built, HasValue, Awaits
<1>2. Encoded(f) \in Seq(Nat)
  BY <1>1, EncodedType
<1>3. Longer(Appended(bson, f), get_data(bson), Encoded(f))
  <2>1. get_data(bson) \in Seq(Nat) /\ Len(get_data(bson)) >= 2
    BY BuiltData
  <2>2. Appended(bson, f) =
          Document(SubSeq(get_data(bson), 2, Len(get_data(bson)) - 1) \o Encoded(f))
    BY Zenon DEF Appended, Body
  <2>3. Longer(Document(SubSeq(get_data(bson), 2, Len(get_data(bson)) - 1) \o Encoded(f)),
               get_data(bson), Encoded(f))
    BY <1>2, <2>1, DocumentGrows, Zenon
  <2> QED BY <2>2, <2>3, Zenon
<1>4. DocumentOf(Appended(bson, f), Append(fs, f))
  BY <1>1, <1>3, AppendKeeps
<1>5. Readable(Append(fs, f))
  BY <1>1, ReadableGrows
<1>6. AppendField(bson, f) =
        [bson EXCEPT !.data = Appended(bson, f), !.capacity = Reserved(bson, Len(Appended(bson, f)))]
  BY DEF AppendField
<1> QED BY <1>1, <1>3, <1>4, <1>5, <1>6, BuiltLonger

\* linklet_bson_append_nested_end when the child fits.
LEMMA BuiltAttach ==
  ASSUME NEW bson, NEW fs, Built(bson, fs), Unfinished(fs), NEW child, NEW cs, Built(child, cs)
  PROVE  /\ Built(Attached(bson, child), [fs EXCEPT ![Len(fs)].value = get_data(child)])
         /\ Len(get_data(Attached(bson, child))) = Len(bson.data) + Len(get_data(child))
<1>1. bson \in BsonSet /\ Readable(fs) /\ DocumentOf(get_data(bson), fs)
  BY DEF Built
<1>2. bson.data # <<>> /\ get_data(bson) = bson.data
  BY BuiltData DEF Unfinished
<1>3. PICK tail \in Seq(Nat) : tail = get_data(child)
  BY BuiltData
<1>4. PICK data : data = Document(Body(bson) \o tail)
  OBVIOUS
<1>5. Longer(data, get_data(bson), tail)
  <2>1. get_data(bson) \in Seq(Nat) /\ Len(get_data(bson)) >= 2
    BY BuiltData
  <2>2. data = Document(SubSeq(get_data(bson), 2, Len(get_data(bson)) - 1) \o tail)
    BY <1>4, Zenon DEF Body
  <2>3. Longer(Document(SubSeq(get_data(bson), 2, Len(get_data(bson)) - 1) \o tail),
               get_data(bson), tail)
    BY <2>1, DocumentGrows, Zenon
  <2> QED BY <2>2, <2>3, Zenon
<1>6. PICK gs : gs = [fs EXCEPT ![Len(fs)].value = tail]
  OBVIOUS
<1>7. DocumentOf(data, gs)
  BY <1>1, <1>5, <1>6, AttachKeeps
<1>8. Readable(gs)
  <2>1. DocumentOf(tail, cs)
    BY <1>3 DEF Built
  <2> QED BY <1>1, <1>6, <2>1, ReadableAttached
<1>9. Attached(bson, child) = [bson EXCEPT !.data = data, !.capacity = Reserved(bson, Len(data))]
  BY <1>3, <1>4, Zenon DEF Attached
<1>10. Built(Attached(bson, child), gs) /\ get_data(Attached(bson, child)) = data
  BY <1>1, <1>5, <1>7, <1>8, <1>9, BuiltLonger
<1>11. Len(data) = Len(bson.data) + Len(tail)
  BY <1>2, <1>5 DEF Longer
<1> QED BY <1>3, <1>6, <1>10, <1>11

-----------------------------------------------------------------------------
(* Finding and merging *)

\* linklet_bson_find returns the first field with the key.
LEMMA FoundIs ==
  ASSUME NEW fs \in Seq(FieldSet), NEW key
  PROVE  \/ find(fs, key) = <<>> /\ \A i \in 1 .. Len(fs) : fs[i].key # key
         \/ \E p \in 1 .. Len(fs) :
              /\ find(fs, key) = <<fs[p]>> /\ fs[p].key = key
              /\ \A i \in 1 .. p - 1 : fs[i].key # key
<1> DEFINE having == {i \in 1 .. Len(fs) : fs[i].key = key}
<1>1. find(fs, key) = IF having = {} THEN <<>> ELSE <<fs[Min(having)]>>
  <2>1. CASE having = {}
    BY <2>1 DEF find, SelectInSeq
  <2>2. CASE having # {}
    <3>1. having \in SUBSET Nat
      OBVIOUS
    <3> HIDE DEF having
    <3>2. Min(having) \in having
      BY <2>2, <3>1, MinIsLeast
    <3>3. Min(having) # 0
      BY <3>2 DEF having
    <3> QED BY <2>2, <3>3 DEF find, SelectInSeq, having
  <2> QED BY <2>1, <2>2
<1>2. CASE having = {}
  BY <1>1, <1>2
<1>3. CASE having # {}
  <2>1. having \in SUBSET Nat
    OBVIOUS
  <2> HIDE DEF having
  <2>2. PICK p \in having : p = Min(having) /\ \A i \in having : p <= i
    BY <1>3, <2>1, MinIsLeast
  <2>3. find(fs, key) = <<fs[p]>>
    BY <1>1, <1>3, <2>2
  <2>4. p \in 1 .. Len(fs) /\ fs[p].key = key
    BY <2>2 DEF having
  <2>5. ASSUME NEW i \in 1 .. p - 1 PROVE fs[i].key # key
    <3>1. i \in 1 .. Len(fs) /\ ~(p <= i)
      BY <2>4
    <3> QED BY <2>2, <3>1 DEF having
  <2> QED BY <2>3, <2>4, <2>5
<1> QED BY <1>2, <1>3

\* Nothing is found only where there is nothing.
LEMMA FoundNone ==
  ASSUME NEW fs \in Seq(FieldSet), NEW key, find(fs, key) = <<>>, NEW n, n = Len(fs)
  PROVE  \A i \in 1 .. n : fs[i].key # key
<1>1. \A x : <<x>> # <<>>
  OBVIOUS
<1>2. \A p : find(fs, key) # <<fs[p]>>
  BY <1>1, Zenon
<1>3. \A i \in 1 .. Len(fs) : fs[i].key # key
  BY <1>2, FoundIs
<1> QED BY <1>3, Zenon

\* So a field that is the first with its key is found.
LEMMA FindsFirst ==
  ASSUME NEW fs \in Seq(FieldSet), NEW key, NEW p \in 1 .. Len(fs), fs[p].key = key,
         \A i \in 1 .. p - 1 : fs[i].key # key
  PROVE  find(fs, key) = <<fs[p]>>
<1>1. PICK q \in 1 .. Len(fs) :
        /\ find(fs, key) = <<fs[q]>> /\ fs[q].key = key
        /\ \A i \in 1 .. q - 1 : fs[i].key # key
  BY FoundIs
<1>2. p \in Nat /\ q \in Nat /\ p >= 1 /\ q >= 1
  OBVIOUS
<1>3. ~(p < q) /\ ~(q < p)
  BY <1>1, <1>2
<1>4. p = q
  BY <1>2, <1>3
<1> QED BY <1>1, <1>4

LEMMA FindsNone ==
  ASSUME NEW fs \in Seq(FieldSet), NEW key, \A i \in 1 .. Len(fs) : fs[i].key # key
  PROVE  find(fs, key) = <<>>
  BY FoundIs

\* A search goes on where it has found nothing.
LEMMA FindInBoth ==
  ASSUME NEW fs \in Seq(FieldSet), NEW gs \in Seq(FieldSet), NEW key
  PROVE  find(fs \o gs, key) = IF find(fs, key) # <<>> THEN find(fs, key) ELSE find(gs, key)
<1>1. PICK n \in Nat, m \in Nat : n = Len(fs) /\ m = Len(gs)
  OBVIOUS
<1>2. PICK hs \in Seq(FieldSet) :
        /\ hs = fs \o gs /\ Len(hs) = n + m
        /\ \A i \in 1 .. n : hs[i] = fs[i]
        /\ \A i \in 1 .. m : hs[n + i] = gs[i]
  <2>1. /\ fs \o gs \in Seq(FieldSet) /\ Len(fs \o gs) = Len(fs) + Len(gs)
        /\ \A i \in 1 .. Len(fs) + Len(gs) : (fs \o gs)[i] = IF i <= Len(fs) THEN fs[i] ELSE gs[i - Len(fs)]
    BY ConcatProperties
  <2>2. PICK hs \in Seq(FieldSet) :
          /\ hs = fs \o gs /\ Len(hs) = n + m
          /\ \A i \in 1 .. n + m : hs[i] = IF i <= n THEN fs[i] ELSE gs[i - n]
    BY <1>1, <2>1
  <2>3. \A i \in 1 .. n : hs[i] = fs[i]
    BY <2>2
  <2>4. ASSUME NEW i \in 1 .. m PROVE hs[n + i] = gs[i]
    <3>1. n + i \in 1 .. n + m /\ ~(n + i <= n) /\ n + i - n = i
      OBVIOUS
    <3> QED BY <2>2, <3>1
  <2> QED BY <2>2, <2>3, <2>4
<1>3. CASE find(fs, key) # <<>>
  <2>1. PICK p \in 1 .. n : /\ find(fs, key) = <<fs[p]>> /\ fs[p].key = key
                            /\ \A i \in 1 .. p - 1 : fs[i].key # key
    BY <1>1, <1>3, FoundIs
  <2>2. p \in 1 .. Len(hs) /\ hs[p] = fs[p] /\ \A i \in 1 .. p - 1 : hs[i].key # key
    BY <1>2, <2>1
  <2>3. find(hs, key) = <<hs[p]>>
    BY <2>1, <2>2, FindsFirst
  <2> QED BY <1>2, <1>3, <2>1, <2>2, <2>3
<1>4. CASE find(fs, key) = <<>>
  <2>1. \A i \in 1 .. n : fs[i].key # key
    BY <1>1, <1>4, FoundNone
  <2>2. CASE find(gs, key) = <<>>
    <3>1. \A i \in 1 .. m : gs[i].key # key
      BY <1>1, <2>2, FoundNone
    <3>2. ASSUME NEW i \in 1 .. n + m PROVE hs[i].key # key
      <4>1. CASE i <= n
        BY <1>2, <2>1, <4>1
      <4>2. CASE i > n
        <5>1. PICK j \in 1 .. m : i = n + j
          <6>1. i - n \in 1 .. m /\ i = n + (i - n)
            BY <4>2
          <6> QED BY <6>1
        <5> QED BY <1>2, <3>1, <5>1
      <4> QED BY <4>1, <4>2
    <3>3. find(hs, key) = <<>>
      BY <1>2, <3>2, FindsNone
    <3> QED BY <1>2, <1>4, <2>2, <3>3
  <2>3. CASE find(gs, key) # <<>>
    <3>1. PICK p \in 1 .. m : /\ find(gs, key) = <<gs[p]>> /\ gs[p].key = key
                              /\ \A i \in 1 .. p - 1 : gs[i].key # key
      BY <1>1, <2>3, FoundIs
    <3>2. PICK q \in 1 .. n + m : q = n + p
      OBVIOUS
    <3>3. hs[q] = gs[p] /\ q \in 1 .. Len(hs)
      BY <1>2, <3>2
    <3>4. ASSUME NEW i \in 1 .. q - 1 PROVE hs[i].key # key
      <4>1. CASE i <= n
        BY <1>2, <2>1, <4>1
      <4>2. CASE i > n
        <5>1. PICK j \in 1 .. p - 1 : i = n + j
          <6>1. i - n \in 1 .. p - 1 /\ i = n + (i - n)
            BY <3>2, <4>2
          <6> QED BY <6>1
        <5>2. j \in 1 .. m
          OBVIOUS
        <5> QED BY <1>2, <3>1, <5>1, <5>2
      <4> QED BY <4>1, <4>2
    <3>5. find(hs, key) = <<hs[q]>>
      BY <3>1, <3>3, <3>4, FindsFirst
    <3> QED BY <1>2, <1>4, <3>1, <3>3, <3>5
  <2> QED BY <2>2, <2>3
<1> QED BY <1>3, <1>4

\* What linklet_bson_merge does with a field of the original.
Kept(patch, kept, f) == IF find(patch, f.key) = <<>> THEN Append(kept, f) ELSE kept

LEMMA MergedFieldsSteps ==
  ASSUME NEW S, NEW fs \in Seq(S), NEW patch \in Seq(S)
  PROVE  \E h \in [0 .. Len(fs) -> Seq(S)] :
           /\ h[0] = <<>>
           /\ \A i \in 1 .. Len(fs) : h[i] = Kept(patch, h[i - 1], fs[i])
           /\ MergedFields(fs, patch) = h[Len(fs)] \o patch
<1> DEFINE n == Len(fs)
           step == [j \in 1 .. n |-> [x \in Seq(S) |-> Kept(patch, x, fs[j])]]
           Equation(f) == f = [s \in SUBSET (1 .. n) |->
                                 IF s = {} THEN <<>>
                                 ELSE Kept(patch, f[s \ {Max(s)}], fs[Max(s)])]
           iter == CHOOSE f : Equation(f)
<1>1. n \in Nat /\ DOMAIN fs = 1 .. n
  OBVIOUS
<1>2. MergedFields(fs, patch) = iter[1 .. n] \o patch
  BY <1>1 DEF MergedFields, Kept, FoldLeft, MapThenFoldSet
<1>3. \A j \in 1 .. n, x \in Seq(S) : Kept(patch, x, fs[j]) \in Seq(S)
  BY <1>1 DEF Kept
<1>4. Equation(iter)
  <2>1. step \in [1 .. n -> [Seq(S) -> Seq(S)]]
    <3> HIDE DEF n
    <3> QED BY <1>3
  <2>2. PICK f \in [SUBSET (1 .. n) -> Seq(S)] : FoldsSets(f, n, <<>>, step)
    <3>1. <<>> \in Seq(S)
      OBVIOUS
    <3> HIDE DEF n, step
    <3> QED BY <1>1, <2>1, <3>1, SetRecursion
  <2>3. ASSUME NEW s \in SUBSET (1 .. n)
        PROVE  f[s] = IF s = {} THEN <<>> ELSE Kept(patch, f[s \ {Max(s)}], fs[Max(s)])
    <3>1. s # {} => Max(s) \in 1 .. n
      BY <1>1, MaxOfPositions
    <3>2. f[s] = IF s = {} THEN <<>> ELSE step[Max(s)][f[s \ {Max(s)}]]
      BY <2>2 DEF FoldsSets
    <3>3. f[s \ {Max(s)}] \in Seq(S)
      OBVIOUS
    <3> HIDE DEF n
    <3> QED BY <3>1, <3>2, <3>3
  <2>4. Equation(f)
    <3> HIDE DEF n
    <3> QED BY <2>3
  <2> HIDE DEF Equation
  <2> QED BY <2>4
<1>5. \A s \in SUBSET (1 .. n) :
        iter[s] = IF s = {} THEN <<>> ELSE Kept(patch, iter[s \ {Max(s)}], fs[Max(s)])
  <2> HIDE DEF iter, n
  <2> QED BY <1>4
<1> HIDE DEF iter
<1> DEFINE h == [i \in 0 .. n |-> iter[1 .. i]]
<1>6. h[0] = <<>>
  <2>1. 1 .. 0 = {} /\ 0 \in 0 .. n
    OBVIOUS
  <2> HIDE DEF n
  <2> QED BY <1>5, <2>1
<1>7. ASSUME NEW i \in 1 .. n
      PROVE  h[i] = Kept(patch, h[i - 1], fs[i])
  <2>1. /\ 1 .. i \in SUBSET (1 .. n) /\ 1 .. i # {} /\ Max(1 .. i) = i
        /\ (1 .. i) \ {i} = 1 .. (i - 1)
    BY <1>1, SetRecursionSteps
  <2>2. i \in 0 .. n /\ i - 1 \in 0 .. n
    OBVIOUS
  <2> HIDE DEF n
  <2>3. iter[1 .. i] = Kept(patch, iter[1 .. (i - 1)], fs[i])
    BY <1>5, <2>1
  <2> QED BY <2>2, <2>3
<1>8. h \in [0 .. n -> Seq(S)]
  <2> DEFINE H == {i \in 0 .. n : h[i] \in Seq(S)}
  <2> HIDE DEF h
  <2>1. 0 \in H
    <3>1. <<>> \in Seq(S)
      OBVIOUS
    <3>2. 0 \in 0 .. n /\ h[0] \in Seq(S)
      BY <1>1, <1>6, <3>1
    <3> QED BY <3>2
  <2>2. \A i \in 0 .. n - 1 : i \in H => i + 1 \in H
    <3> SUFFICES ASSUME NEW i \in 0 .. n - 1, h[i] \in Seq(S) PROVE h[i + 1] \in Seq(S)
      OBVIOUS
    <3> PICK j \in 1 .. n : j = i + 1
      OBVIOUS
    <3>1. j - 1 = i
      OBVIOUS
    <3>2. h[j] = Kept(patch, h[j - 1], fs[j])
      BY <1>7
    <3> QED BY <1>3, <3>1, <3>2
  <2>3. 0 .. n \subseteq H
    <3>1. H \in SUBSET Nat
      OBVIOUS
    <3> HIDE DEF H
    <3> QED BY <1>1, <2>1, <2>2, <3>1, UpTo
  <2>4. \A i \in 0 .. n : h[i] \in Seq(S)
    BY <2>3
  <2> HIDE DEF n
  <2> QED BY <2>4 DEF h
<1>9. MergedFields(fs, patch) = h[n] \o patch
  <2>1. n \in 0 .. n
    BY <1>1
  <2> HIDE DEF n
  <2> QED BY <1>2, <2>1
<1> HIDE DEF h
<1> QED BY <1>6, <1>7, <1>8, <1>9

LEMMA AppendBson ==
  ASSUME NEW bson \in BsonSet, NEW f, Header(f)
  PROVE  AppendField(bson, f) \in BsonSet
<1>1. PICK d \in Seq(Nat) : d = get_data(bson)
  <2>1. EMPTY \in Seq(Nat)
    BY DEF EMPTY
  <2>2. bson.data \in Seq(Nat)
    BY DEF BsonSet
  <2> QED BY <2>1, <2>2, Zenon DEF get_data
<1>2. PICK body \in Seq(Nat) : body = Body(bson)
  <2>1. Len(d) \in Nat /\ \A i \in 2 .. Len(d) - 1 : d[i] \in Nat
    OBVIOUS
  <2>2. Len(d) - 1 \in Int
    BY <2>1
  <2>3. SubSeq(d, 2, Len(d) - 1) \in Seq(Nat)
    <3>1. PICK last \in Int : last = Len(d) - 1
      BY <2>2, Zenon
    <3> QED BY <2>1, <3>1, SubSeqProperties
  <2> QED BY <1>1, <2>3, Zenon DEF Body
<1>3. PICK both \in Seq(Nat) : both = body \o Encoded(f)
  BY EncodedType, TwoParts, Zenon
<1>4. PICK data \in Seq(Nat) : data = Appended(bson, f)
  <2>1. <<Len(both) + 2>> \in Seq(Nat) /\ <<0>> \in Seq(Nat)
    <3>1. PICK size \in Nat : size = Len(both) + 2
      OBVIOUS
    <3>2. <<size>> \in Seq(Nat) /\ <<0>> \in Seq(Nat)
      OBVIOUS
    <3> QED BY <3>1, <3>2, Zenon
  <2>2. PICK front \in Seq(Nat) : front = <<Len(both) + 2>> \o both
    BY <2>1, TwoParts, Zenon
  <2>3. PICK all \in Seq(Nat) : all = front \o <<0>>
    BY <2>1, TwoParts, Zenon
  <2> QED BY <1>2, <1>3, <2>2, <2>3, Zenon DEF Appended, Document
<1>5. Reserved(bson, Len(data)) \in Nat
  BY ReservedSuffices
<1>6. AppendField(bson, f) = [bson EXCEPT !.data = data, !.capacity = Reserved(bson, Len(data))]
  BY <1>4, Zenon DEF AppendField
<1> QED BY <1>5, <1>6 DEF BsonSet

\* Every field of a merge is appended to what there is.
LEMMA AppendsSteps ==
  ASSUME NEW fs \in Seq(FieldSet), \A i \in 1 .. Len(fs) : Header(fs[i])
  PROVE  \E h \in [0 .. Len(fs) -> BsonSet] :
           /\ h[0] = NewBson
           /\ \A i \in 1 .. Len(fs) : h[i] = AppendField(h[i - 1], fs[i])
           /\ FoldLeft(AppendField, NewBson, fs) = h[Len(fs)]
<1> DEFINE n == Len(fs)
           step == [j \in 1 .. n |-> [x \in BsonSet |-> AppendField(x, fs[j])]]
           Equation(f) == f = [s \in SUBSET (1 .. n) |->
                                 IF s = {} THEN NewBson
                                 ELSE AppendField(f[s \ {Max(s)}], fs[Max(s)])]
           iter == CHOOSE f : Equation(f)
<1>1. n \in Nat /\ DOMAIN fs = 1 .. n
  OBVIOUS
<1>2. FoldLeft(AppendField, NewBson, fs) = iter[1 .. n]
  BY <1>1 DEF FoldLeft, MapThenFoldSet
<1>3. \A j \in 1 .. n, x \in BsonSet : AppendField(x, fs[j]) \in BsonSet
  BY <1>1, AppendBson
<1>4. Equation(iter)
  <2>1. step \in [1 .. n -> [BsonSet -> BsonSet]]
    <3> HIDE DEF n
    <3> QED BY <1>3
  <2>2. PICK f \in [SUBSET (1 .. n) -> BsonSet] : FoldsSets(f, n, NewBson, step)
    <3>1. NewBson \in BsonSet
      BY NothingBuilt DEF Built
    <3> HIDE DEF n, step
    <3> QED BY <1>1, <2>1, <3>1, SetRecursion
  <2>3. ASSUME NEW s \in SUBSET (1 .. n)
        PROVE  f[s] = IF s = {} THEN NewBson ELSE AppendField(f[s \ {Max(s)}], fs[Max(s)])
    <3>1. s # {} => Max(s) \in 1 .. n
      BY <1>1, MaxOfPositions
    <3>2. f[s] = IF s = {} THEN NewBson ELSE step[Max(s)][f[s \ {Max(s)}]]
      BY <2>2 DEF FoldsSets
    <3>3. f[s \ {Max(s)}] \in BsonSet
      OBVIOUS
    <3> HIDE DEF n
    <3> QED BY <3>1, <3>2, <3>3
  <2>4. Equation(f)
    <3> HIDE DEF n
    <3> QED BY <2>3
  <2> HIDE DEF Equation
  <2> QED BY <2>4
<1>5. \A s \in SUBSET (1 .. n) :
        iter[s] = IF s = {} THEN NewBson ELSE AppendField(iter[s \ {Max(s)}], fs[Max(s)])
  <2> HIDE DEF iter, n
  <2> QED BY <1>4
<1> HIDE DEF iter
<1> DEFINE h == [i \in 0 .. n |-> iter[1 .. i]]
<1>6. h[0] = NewBson
  <2>1. 1 .. 0 = {} /\ 0 \in 0 .. n
    OBVIOUS
  <2> HIDE DEF n
  <2> QED BY <1>5, <2>1
<1>7. ASSUME NEW i \in 1 .. n
      PROVE  h[i] = AppendField(h[i - 1], fs[i])
  <2>1. /\ 1 .. i \in SUBSET (1 .. n) /\ 1 .. i # {} /\ Max(1 .. i) = i
        /\ (1 .. i) \ {i} = 1 .. (i - 1)
    BY <1>1, SetRecursionSteps
  <2>2. i \in 0 .. n /\ i - 1 \in 0 .. n
    OBVIOUS
  <2> HIDE DEF n
  <2>3. iter[1 .. i] = AppendField(iter[1 .. (i - 1)], fs[i])
    BY <1>5, <2>1
  <2> QED BY <2>2, <2>3
<1>8. h \in [0 .. n -> BsonSet]
  <2> DEFINE H == {i \in 0 .. n : h[i] \in BsonSet}
  <2> HIDE DEF h
  <2>1. 0 \in H
    <3>1. NewBson \in BsonSet
      BY NothingBuilt DEF Built
    <3> QED BY <1>1, <1>6, <3>1
  <2>2. \A i \in 0 .. n - 1 : i \in H => i + 1 \in H
    <3> SUFFICES ASSUME NEW i \in 0 .. n - 1, h[i] \in BsonSet PROVE h[i + 1] \in BsonSet
      OBVIOUS
    <3> PICK j \in 1 .. n : j = i + 1
      OBVIOUS
    <3>1. j - 1 = i
      OBVIOUS
    <3>2. h[j] = AppendField(h[j - 1], fs[j])
      BY <1>7
    <3> QED BY <1>3, <3>1, <3>2
  <2>3. 0 .. n \subseteq H
    <3>1. H \in SUBSET Nat
      OBVIOUS
    <3> HIDE DEF H
    <3> QED BY <1>1, <2>1, <2>2, <3>1, UpTo
  <2>4. \A i \in 0 .. n : h[i] \in BsonSet
    BY <2>3
  <2> HIDE DEF n
  <2> QED BY <2>4 DEF h
<1>9. FoldLeft(AppendField, NewBson, fs) = h[n]
  <2>1. n \in 0 .. n
    BY <1>1
  <2> HIDE DEF n
  <2> QED BY <1>2, <2>1
<1> HIDE DEF h
<1> QED BY <1>6, <1>7, <1>8, <1>9

\* In a merge what the patch has comes first, whatever the original has.
LEMMA MergeFinds ==
  ASSUME NEW fs \in Seq(FieldSet), NEW patch \in Seq(FieldSet), NEW key
  PROVE  /\ MergedFields(fs, patch) \in Seq(FieldSet)
         /\ find(MergedFields(fs, patch), key) =
              IF find(patch, key) # <<>> THEN find(patch, key) ELSE find(fs, key)
<1>1. PICK n \in Nat : n = Len(fs)
  OBVIOUS
<1>2. PICK h \in [0 .. n -> Seq(FieldSet)] :
        /\ h[0] = <<>>
        /\ \A i \in 1 .. n : h[i] = Kept(patch, h[i - 1], fs[i])
        /\ MergedFields(fs, patch) = h[n] \o patch
  BY <1>1, MergedFieldsSteps
<1> DEFINE upTo(i) == SubSeq(fs, 1, i)
<1>3. \A i \in 0 .. n : upTo(i) \in Seq(FieldSet)
  BY <1>1
<1>4. \A i \in 1 .. n : upTo(i) = Append(upTo(i - 1), fs[i]) /\ fs[i] \in FieldSet
  BY <1>1
<1>5. upTo(0) = <<>> /\ upTo(n) = fs
  BY <1>1
<1> HIDE DEF upTo
<1>6. ASSUME NEW gs \in Seq(FieldSet), NEW f \in FieldSet
      PROVE  find(Append(gs, f), key) =
               IF find(gs, key) # <<>> THEN find(gs, key) ELSE IF f.key = key THEN <<f>> ELSE <<>>
  <2>1. <<f>> \in Seq(FieldSet) /\ Append(gs, f) = gs \o <<f>>
    OBVIOUS
  <2>2. find(<<f>>, key) = IF f.key = key THEN <<f>> ELSE <<>>
    <3>1. PICK s \in Seq(FieldSet) : s = <<f>> /\ Len(s) = 1 /\ s[1] = f
      BY <2>1
    <3>2. CASE f.key = key
      <4>1. PICK p \in 1 .. Len(s) : p = 1
        BY <3>1
      <4>2. s[p].key = key /\ \A i \in 1 .. p - 1 : s[i].key # key
        BY <3>1, <3>2, <4>1
      <4>3. find(s, key) = <<s[p]>>
        BY <4>2, FindsFirst
      <4> QED BY <3>1, <3>2, <4>1, <4>3
    <3>3. CASE f.key # key
      <4>1. \A i \in 1 .. Len(s) : s[i].key # key
        BY <3>1, <3>3
      <4>2. find(s, key) = <<>>
        BY <4>1, FindsNone
      <4> QED BY <3>1, <3>3, <4>2
    <3> QED BY <3>2, <3>3
  <2>3. find(gs \o <<f>>, key) = IF find(gs, key) # <<>> THEN find(gs, key) ELSE find(<<f>>, key)
    BY <2>1, FindInBoth
  <2> QED BY <2>1, <2>2, <2>3, Zenon
<1>7. find(<<>>, key) = <<>>
  <2>1. <<>> \in Seq(FieldSet) /\ Len(<<>>) = 0
    OBVIOUS
  <2>2. \A i \in 1 .. Len(<<>>) : <<>>[i].key # key
    BY <2>1
  <2> QED BY <2>1, <2>2, FindsNone
<1> DEFINE Right(i) == find(h[i], key) = IF find(patch, key) = <<>> THEN find(upTo(i), key) ELSE <<>>
           H == {i \in 0 .. n : Right(i)}
<1>8. 0 \in H
  <2>1. Right(0)
    BY <1>2, <1>5, <1>7
  <2> QED BY <2>1
<1>9. \A i \in 0 .. n - 1 : i \in H => i + 1 \in H
  <2> SUFFICES ASSUME NEW i \in 0 .. n - 1, Right(i) PROVE Right(i + 1)
    <3> HIDE DEF Right
    <3> QED OBVIOUS
  <2>1. PICK j \in 1 .. n : j = i + 1 /\ j - 1 = i /\ i \in 0 .. n
    OBVIOUS
  <2>2. PICK f \in FieldSet : f = fs[j] /\ upTo(j) = Append(upTo(i), f)
    BY <1>4, <2>1
  <2>3. PICK gs \in Seq(FieldSet) : gs = h[i]
    BY <2>1
  <2>4. h[j] = IF find(patch, f.key) = <<>> THEN Append(gs, f) ELSE gs
    BY <1>2, <2>1, <2>2, <2>3 DEF Kept
  <2>5. find(Append(gs, f), key) =
          IF find(gs, key) # <<>> THEN find(gs, key) ELSE IF f.key = key THEN <<f>> ELSE <<>>
    BY <1>6
  <2>6. upTo(i) \in Seq(FieldSet)
    BY <1>3, <2>1
  <2>7. find(upTo(j), key) = IF find(upTo(i), key) # <<>> THEN find(upTo(i), key)
                             ELSE IF f.key = key THEN <<f>> ELSE <<>>
    BY <1>6, <2>2, <2>6
  <2>8. find(gs, key) = IF find(patch, key) = <<>> THEN find(upTo(i), key) ELSE <<>>
    BY <2>3
  <2>9. find(h[j], key) = IF find(patch, key) = <<>> THEN find(upTo(j), key) ELSE <<>>
    <3>1. CASE f.key = key
      BY <2>4, <2>5, <2>7, <2>8, <3>1, Zenon
    <3>2. CASE f.key # key
      BY <2>4, <2>5, <2>7, <2>8, <3>2, Zenon
    <3> QED BY <3>1, <3>2
  <2> QED BY <2>1, <2>9
<1>10. Right(n)
  <2>1. H \in SUBSET Nat
    OBVIOUS
  <2> HIDE DEF H
  <2>2. 0 .. n \subseteq H
    BY <1>8, <1>9, <2>1, UpTo
  <2>3. n \in H
    BY <2>2
  <2> QED BY <2>3 DEF H
<1>11. PICK kept \in Seq(FieldSet) : kept = h[n]
  OBVIOUS
<1>12. find(kept, key) = IF find(patch, key) = <<>> THEN find(fs, key) ELSE <<>>
  BY <1>5, <1>10, <1>11
<1>13. kept \o patch \in Seq(FieldSet) /\
       find(kept \o patch, key) = IF find(kept, key) # <<>> THEN find(kept, key) ELSE find(patch, key)
  BY FindInBoth
<1>14. MergedFields(fs, patch) = kept \o patch
  BY <1>2, <1>11
<1>15. find(kept \o patch, key) = IF find(patch, key) # <<>> THEN find(patch, key) ELSE find(fs, key)
  BY <1>12, <1>13, Zenon
<1> QED BY <1>13, <1>14, <1>15, Zenon

\* Fields that may be read to the end.
CompleteSet == {f \in FieldSet : HasValue(f)}

LEMMA CompleteFields ==
  ASSUME NEW fs
  PROVE  Readable(fs) /\ ~Unfinished(fs) <=> fs \in Seq(CompleteSet)
<1>1. ASSUME Readable(fs), ~Unfinished(fs) PROVE fs \in Seq(CompleteSet)
  <2>1. fs \in Seq(FieldSet)
    BY <1>1 DEF Readable
  <2>2. \A i \in 1 .. Len(fs) : fs[i] \in CompleteSet
    <3>1. \A i \in 1 .. Len(fs) : HasValue(fs[i])
      BY <1>1, UnfinishedAwaits
    <3> QED BY <2>1, <3>1 DEF CompleteSet
  <2> QED BY <2>1, <2>2
<1>2. ASSUME fs \in Seq(CompleteSet) PROVE Readable(fs) /\ ~Unfinished(fs)
  <2>1. fs \in Seq(FieldSet) /\ \A i \in 1 .. Len(fs) : HasValue(fs[i])
    <3>1. CompleteSet \subseteq FieldSet /\ \A f \in CompleteSet : HasValue(f)
      BY DEF CompleteSet
    <3>2. \A i \in 1 .. Len(fs) : fs[i] \in CompleteSet
      BY <1>2
    <3> QED BY <1>2, <3>1, <3>2
  <2>2. Readable(fs)
    BY <2>1, Zenon DEF Readable
  <2>3. ASSUME Unfinished(fs) PROVE FALSE
    <3>1. PICK n \in Nat : n = Len(fs) /\ n # 0 /\ Awaits(fs[n])
      BY <2>1, <2>2, <2>3, UnfinishedAwaits
    <3>2. HasValue(fs[n])
      BY <2>1, <3>1
    <3>3. fs[n].value = <<>> /\ fs[n].type \notin NoValueTypes
      BY <3>1, NestedDiffer DEF Awaits
    <3> QED BY <3>2, <3>3 DEF HasValue, IsValue
  <2> QED BY <2>2, <2>3
<1> QED BY <1>1, <1>2

\* A merge has fields of the two documents only.
LEMMA MergeKeeps ==
  ASSUME NEW S, NEW fs \in Seq(S), NEW patch \in Seq(S)
  PROVE  MergedFields(fs, patch) \in Seq(S)
<1>1. PICK n \in Nat : n = Len(fs)
  OBVIOUS
<1>2. PICK h \in [0 .. n -> Seq(S)] : MergedFields(fs, patch) = h[n] \o patch
  BY <1>1, MergedFieldsSteps
<1>3. h[n] \in Seq(S)
  OBVIOUS
<1> QED BY <1>2, <1>3

\* linklet_bson_merge builds the document of the merged fields.
LEMMA BuiltMerge ==
  ASSUME NEW fs \in Seq(CompleteSet)
  PROVE  Built(FoldLeft(AppendField, NewBson, fs), fs)
<1>1. PICK n \in Nat : n = Len(fs)
  OBVIOUS
<1>2. \A i \in 1 .. n : fs[i] \in FieldSet /\ HasValue(fs[i]) /\ Header(fs[i])
  <2>1. \A i \in 1 .. n : fs[i] \in CompleteSet
    BY <1>1
  <2> QED BY <2>1 DEF CompleteSet, HasValue
<1>3. PICK h \in [0 .. n -> BsonSet] :
        /\ h[0] = NewBson
        /\ \A i \in 1 .. n : h[i] = AppendField(h[i - 1], fs[i])
        /\ FoldLeft(AppendField, NewBson, fs) = h[n]
  <2>1. fs \in Seq(FieldSet)
    BY DEF CompleteSet
  <2> QED BY <1>1, <1>2, <2>1, AppendsSteps
<1> DEFINE upTo(i) == SubSeq(fs, 1, i)
<1>4. \A i \in 0 .. n : upTo(i) \in Seq(CompleteSet)
  BY <1>1
<1>5. \A i \in 1 .. n : upTo(i) = Append(upTo(i - 1), fs[i])
  BY <1>1
<1>6. upTo(0) = <<>> /\ upTo(n) = fs
  BY <1>1
<1> HIDE DEF upTo
<1> DEFINE H == {i \in 0 .. n : Built(h[i], upTo(i))}
<1>7. 0 \in H
  BY <1>3, <1>6, NothingBuilt
<1>8. \A i \in 0 .. n - 1 : i \in H => i + 1 \in H
  <2> SUFFICES ASSUME NEW i \in 0 .. n - 1, Built(h[i], upTo(i))
               PROVE  Built(h[i + 1], upTo(i + 1))
    OBVIOUS
  <2>1. PICK j \in 1 .. n : j = i + 1 /\ j - 1 = i /\ i \in 0 .. n
    OBVIOUS
  <2>2. h[j] = AppendField(h[i], fs[j]) /\ upTo(j) = Append(upTo(i), fs[j])
    BY <1>3, <1>5, <2>1
  <2>3. ~Unfinished(upTo(i)) /\ HasValue(fs[j])
    BY <1>2, <1>4, <2>1, CompleteFields
  <2>4. Built(AppendField(h[i], fs[j]), Append(upTo(i), fs[j]))
    BY <2>3, BuiltAppend
  <2> QED BY <2>1, <2>2, <2>4
<1>9. n \in H
  <2>1. H \in SUBSET Nat
    OBVIOUS
  <2> HIDE DEF H
  <2>2. 0 .. n \subseteq H
    BY <1>7, <1>8, <2>1, UpTo
  <2> QED BY <2>2
<1> QED BY <1>3, <1>6, <1>9

-----------------------------------------------------------------------------
(* The inductive invariant *)

Good(bson, fs) == Built(bson, fs) /\ Len(get_data(bson)) <= MAX_SIZE

\* The documents under construction: each waits for the next one.
OpenOf(bsons, fields) ==
  /\ bsons \in Seq(BsonSet) /\ bsons # <<>>
  /\ fields \in Seq(Seq(FieldSet)) /\ Len(fields) = Len(bsons)
  /\ \A i \in 1 .. Len(bsons) : Good(bsons[i], fields[i])
  /\ \A i \in 1 .. Len(bsons) - 1 : Unfinished(fields[i])

StoredOf(d, fs) == DocumentOf(d, fs) /\ fs \in Seq(CompleteSet) /\ Len(d) <= MAX_SIZE

BInv == OpenOf(open, aux_fields) /\ StoredOf(stored, aux_stored)

LEMMA LastReplaced ==
  ASSUME NEW S, NEW s \in Seq(S), NEW n \in Nat, n = Len(s), n # 0, NEW x \in S
  PROVE  /\ [s EXCEPT ![n] = x] \in Seq(S) /\ Len([s EXCEPT ![n] = x]) = n
         /\ [s EXCEPT ![n] = x][n] = x /\ \A i \in 1 .. n - 1 : [s EXCEPT ![n] = x][i] = s[i]
<1>1. n \in DOMAIN s /\ DOMAIN s = 1 .. n
  OBVIOUS
<1>2. [s EXCEPT ![n] = x] \in Seq(S) /\ Len([s EXCEPT ![n] = x]) = n
  BY <1>1
<1>3. [s EXCEPT ![n] = x][n] = x /\ \A i \in 1 .. n - 1 : [s EXCEPT ![n] = x][i] = s[i]
  BY <1>1
<1> QED BY <1>2, <1>3, Zenon

LEMMA OneMore ==
  ASSUME NEW S, NEW s \in Seq(S), NEW n \in Nat, n = Len(s), NEW x \in S
  PROVE  /\ Append(s, x) \in Seq(S) /\ Len(Append(s, x)) = n + 1
         /\ Append(s, x)[n + 1] = x /\ Append(s, x) # <<>>
         /\ \A i \in 1 .. n : Append(s, x)[i] = s[i]
  BY AppendProperties

LEMMA OneLess ==
  ASSUME NEW S, NEW s \in Seq(S), NEW m \in Nat, m = Len(s) - 1, m # 0
  PROVE  /\ Front(s) \in Seq(S) /\ Len(Front(s)) = m /\ Front(s) # <<>>
         /\ \A i \in 1 .. m : Front(s)[i] = s[i]
<1>1. \A i \in 1 .. m : s[i] \in S
  OBVIOUS
<1>2. Front(s) = SubSeq(s, 1, m)
  BY DEF Front
<1>3. SubSeq(s, 1, m) \in Seq(S) /\ Len(SubSeq(s, 1, m)) = m /\ \A i \in 1 .. m : SubSeq(s, 1, m)[i] = s[i]
  BY <1>1
<1>4. SubSeq(s, 1, m) # <<>>
  BY <1>3
<1> QED BY <1>2, <1>3, <1>4, Zenon

LEMMA LastInPlace ==
  ASSUME NEW S, NEW s \in Seq(S), NEW m \in Nat, m = Len(s) - 1, m # 0, NEW x \in S
  PROVE  Append(SubSeq(s, 1, m - 1), x) = [SubSeq(s, 1, m) EXCEPT ![m] = x]
<1> DEFINE t == SubSeq(s, 1, m)
           r == SubSeq(s, 1, m - 1)
           a == Append(r, x)
           b == [t EXCEPT ![m] = x]
<1>1. t \in Seq(S) /\ Len(t) = m /\ \A i \in 1 .. m : t[i] = s[i]
  <2>1. \A i \in 1 .. m : s[i] \in S
    OBVIOUS
  <2> QED BY <2>1
<1>2. r \in Seq(S) /\ Len(r) = m - 1 /\ \A i \in 1 .. m - 1 : r[i] = s[i]
  <2>1. \A i \in 1 .. m - 1 : s[i] \in S
    OBVIOUS
  <2> QED BY <2>1
<1> HIDE DEF t, r
<1>3. a \in Seq(S) /\ Len(a) = m /\ a[m] = x /\ \A i \in 1 .. m - 1 : a[i] = r[i]
  BY <1>2, AppendProperties
<1>4. b \in Seq(S) /\ Len(b) = m /\ b[m] = x /\ \A i \in 1 .. m - 1 : b[i] = t[i]
  BY <1>1
<1> HIDE DEF a, b
<1>5. \A i \in 1 .. m : a[i] = b[i]
  <2>1. \A i \in 1 .. m : (i \in 1 .. m - 1 /\ i \in 1 .. m) \/ i = m
    OBVIOUS
  <2> QED BY <1>1, <1>2, <1>3, <1>4, <2>1, Zenon
<1>6. a = b
  BY <1>3, <1>4, <1>5, SeqEqual
<1> QED BY <1>6 DEF a, b, r, t

LEMMA GoodTypes ==
  ASSUME NEW bson, NEW fs, Good(bson, fs)
  PROVE  bson \in BsonSet /\ fs \in Seq(FieldSet)
  BY DEF Good, Built, Readable

LEMMA OneOpen ==
  ASSUME NEW bson, NEW fs, Good(bson, fs)
  PROVE  OpenOf(<<bson>>, <<fs>>)
<1>1. bson \in BsonSet /\ fs \in Seq(FieldSet)
  BY GoodTypes
<1>2. PICK bs \in Seq(BsonSet) : bs = <<bson>> /\ Len(bs) = 1 /\ bs[1] = bson /\ bs # <<>>
  <2>1. <<bson>> \in Seq(BsonSet) /\ Len(<<bson>>) = 1 /\ <<bson>>[1] = bson /\ <<bson>> # <<>>
    BY <1>1
  <2> QED BY <2>1, Zenon
<1>3. PICK fields \in Seq(Seq(FieldSet)) : fields = <<fs>> /\ Len(fields) = 1 /\ fields[1] = fs
  <2>1. <<fs>> \in Seq(Seq(FieldSet)) /\ Len(<<fs>>) = 1 /\ <<fs>>[1] = fs
    BY <1>1
  <2> QED BY <2>1, Zenon
<1>4. \A i \in 1 .. Len(bs) : i = 1
  BY <1>2
<1>5. \A i \in 1 .. Len(bs) - 1 : FALSE
  BY <1>2
<1>6. OpenOf(bs, fields)
  BY <1>2, <1>3, <1>4, <1>5, Zenon DEF OpenOf
<1> QED BY <1>2, <1>3, <1>6

\* The top document changes.
LEMMA TopChanges ==
  ASSUME NEW bsons, NEW fields, OpenOf(bsons, fields), NEW bson, NEW fs, Good(bson, fs)
  PROVE  OpenOf([bsons EXCEPT ![Len(bsons)] = bson], [fields EXCEPT ![Len(bsons)] = fs])
<1>1. bson \in BsonSet /\ fs \in Seq(FieldSet)
  BY GoodTypes
<1>2. PICK n \in Nat : n = Len(bsons) /\ n # 0 /\ n = Len(fields)
  BY EmptySeq DEF OpenOf
<1>3. PICK bs \in Seq(BsonSet) :
        /\ bs = [bsons EXCEPT ![n] = bson] /\ Len(bs) = n /\ bs[n] = bson
        /\ \A i \in 1 .. n - 1 : bs[i] = bsons[i]
  <2>1. bsons \in Seq(BsonSet)
    BY DEF OpenOf
  <2>2. n = Len(bsons) /\ n # 0
    BY <1>2
  <2>3. bson \in BsonSet
    BY <1>1
  <2>4. /\ [bsons EXCEPT ![n] = bson] \in Seq(BsonSet) /\ Len([bsons EXCEPT ![n] = bson]) = n
        /\ [bsons EXCEPT ![n] = bson][n] = bson /\ \A i \in 1 .. n - 1 : [bsons EXCEPT ![n] = bson][i] = bsons[i]
    BY <2>1, <2>2, <2>3, LastReplaced
  <2> QED BY <2>4, Zenon
<1>4. PICK gs \in Seq(Seq(FieldSet)) :
        /\ gs = [fields EXCEPT ![n] = fs] /\ Len(gs) = n /\ gs[n] = fs
        /\ \A i \in 1 .. n - 1 : gs[i] = fields[i]
  <2>1. fields \in Seq(Seq(FieldSet))
    BY DEF OpenOf
  <2>2. /\ [fields EXCEPT ![n] = fs] \in Seq(Seq(FieldSet)) /\ Len([fields EXCEPT ![n] = fs]) = n
        /\ [fields EXCEPT ![n] = fs][n] = fs /\ \A i \in 1 .. n - 1 : [fields EXCEPT ![n] = fs][i] = fields[i]
    BY <1>1, <1>2, <2>1, LastReplaced
  <2> QED BY <2>2, Zenon
<1>5. \A i \in 1 .. n - 1 : Good(bsons[i], fields[i]) /\ Unfinished(fields[i])
  BY <1>2 DEF OpenOf
<1>6. \A i \in 1 .. n : Good(bs[i], gs[i])
  <2>1. \A i \in 1 .. n : i \in 1 .. n - 1 \/ i = n
    OBVIOUS
  <2> QED BY <1>3, <1>4, <1>5, <2>1, Zenon
<1>7. \A i \in 1 .. n - 1 : Unfinished(gs[i])
  BY <1>4, <1>5, Zenon
<1>8. bs # <<>>
  BY <1>2, <1>3
<1>9. OpenOf(bs, gs)
  BY <1>3, <1>4, <1>6, <1>7, <1>8, Zenon DEF OpenOf
<1> QED BY <1>2, <1>3, <1>4, <1>9, Zenon

\* A nested document is begun.
LEMMA TopOpens ==
  ASSUME NEW bsons, NEW fields, OpenOf(bsons, fields), Unfinished(fields[Len(bsons)]),
         NEW bson, NEW fs, Good(bson, fs)
  PROVE  OpenOf(Append(bsons, bson), Append(fields, fs))
<1>1. bson \in BsonSet /\ fs \in Seq(FieldSet)
  BY GoodTypes
<1>2. PICK n \in Nat : n = Len(bsons) /\ n = Len(fields)
  BY DEF OpenOf
<1>3. PICK bs \in Seq(BsonSet) :
        /\ bs = Append(bsons, bson) /\ Len(bs) = n + 1 /\ bs[n + 1] = bson /\ bs # <<>>
        /\ \A i \in 1 .. n : bs[i] = bsons[i]
  <2>1. bsons \in Seq(BsonSet)
    BY DEF OpenOf
  <2>2. n = Len(bsons)
    BY <1>2
  <2>3. bson \in BsonSet
    BY <1>1
  <2>4. /\ Append(bsons, bson) \in Seq(BsonSet) /\ Len(Append(bsons, bson)) = n + 1 /\ Append(bsons, bson)[n + 1] = bson /\ Append(bsons, bson) # <<>>
        /\ \A i \in 1 .. n : Append(bsons, bson)[i] = bsons[i]
    BY <2>1, <2>2, <2>3, OneMore
  <2> QED BY <2>4, Zenon
<1>4. PICK gs \in Seq(Seq(FieldSet)) :
        /\ gs = Append(fields, fs) /\ Len(gs) = n + 1 /\ gs[n + 1] = fs
        /\ \A i \in 1 .. n : gs[i] = fields[i]
  <2>1. fields \in Seq(Seq(FieldSet))
    BY DEF OpenOf
  <2>2. /\ Append(fields, fs) \in Seq(Seq(FieldSet)) /\ Len(Append(fields, fs)) = n + 1 /\ Append(fields, fs)[n + 1] = fs /\ Append(fields, fs) # <<>>
        /\ \A i \in 1 .. n : Append(fields, fs)[i] = fields[i]
    BY <1>1, <1>2, <2>1, OneMore
  <2> QED BY <2>2, Zenon
<1>5. \A i \in 1 .. n : Good(bsons[i], fields[i])
  BY <1>2 DEF OpenOf
<1>6. \A i \in 1 .. n : Unfinished(fields[i])
  <2>1. \A i \in 1 .. n : i \in 1 .. n - 1 \/ i = n
    OBVIOUS
  <2>2. \A i \in 1 .. n - 1 : Unfinished(fields[i])
    BY <1>2 DEF OpenOf
  <2> QED BY <1>2, <2>1, <2>2
<1>7. \A i \in 1 .. n + 1 : Good(bs[i], gs[i])
  <2>1. \A i \in 1 .. n + 1 : i \in 1 .. n \/ i = n + 1
    OBVIOUS
  <2> QED BY <1>3, <1>4, <1>5, <2>1, Zenon
<1>8. \A i \in 1 .. n : Unfinished(gs[i])
  BY <1>4, <1>6, Zenon
<1>9. n = Len(bs) - 1
  BY <1>3
<1> QED BY <1>3, <1>4, <1>7, <1>8, <1>9, Zenon DEF OpenOf

\* The child is left.
LEMMA TopCloses ==
  ASSUME NEW bsons, NEW fields, OpenOf(bsons, fields), Len(bsons) > 1
  PROVE  /\ OpenOf(Front(bsons), Front(fields))
         /\ Len(Front(bsons)) = Len(bsons) - 1
         /\ Unfinished(fields[Len(bsons) - 1])
         /\ Good(bsons[Len(bsons) - 1], fields[Len(bsons) - 1])
<1>1. PICK n \in Nat : n = Len(bsons) /\ Len(fields) = n /\ n > 1
  BY DEF OpenOf
<1>2. PICK m \in Nat : m = n - 1 /\ m # 0 /\ m = Len(bsons) - 1 /\ m = Len(fields) - 1
  BY <1>1
<1>3. PICK bs \in Seq(BsonSet) :
        /\ bs = Front(bsons) /\ Len(bs) = m /\ bs # <<>>
        /\ \A i \in 1 .. m : bs[i] = bsons[i]
  <2>1. bsons \in Seq(BsonSet)
    BY DEF OpenOf
  <2>2. /\ Front(bsons) \in Seq(BsonSet) /\ Len(Front(bsons)) = m /\ Front(bsons) # <<>>
        /\ \A i \in 1 .. m : Front(bsons)[i] = bsons[i]
    BY <1>1, <1>2, <2>1, OneLess
  <2> QED BY <2>2, Zenon
<1>4. PICK gs \in Seq(Seq(FieldSet)) :
        /\ gs = Front(fields) /\ Len(gs) = m
        /\ \A i \in 1 .. m : gs[i] = fields[i]
  <2>1. fields \in Seq(Seq(FieldSet))
    BY DEF OpenOf
  <2>2. /\ Front(fields) \in Seq(Seq(FieldSet)) /\ Len(Front(fields)) = m /\ Front(fields) # <<>>
        /\ \A i \in 1 .. m : Front(fields)[i] = fields[i]
    BY <1>1, <1>2, <2>1, OneLess
  <2> QED BY <2>2, Zenon
<1>5. \A i \in 1 .. m : Good(bsons[i], fields[i]) /\ Unfinished(fields[i])
  BY <1>1, <1>2 DEF OpenOf
<1>6. \A i \in 1 .. m : Good(bs[i], gs[i])
  BY <1>3, <1>4, <1>5, Zenon
<1>7. \A i \in 1 .. m - 1 : Unfinished(gs[i])
  <2>1. \A i \in 1 .. m - 1 : i \in 1 .. m
    OBVIOUS
  <2> QED BY <1>4, <1>5, <2>1, Zenon
<1>8. OpenOf(bs, gs)
  BY <1>3, <1>4, <1>6, <1>7, Zenon DEF OpenOf
<1>9. m \in 1 .. m /\ Len(bsons) - 1 = m
  BY <1>1, <1>2
<1> QED BY <1>3, <1>4, <1>5, <1>8, <1>9

LEMMA TopIs ==
  ASSUME BInv
  PROVE  /\ Len(open) \in Nat /\ Len(open) # 0 /\ Len(open) = Len(aux_fields)
         /\ Top = open[Len(open)] /\ TopFields = aux_fields[Len(open)]
         /\ Good(Top, TopFields)
<1>1. /\ Len(open) \in Nat /\ Len(open) # 0 /\ Len(open) = Len(aux_fields)
      /\ \A i \in 1 .. Len(open) : Good(open[i], aux_fields[i])
  BY EmptySeq DEF BInv, OpenOf
<1>2. Top = open[Len(open)] /\ TopFields = aux_fields[Len(open)]
  BY <1>1 DEF Top, TopFields, Last
<1> QED BY <1>1, <1>2

\* A client and the count of the elements give keys without NULs.
LEMMA KeysOfTop ==
  ASSUME BInv, NEW key \in NextKeys
  PROVE  key \in Seq(Nat \ {0})
<1>1. CASE key \in Keys
  BY <1>1, KeysAssumption
<1>2. CASE key = ArrayKey(Len(Elements(get_data(Top))))
  <2>1. Len(Elements(get_data(Top))) \in Nat
    <3>1. DocumentOf(get_data(Top), TopFields) /\ Readable(TopFields)
      BY TopIs DEF Good, Built
    <3> QED BY <3>1, FieldsRead
  <2>2. PICK c \in Nat \ {0} : c = 48 + Len(Elements(get_data(Top)))
    BY <2>1
  <2>3. <<c>> \in Seq(Nat \ {0})
    OBVIOUS
  <2> QED BY <1>2, <2>2, <2>3, Zenon DEF ArrayKey
<1> QED BY <1>1, <1>2 DEF NextKeys

LEMMA FieldIs ==
  ASSUME NEW key \in Seq(Nat \ {0}), NEW type \in Types, NEW value \in Seq(Nat), NEW f,
         f = [key |-> key, type |-> type, value |-> value]
  PROVE  Header(f) /\ f.type = type /\ f.value = value
<1>1. type \in Nat /\ key \in Seq(Nat)
  BY TypeNumbers
<1>2. f.type = type /\ f.key = key /\ f.value = value /\ f \in FieldSet
  BY <1>1 DEF FieldSet
<1> QED BY <1>2 DEF Header

\* An appended field leaves the top document in order.
LEMMA TopAppends ==
  ASSUME BInv, NEW f, HasValue(f) \/ Awaits(f), AppendToTop(f)
  PROVE  /\ Good(AppendField(Top, f), Append(TopFields, f))
         /\ OpenOf([open EXCEPT ![Len(open)] = AppendField(Top, f)],
                   [aux_fields EXCEPT ![Len(open)] = Append(TopFields, f)])
         /\ Unfinished(Append(TopFields, f)) <=> Awaits(f)
<1>1. Good(Top, TopFields) /\ ~Unfinished(TopFields)
  BY TopIs DEF AppendToTop, Broken
<1>2. /\ Built(AppendField(Top, f), Append(TopFields, f))
      /\ get_data(AppendField(Top, f)) = Appended(Top, f)
  BY <1>1, BuiltAppend DEF Good
<1>3. Len(Appended(Top, f)) <= MAX_SIZE
  BY DEF AppendToTop, Appendable, Growable
<1>4. Good(AppendField(Top, f), Append(TopFields, f))
  BY <1>2, <1>3 DEF Good
<1>5. Unfinished(Append(TopFields, f)) <=> Awaits(f)
  BY <1>1, ReadableGrows DEF Good, Built
<1> QED BY <1>4, <1>5, TopChanges DEF BInv

LEMMA NothingGood == Good(NewBson, <<>>)
<1>1. get_data(NewBson) = EMPTY
  BY DEF get_data, NewBson
<1>2. Len(EMPTY) <= MAX_SIZE
  BY SizesAssumption DEF EMPTY_SIZE
<1> QED BY <1>1, <1>2, NothingBuilt DEF Good

LEMMA InitB == Init => BInv
<1> SUFFICES ASSUME Init PROVE BInv
  OBVIOUS
<1>2. OpenOf(open, aux_fields)
  <2>1. open = <<NewBson>> /\ aux_fields = <<<<>>>>
    BY DEF Init
  <2> QED BY <2>1, NothingGood, OneOpen
<1>3. StoredOf(stored, aux_stored)
  <2>1. Len(EMPTY) <= MAX_SIZE
    BY SizesAssumption DEF EMPTY_SIZE
  <2>2. <<>> \in Seq(CompleteSet)
    OBVIOUS
  <2>3. stored = EMPTY /\ aux_stored = <<>>
    BY DEF Init
  <2> QED BY <2>1, <2>2, <2>3, NothingReadable, Zenon DEF StoredOf
<1> QED BY <1>2, <1>3 DEF BInv

\* A value has as many cells as its size says, whether it is one of the client's or a
\* whole stored document.
LEMMA AppendValueB ==
  ASSUME BInv, NEW key \in NextKeys, NEW value, value.type \in Types,
         IsValue(value.type, value.cells), AppendValue(key, value)
  PROVE  BInv'
<1>1. PICK f : f = [key |-> key, type |-> value.type, value |-> value.cells]
  OBVIOUS
<1>2. HasValue(f)
  <2>1. value.type \in Types /\ IsValue(value.type, value.cells) /\ value.cells \in Seq(Nat)
    BY DEF IsValue
  <2>2. Header(f) /\ f.type = value.type /\ f.value = value.cells
    BY <1>1, <2>1, KeysOfTop, FieldIs
  <2> QED BY <2>1, <2>2 DEF HasValue
<1>3. /\ AppendToTop(f)
      /\ open' = [open EXCEPT ![Len(open)] = AppendField(@, f)]
      /\ aux_fields' = [aux_fields EXCEPT ![Len(open)] = Append(@, f)]
      /\ stored' = stored /\ aux_stored' = aux_stored
  BY <1>1 DEF AppendValue
<1>4. /\ open' = [open EXCEPT ![Len(open)] = AppendField(Top, f)]
      /\ aux_fields' = [aux_fields EXCEPT ![Len(open)] = Append(TopFields, f)]
  BY <1>3, TopIs
<1>5. OpenOf(open', aux_fields')
  BY <1>2, <1>3, <1>4, TopAppends
<1> QED BY <1>3, <1>5 DEF BInv

LEMMA AppendStoredB ==
  ASSUME BInv, NEW key \in NextKeys, NEW type \in NestedTypes, AppendStored(key, type)
  PROVE  BInv'
<1>1. PICK value : value = [type |-> type, cells |-> stored]
  OBVIOUS
<1>2. value.type = type /\ value.cells = stored /\ AppendValue(key, value)
  BY <1>1 DEF AppendStored
<1>3. type \in Types
  BY DEF Types
<1>4. IsValue(type, stored)
  BY DocumentIsValue DEF BInv, StoredOf
<1> QED BY <1>2, <1>3, <1>4, AppendValueB

LEMMA BeginNestedB ==
  ASSUME BInv, NEW key \in NextKeys, NEW type \in NestedTypes, BeginNested(key, type)
  PROVE  BInv'
<1>1. PICK f : f = [key |-> key, type |-> type, value |-> <<>>]
  OBVIOUS
<1>2. Awaits(f)
  <2>0. PICK nothing \in Seq(Nat) : nothing = <<>>
    <3>1. <<>> \in Seq(Nat)
      BY EmptySeq
    <3> QED BY <3>1, Zenon
  <2>1. type \in Types /\ f = [key |-> key, type |-> type, value |-> nothing]
    BY <1>1, <2>0 DEF Types
  <2>2. key \in Seq(Nat \ {0})
    BY KeysOfTop
  <2>3. Header(f) /\ f.type = type /\ f.value = nothing
    BY <2>1, <2>2, FieldIs
  <2> QED BY <2>0, <2>3 DEF Awaits
<1>3. /\ AppendToTop(f)
      /\ open' = Append([open EXCEPT ![Len(open)] = AppendField(@, f)], NewBson)
      /\ aux_fields' = Append([aux_fields EXCEPT ![Len(open)] = Append(@, f)], <<>>)
      /\ stored' = stored /\ aux_stored' = aux_stored
  BY <1>1 DEF BeginNested
<1>4. PICK bsons, fields :
        /\ bsons = [open EXCEPT ![Len(open)] = AppendField(Top, f)]
        /\ fields = [aux_fields EXCEPT ![Len(open)] = Append(TopFields, f)]
  OBVIOUS
<1>5. open' = Append(bsons, NewBson) /\ aux_fields' = Append(fields, <<>>)
  BY <1>3, <1>4, TopIs
<1>6. OpenOf(bsons, fields) /\ Unfinished(Append(TopFields, f))
  BY <1>2, <1>3, <1>4, TopAppends
<1>7. Len(bsons) = Len(open) /\ fields[Len(open)] = Append(TopFields, f)
  <2>1. open \in Seq(BsonSet) /\ aux_fields \in Seq(Seq(FieldSet))
    BY DEF BInv, OpenOf
  <2>2. PICK n \in Nat : n = Len(open) /\ n # 0 /\ n = Len(aux_fields)
    BY TopIs
  <2>3. Len([open EXCEPT ![n] = AppendField(Top, f)]) = n
    <3>1. AppendField(Top, f) \in BsonSet
      BY <1>2, <1>3, TopAppends, GoodTypes
    <3>2. PICK x \in BsonSet, bs \in Seq(BsonSet) : x = AppendField(Top, f) /\ bs = open
      BY <2>1, <3>1, Zenon
    <3>3. n = Len(bs) /\ n # 0
      BY <2>2, <3>2, Zenon
    <3>4. Len([bs EXCEPT ![n] = x]) = n
      BY <3>3, LastReplaced
    <3> QED BY <3>2, <3>4, Zenon
  <2>4. n \in DOMAIN aux_fields
    BY <2>1, <2>2
  <2>5. [aux_fields EXCEPT ![n] = Append(TopFields, f)][n] = Append(TopFields, f)
    BY <2>4, Zenon
  <2> QED BY <1>4, <2>2, <2>3, <2>5
<1>8. OpenOf(open', aux_fields')
  BY <1>5, <1>6, <1>7, NothingGood, TopOpens
<1> QED BY <1>3, <1>8 DEF BInv

LEMMA EndNestedB ==
  ASSUME BInv, EndNested
  PROVE  BInv'
<1> DEFINE level == Len(open) - 1
           fits == Growable(open[level], Len(open[level].data) + Len(get_data(Top)))
<1>1. /\ Len(open) > 1 /\ stored' = stored /\ aux_stored' = aux_stored
      /\ open' = IF fits THEN Append(SubSeq(open, 1, level - 1), Attached(open[level], Top))
                 ELSE Front(open)
      /\ aux_fields' =
           IF fits
           THEN [Front(aux_fields) EXCEPT ![level][Len(aux_fields[level])].value = get_data(Top)]
           ELSE Front(aux_fields)
  BY DEF EndNested
<1>2. /\ OpenOf(Front(open), Front(aux_fields)) /\ Len(Front(open)) = level
      /\ Unfinished(aux_fields[level]) /\ Good(open[level], aux_fields[level])
  BY <1>1, TopCloses DEF BInv
<1>3. OpenOf(open', aux_fields')
  <2>1. CASE ~fits
    BY <1>1, <1>2, <2>1
  <2>2. CASE fits
    <3> DEFINE parent == Attached(open[level], Top)
               fs == aux_fields[level]
               gs == [fs EXCEPT ![Len(fs)].value = get_data(Top)]
    <3>1. /\ Built(parent, gs)
          /\ Len(get_data(parent)) = Len(open[level].data) + Len(get_data(Top))
      BY <1>2, TopIs, BuiltAttach DEF Good
    <3>2. Len(get_data(parent)) <= MAX_SIZE
      BY <2>2, <3>1 DEF Growable
    <3>3. Good(parent, gs)
      BY <3>1, <3>2 DEF Good
    <3> HIDE DEF parent
    <3>4. PICK m \in Nat : m = level /\ m # 0
      BY <1>1, TopIs
    <3>5. Front(aux_fields)[m] = fs
      <4>1. aux_fields \in Seq(Seq(FieldSet)) /\ m = Len(aux_fields) - 1
        BY <3>4, TopIs DEF BInv, OpenOf
      <4>2. \A i \in 1 .. m : Front(aux_fields)[i] = aux_fields[i]
        BY <3>4, <4>1, OneLess
      <4> QED BY <3>4, <4>2
    <3>6. aux_fields' = [Front(aux_fields) EXCEPT ![m] = gs]
      <4>1. aux_fields' = [Front(aux_fields) EXCEPT ![m][Len(fs)].value = get_data(Top)]
        BY <1>1, <2>2, <3>4
      <4>2. gs = [Front(aux_fields)[m] EXCEPT ![Len(fs)].value = get_data(Top)]
        BY <3>5
      <4> QED BY <4>1, <4>2
    <3>7. open' = [Front(open) EXCEPT ![m] = parent]
      <4>1. open' = Append(SubSeq(open, 1, m - 1), parent)
        BY <1>1, <2>2, <3>4 DEF parent
      <4>2. open \in Seq(BsonSet) /\ m = Len(open) - 1 /\ Front(open) = SubSeq(open, 1, m)
        BY <3>4 DEF BInv, OpenOf, Front
      <4>3. parent \in BsonSet
        BY <3>3, GoodTypes
      <4>4. Append(SubSeq(open, 1, m - 1), parent) = [SubSeq(open, 1, m) EXCEPT ![m] = parent]
        BY <3>4, <4>2, <4>3, LastInPlace
      <4> QED BY <4>1, <4>2, <4>4
    <3> HIDE DEF gs, fs
    <3> QED BY <1>2, <3>3, <3>4, <3>6, <3>7, TopChanges
  <2> QED BY <2>1, <2>2
<1> QED BY <1>1, <1>3 DEF BInv

LEMMA RestartB ==
  ASSUME BInv, NEW bson, NEW fs, Good(bson, fs), Restart(bson, fs),
         UNCHANGED <<stored, aux_stored>>
  PROVE  BInv'
  BY OneOpen DEF Restart, BInv

LEMMA ClearB == ASSUME BInv, Clear PROVE BInv'
  BY NothingGood, RestartB DEF Clear

LEMMA StoreB == ASSUME BInv, Store PROVE BInv'
<1>1. StoredOf(get_data(Top), TopFields)
  <2>1. Built(Top, TopFields) /\ Len(get_data(Top)) <= MAX_SIZE /\ ~Unfinished(TopFields)
    BY TopIs DEF Good, Store, Complete, Broken
  <2> QED BY <2>1, CompleteFields DEF Built, StoredOf
<1>2. OpenOf(open', aux_fields')
  BY NothingGood, OneOpen DEF Store, Restart
<1> QED BY <1>1, <1>2 DEF Store, BInv

\* A copy and a view have the stored bytes.
LEMMA StoredGood ==
  ASSUME BInv, NEW capacity \in Nat, NEW static \in BOOLEAN, static \/ capacity = Len(stored)
  PROVE  Good([data |-> stored, capacity |-> capacity, static |-> static], aux_stored)
<1>1. PICK bson : bson = [data |-> stored, capacity |-> capacity, static |-> static]
  OBVIOUS
<1>2. /\ DocumentOf(stored, aux_stored) /\ Readable(aux_stored) /\ Len(stored) <= MAX_SIZE
      /\ stored \in Seq(Nat)
  BY CompleteFields DEF BInv, StoredOf, DocumentOf
<1>3. stored # <<>>
  BY <1>2 DEF DocumentOf, EMPTY_SIZE, EMPTY
<1>4. bson \in BsonSet /\ bson.data = stored /\ bson.static = static /\ bson.capacity = capacity
  BY <1>1, <1>2 DEF BsonSet
<1>5. get_data(bson) = stored
  BY <1>3, <1>4 DEF get_data
<1>6. bson.static \/ Len(bson.data) <= bson.capacity
  BY <1>2, <1>4
<1> QED BY <1>1, <1>2, <1>4, <1>5, <1>6 DEF Good, Built

LEMMA CopyB == ASSUME BInv, Copy PROVE BInv'
<1>1. Len(stored) \in Nat /\ FALSE \in BOOLEAN
  BY DEF BInv, StoredOf, DocumentOf
<1>2. Good([data |-> stored, capacity |-> Len(stored), static |-> FALSE], aux_stored)
  BY <1>1, StoredGood
<1> QED BY <1>2, RestartB DEF Copy

LEMMA ViewB == ASSUME BInv, View PROVE BInv'
<1>1. Good([data |-> stored, capacity |-> 0, static |-> TRUE], aux_stored)
  BY StoredGood
<1> QED BY <1>1, RestartB DEF View

\* What a merge of the stored document with the top one builds.
LEMMA MergeBuilds ==
  ASSUME BInv, Complete
  PROVE  LET fs == MergedFields(aux_stored, TopFields)
         IN  /\ fs \in Seq(CompleteSet)
             /\ Built(Merged(stored, get_data(Top)), fs)
             /\ Fields(get_data(Merged(stored, get_data(Top)))) = fs
<1>1. DocumentOf(stored, aux_stored) /\ aux_stored \in Seq(CompleteSet)
  BY DEF BInv, StoredOf
<1>2. /\ DocumentOf(get_data(Top), TopFields) /\ Readable(TopFields) /\ ~Unfinished(TopFields)
      /\ TopFields \in Seq(CompleteSet)
  BY TopIs, CompleteFields DEF Good, Built, Complete, Broken
<1>3. Fields(stored) = aux_stored
  BY <1>1, CompleteFields, FieldsRead DEF Whole
<1>4. Fields(get_data(Top)) = TopFields
  BY <1>2, FieldsRead DEF Whole
<1>5. PICK fs \in Seq(CompleteSet) : fs = MergedFields(aux_stored, TopFields)
  BY <1>1, <1>2, MergeKeeps
<1>6. Merged(stored, get_data(Top)) = FoldLeft(AppendField, NewBson, fs)
  BY <1>3, <1>4, <1>5 DEF Merged
<1>7. PICK merged : merged = Merged(stored, get_data(Top)) /\ Built(merged, fs)
  BY <1>6, BuiltMerge
<1>8. Fields(get_data(merged)) = fs
  BY <1>7, CompleteFields, FieldsRead DEF Built, Whole
<1> QED BY <1>5, <1>7, <1>8

LEMMA MergeB == ASSUME BInv, Merge PROVE BInv'
<1>1. PICK merged, fs :
        merged = Merged(stored, get_data(Top)) /\ fs = MergedFields(aux_stored, TopFields)
  OBVIOUS
<1>2. /\ Complete /\ Len(get_data(merged)) <= MAX_SIZE /\ Restart(merged, fs)
      /\ UNCHANGED <<stored, aux_stored>>
  BY <1>1 DEF Merge
<1>3. Good(merged, fs)
  BY <1>1, <1>2, MergeBuilds DEF Good
<1> QED BY <1>2, <1>3, RestartB

LEMMA NextB == BInv /\ [Next]_vars => BInv'
<1> SUFFICES ASSUME BInv, [Next]_vars PROVE BInv'
  OBVIOUS
<1>1. CASE UNCHANGED vars
  BY <1>1 DEF vars, BInv
<1>2. ASSUME NEW key \in NextKeys, NEW value \in Values, AppendValue(key, value) PROVE BInv'
  BY <1>2, ValuesAssumption, AppendValueB
<1>3. ASSUME NEW key \in NextKeys, NEW type \in NestedTypes, BeginNested(key, type) PROVE BInv'
  BY <1>3, BeginNestedB
<1>10. ASSUME NEW key \in NextKeys, NEW type \in NestedTypes, AppendStored(key, type) PROVE BInv'
  BY <1>10, AppendStoredB
<1>4. CASE EndNested
  BY <1>4, EndNestedB
<1>5. CASE Clear
  BY <1>5, ClearB
<1>6. CASE Store
  BY <1>6, StoreB
<1>7. CASE Copy
  BY <1>7, CopyB
<1>8. CASE View
  BY <1>8, ViewB
<1>9. CASE Merge
  BY <1>9, MergeB
<1> QED BY <1>1, <1>2, <1>3, <1>4, <1>5, <1>6, <1>7, <1>8, <1>9, <1>10 DEF Next

-----------------------------------------------------------------------------
(* Theorems *)

\* Every document under construction, and the stored one, is laid out as the fields that
\* were appended to it, in a buffer that holds it, and only the last field of one with a
\* child under construction lacks its value: the writer's calls keep that, also when a
\* buffer grows, a child does not fit or two documents are merged.
THEOREM DocumentsBuilt == Spec => []BInv
  BY InitB, NextB, PTL DEF Spec

\* A document begins with its length and ends with a NUL, within its capacity and
\* MAX_SIZE, after every call of the writer.
THEOREM TypeCorrect == Spec => []TypeOK
<1>1. BInv => TypeOK
  <2> SUFFICES ASSUME BInv PROVE TypeOK
    OBVIOUS
  <2>1. /\ Len(open) = Len(aux_fields) /\ open # <<>> /\ DOMAIN open = 1 .. Len(open)
        /\ \A i \in 1 .. Len(open) : Good(open[i], aux_fields[i])
    BY DEF BInv, OpenOf
  <2>2. ASSUME NEW bson, NEW fs, Good(bson, fs)
        PROVE  /\ get_data(bson)[1] = Len(get_data(bson)) /\ Last(get_data(bson)) = 0
               /\ Len(get_data(bson)) <= MAX_SIZE
               /\ bson.data # <<>> => bson.static \/ Len(get_data(bson)) <= bson.capacity
    <3>1. DocumentOf(get_data(bson), fs) /\ Len(get_data(bson)) <= MAX_SIZE
      BY <2>2 DEF Good, Built
    <3>2. bson.data # <<>> => bson.static \/ Len(get_data(bson)) <= bson.capacity
      BY <2>2 DEF Good, Built, get_data
    <3> QED BY <3>1, <3>2 DEF DocumentOf, Last
  <2> QED BY <2>1, <2>2, Zenon DEF TypeOK
<1> QED BY <1>1, DocumentsBuilt, PTL

\* The iterator returns what was appended, whatever the keys, values and nesting: the
\* cells of one field never read as another's.
THEOREM ReadsWhatWasWritten == Spec => []ReadsBack
<1>1. BInv => ReadsBack
  <2> SUFFICES ASSUME BInv PROVE ReadsBack
    OBVIOUS
  <2>1. \A i \in DOMAIN open : Good(open[i], aux_fields[i])
    BY DEF BInv, OpenOf
  <2>2. \A i \in DOMAIN open : Fields(get_data(open[i])) = Whole(aux_fields[i])
    BY <2>1, FieldsRead DEF Good, Built
  <2>3. Fields(stored) = aux_stored
    BY CompleteFields, FieldsRead DEF BInv, StoredOf, Whole
  <2> QED BY <2>2, <2>3 DEF ReadsBack
<1> QED BY <1>1, DocumentsBuilt, PTL

\* In a merge the patch wins for every key it has, and nothing else of the original is
\* lost or changed, duplicate keys included.
THEOREM PatchWins == Spec => []MergePrefersPatch
<1>1. BInv => MergePrefersPatch
  <2> SUFFICES ASSUME BInv, Complete, NEW key
               PROVE  LET merged == Fields(get_data(Merged(stored, get_data(Top))))
                      IN  find(merged, key) = IF find(TopFields, key) # <<>> THEN find(TopFields, key)
                                              ELSE find(aux_stored, key)
    BY DEF MergePrefersPatch
  <2>1. Fields(get_data(Merged(stored, get_data(Top)))) = MergedFields(aux_stored, TopFields)
    BY MergeBuilds
  <2>2. aux_stored \in Seq(FieldSet) /\ TopFields \in Seq(FieldSet)
    BY TopIs, GoodTypes, CompleteFields DEF BInv, StoredOf, Readable
  <2> QED BY <2>1, <2>2, MergeFinds
<1> QED BY <1>1, DocumentsBuilt, PTL

=================================================================================
