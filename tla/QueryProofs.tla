------------------------------- MODULE QueryProofs --------------------------------
(* Proofs about a statement between the parser and its answer.                      *)
(*                                                                                  *)
(* Binder, for every set of statements and every graph: the call that linklet_bind  *)
(* makes of a MATCH selects what its path describes, once for each way to bind it,  *)
(* and what it makes of an INSERT is the element written there.  A filter of        *)
(* read_filter selects the elements its pattern element describes (FilterMeans); a  *)
(* list of matches is a bijection between its positions and the assignments of the  *)
(* path (MatchCounts).  What is left is which clause a call was made from           *)
(* (CallForms).                                                                     *)
(*                                                                                  *)
(* Reachability, for every graph and every bound: the operator that answers a       *)
(* quantified path says true exactly when a walk of 1 to max_hops edges exists.     *)
EXTENDS Binder, Reachability, CommonProofs

-----------------------------------------------------------------------------
(* Enumerations and first positions *)

\* Ascending lists the IDs of a finite set in ascending order and leaves none out.
LEMMA AscendingEnumerates ==
  ASSUME NEW S \in SUBSET Nat, IsFiniteSet(S)
  PROVE  /\ Ascending(S) \in Seq(S)
         /\ Len(Ascending(S)) = Cardinality(S)
         /\ \A i, j \in DOMAIN Ascending(S) : i < j => Ascending(S)[i] < Ascending(S)[j]
         /\ \A x \in S : \E i \in DOMAIN Ascending(S) : Ascending(S)[i] = x
<1>1. Ascending(S) = InOrder(S)
  BY DEF Ascending, InOrder
<1> QED BY <1>1, InOrderEnumerates

\* direct_child finds a clause of the kind it looks for.
LEMMA FirstIsOne ==
  ASSUME statement \in Statements, NEW kind, Has(kind)
  PROVE  First(kind) \in Range(statement) /\ First(kind).kind = kind
<1> DEFINE I == {i \in 1 .. Len(statement) : statement[i].kind = kind}
<1>1. statement \in Seq(Range(statement))
  BY StatementsAssumption
<1>2. I # {} /\ I \in SUBSET Nat
  BY <1>1 DEF Has, Range
<1>3. Min(I) \in I
  BY <1>2, MinIsLeast
<1>4. First(kind) = statement[Min(I)]
  BY <1>2 DEF First, SelectInSeq
<1> HIDE DEF I
<1>5. Min(I) \in 1 .. Len(statement) /\ statement[Min(I)].kind = kind
  BY <1>3 DEF I
<1> QED BY <1>1, <1>4, <1>5 DEF Range

\* The position of the first element of a path with a name.
LEMMA PositionIs ==
  ASSUME NEW path \in Seq(Elements), NEW name, \E element \in Range(path) : element.name = name
  PROVE  /\ Position(path, name) \in DOMAIN path
         /\ Binding(path, name) = <<"source", "edge", "destination">>[Position(path, name)]
<1> DEFINE I == {i \in 1 .. Len(path) : path[i].name = name}
<1>1. I # {} /\ I \in SUBSET Nat
  BY DEF Range
<1>2. Min(I) \in I
  BY <1>1, MinIsLeast
<1>3. Position(path, name) = Min(I)
  BY <1>1 DEF Position, SelectInSeq
<1>4. Binding(path, name) = <<"source", "edge", "destination">>[Position(path, name)]
  BY DEF Binding, Position
<1> QED BY <1>2, <1>3, <1>4

-----------------------------------------------------------------------------
(* Filters *)

\* A filter selects exactly the elements that its pattern element describes.
LEMMA FilterMeans ==
  ASSUME NEW element \in Elements, FilterReadable(element),
         "_labels" \notin Range(PropertyKeys(element)),
         NEW objects, DOMAIN objects \subseteq DOMAIN Nodes \cup DOMAIN Edges
  PROVE  Selected(objects, Filter(element)) = Described(element, objects)
<1> DEFINE properties == Range(element.properties)
           ids == {p.value.value : p \in {p \in properties : p.key \in IdKeys}}
           compared == {p \in properties : p.key \notin IdKeys}
           labelled == {"_labels" : label \in Range(element.labels)}
           values == [key \in labelled \cup {p.key : p \in compared} |->
                        IF key = "_labels" THEN Literal("label", Head(element.labels))
                        ELSE Encoded((CHOOSE p \in compared : p.key = key).value)]
<1>1. /\ Filter(element).ids = (IF ids # {} THEN ids ELSE DOMAIN Nodes \cup DOMAIN Edges)
      /\ Filter(element).properties = values
  BY DEF Filter
<1>2. \A p, q \in properties : p.key = q.key \/ {p.key, q.key} \subseteq IdKeys => p = q
  <2>1. \A i, j \in DOMAIN element.properties :
          i # j => /\ element.properties[i].key # element.properties[j].key
                   /\ ~({element.properties[i].key, element.properties[j].key} \subseteq IdKeys)
    BY ZenonT(30) DEF FilterReadable, PropertiesReadable, PropertyKeys
  <2>2. properties = {element.properties[i] : i \in DOMAIN element.properties}
    BY DEF Range
  <2> HIDE DEF properties
  <2> QED BY <2>1, <2>2
<1>3. \A p \in properties : p.key # "_labels"
  BY DEF PropertyKeys, Range
<1>4. element.labels \in Seq(STRING) /\ Len(element.labels) <= 1
  BY DEF Elements, FilterReadable
<1>5. \A label \in Range(element.labels) : label = Head(element.labels)
  BY <1>4 DEF Range
<1> HIDE DEF properties
<1>6. ASSUME NEW id \in DOMAIN objects
      PROVE  id \in Filter(element).ids <=> \A p \in properties : p.key \in IdKeys => id = p.value.value
  BY <1>1, <1>2
<1>7. ASSUME NEW doc
      PROVE  matches_properties(doc, values) <=>
               /\ \A label \in Range(element.labels) :
                    "_labels" \in DOMAIN doc /\ doc["_labels"] = Literal("label", label)
               /\ \A p \in properties :
                    p.key \notin IdKeys => p.key \in DOMAIN doc /\ doc[p.key] = Encoded(p.value)
  <2>1. DOMAIN values = labelled \cup {p.key : p \in compared}
    OBVIOUS
  <2>2. \A label \in Range(element.labels) :
          "_labels" \in DOMAIN values /\ values["_labels"] = Literal("label", label)
    BY <1>5
  <2>3. \A p \in compared : p.key \in DOMAIN values /\ values[p.key] = Encoded(p.value)
    <3> TAKE p \in compared
    <3>1. p = CHOOSE q \in compared : q.key = p.key
      BY <1>2
    <3>2. p.key # "_labels" /\ p.key \in DOMAIN values
      BY <1>3
    <3> HIDE DEF compared, labelled
    <3> QED BY <3>1, <3>2
  <2>4. \A key \in DOMAIN values :
          \/ key = "_labels" /\ \E label \in Range(element.labels) : TRUE
          \/ \E p \in compared : key = p.key
    BY <2>1
  <2> HIDE DEF values
  <2> QED BY <2>2, <2>3, <2>4 DEF matches_properties
<1>8. ASSUME NEW id \in DOMAIN objects
      PROVE  id \in Filter(element).ids /\ matches_properties(objects[id], Filter(element).properties)
               <=> Describes(element, id, objects[id])
  <2> HIDE DEF values
  <2> QED BY <1>1, <1>6, <1>7 DEF Describes, properties
<1> QED BY <1>8 DEF Selected, Described

-----------------------------------------------------------------------------
(* Matches and assignments *)

\* Two sets that a function maps one to one have as many elements.
LEMMA SameCount ==
  ASSUME NEW S, NEW T, IsFiniteSet(S), NEW f \in [S -> T],
         \A x, y \in S : f[x] = f[y] => x = y,
         \A z \in T : \E x \in S : f[x] = z
  PROVE  Cardinality(S) = Cardinality(T)
<1>1. f \in Bijection(S, T)
  BY DEF Bijection, Injection, Surjection, IsInjective
<1>2. ExistsBijection(S, T)
  BY <1>1 DEF ExistsBijection
<1> QED BY <1>2, FS_Bijection

\* The graph's IDs are finitely many numbers.
LEMMA FiniteSelection ==
  ASSUME NEW element
  PROVE  /\ Described(element, Nodes) \in SUBSET Nat /\ IsFiniteSet(Described(element, Nodes))
         /\ Described(element, Edges) \in SUBSET Nat /\ IsFiniteSet(Described(element, Edges))
<1>1. /\ Described(element, Nodes) \in SUBSET DOMAIN Nodes
      /\ Described(element, Edges) \in SUBSET DOMAIN Edges
  BY DEF Described
<1> QED BY <1>1, GraphAssumption, FS_Subset

\* A pattern lists an ID as often as assignments of the path have it at a position.
CountsAgree(path, pattern, at, id) ==
  LET selected == linklet_resolve_match(Nodes, Edges, Coo, pattern)
  IN  Cardinality({i \in DOMAIN selected : selected[i] = id})
        = Cardinality({a \in Assignments(path) : a[at] = id})

\* A pattern of one node returns each node it describes once.
LEMMA NodeCounts ==
  ASSUME NEW path \in Seq(Elements), PatternReadable(path), Len(path) = 1,
         "_labels" \notin Range(PropertyKeys(path[1])), NEW id
  PROVE  CountsAgree(path, NodePattern(path), 1, id)
<1> PICK S : S = Described(path[1], Nodes)
  OBVIOUS
<1>1. S \in SUBSET Nat /\ IsFiniteSet(S)
  BY FiniteSelection
<1> PICK selected : selected = Ascending(S)
  OBVIOUS
<1>2. linklet_resolve_match(Nodes, Edges, Coo, NodePattern(path)) = selected
  <2>1. path[1] \in Elements /\ FilterReadable(path[1])
    <3>1. DOMAIN path = 1 .. 1
      OBVIOUS
    <3> QED BY <3>1 DEF PatternReadable
  <2>2. Selected(Nodes, Filter(path[1])) = S
    BY <2>1, FilterMeans
  <2> QED BY <2>2 DEF linklet_resolve_match, NodePattern, scan_elements
<1>3. /\ selected \in Seq(S)
      /\ \A i, j \in DOMAIN selected : i < j => selected[i] < selected[j]
      /\ \A x \in S : \E i \in DOMAIN selected : selected[i] = x
  BY <1>1, AscendingEnumerates
<1>4. Assignments(path) = {<<n>> : n \in S}
  BY DEF Assignments
<1> DEFINE I == {i \in DOMAIN selected : selected[i] = id}
           A == {a \in Assignments(path) : a[1] = id}
           f == [i \in I |-> <<selected[i]>>]
<1>5. DOMAIN selected = 1 .. Len(selected) /\ Len(selected) \in Nat
  BY <1>3
<1>6. IsFiniteSet(I)
  <2>1. IsFiniteSet(DOMAIN selected)
    BY <1>5, FS_Interval
  <2>2. I \in SUBSET DOMAIN selected
    OBVIOUS
  <2> HIDE DEF I
  <2> QED BY <2>1, <2>2, FS_Subset
<1>7. f \in [I -> A]
  BY <1>3, <1>4
<1>8. \A x, y \in I : f[x] = f[y] => x = y
  <2> TAKE x, y \in I
  <2>1. x \in Int /\ y \in Int /\ selected[x] \in Nat /\ selected[x] = selected[y]
    BY <1>1, <1>3, <1>5
  <2>2. ~(x < y) /\ ~(y < x)
    BY <1>3, <2>1
  <2> QED BY <2>1, <2>2
<1>9. \A a \in A : \E i \in I : f[i] = a
  BY <1>3, <1>4
<1> HIDE DEF f, I, A
<1>10. Cardinality(I) = Cardinality(A)
  BY <1>6, <1>7, <1>8, <1>9, SameCount
<1> QED BY <1>2, <1>10 DEF I, A, CountsAgree

\* An edge pattern returns the named element once for each way to bind the path.
LEMMA EdgeCounts ==
  ASSUME NEW path \in Seq(Elements), PatternReadable(path), Len(path) = 3,
         \A i \in 1 .. 3 : "_labels" \notin Range(PropertyKeys(path[i])),
         NEW target, NEW at \in 1 .. 3,
         Binding(path, target) = <<"source", "edge", "destination">>[at], NEW id
  PROVE  CountsAgree(path, EdgePattern(path, target), at, id)
<1> PICK pattern : pattern = EdgePattern(path, target)
  OBVIOUS
<1>a. /\ pattern.is_edge_pattern = TRUE
      /\ pattern.source = Filter(path[1]) /\ pattern.edge = Filter(path[2])
      /\ pattern.destination = Filter(path[3])
      /\ pattern.direction = path[2].direction /\ pattern.binding = Binding(path, target)
  BY DEF EdgePattern
<1> PICK left, middles, right :
      /\ left = Described(path[1], Nodes)
      /\ middles = Described(path[2], Edges)
      /\ right = Described(path[3], Nodes)
  OBVIOUS
<1>1. middles \in SUBSET Nat /\ IsFiniteSet(middles) /\ middles \in SUBSET DOMAIN Edges
  BY FiniteSelection DEF Described
<1> DEFINE source(e) == IF pattern.direction = "right" THEN Coo[e].source ELSE Coo[e].destination
           destination(e) == IF pattern.direction = "right" THEN Coo[e].destination ELSE Coo[e].source
           matched == {e \in Selected(Edges, pattern.edge) :
                         /\ source(e) \in Selected(Nodes, pattern.source)
                         /\ destination(e) \in Selected(Nodes, pattern.destination)}
           row(e) == <<source(e), e, destination(e)>>
<1>2. /\ Selected(Nodes, pattern.source) = left
      /\ Selected(Edges, pattern.edge) = middles
      /\ Selected(Nodes, pattern.destination) = right
  <2>1. 1 \in DOMAIN path /\ 2 \in DOMAIN path /\ 3 \in DOMAIN path
    OBVIOUS
  <2>2. path[1] \in Elements /\ path[2] \in Elements /\ path[3] \in Elements
    BY <2>1
  <2>3. FilterReadable(path[1]) /\ FilterReadable(path[2]) /\ FilterReadable(path[3])
    BY <2>1 DEF PatternReadable
  <2>4. /\ "_labels" \notin Range(PropertyKeys(path[1]))
        /\ "_labels" \notin Range(PropertyKeys(path[2]))
        /\ "_labels" \notin Range(PropertyKeys(path[3]))
    OBVIOUS
  <2> QED BY <1>a, <2>2, <2>3, <2>4, FilterMeans
<1> PICK order : order = Ascending(matched)
  OBVIOUS
<1>3. /\ order \in Seq(matched)
      /\ \A i, j \in DOMAIN order : i < j => order[i] < order[j]
      /\ \A x \in matched : \E i \in DOMAIN order : order[i] = x
  <2>1. matched \in SUBSET middles
    BY <1>2
  <2>2. matched \in SUBSET Nat /\ IsFiniteSet(matched)
    BY <1>1, <2>1, FS_Subset
  <2> HIDE DEF matched
  <2> QED BY <2>2, AscendingEnumerates
<1>4. linklet_resolve_match(Nodes, Edges, Coo, pattern) = [i \in DOMAIN order |-> row(order[i])[at]]
  <2> DEFINE value(e) == CASE pattern.binding = "source" -> source(e)
                           [] pattern.binding = "edge" -> e
                           [] pattern.binding = "destination" -> destination(e)
             listed == Ascending(matched)
  <2>1. linklet_resolve_match(Nodes, Edges, Coo, pattern) = [i \in DOMAIN listed |-> value(listed[i])]
    BY <1>a DEF linklet_resolve_match
  <2>2. ASSUME NEW e
        PROVE  value(e) = row(e)[at]
    <3> HIDE DEF source, destination
    <3>0. at = 1 \/ at = 2 \/ at = 3
      OBVIOUS
    <3>1. CASE at = 1
      BY <1>a, <3>1
    <3>2. CASE at = 2
      BY <1>a, <3>2
    <3>3. CASE at = 3
      BY <1>a, <3>3
    <3> QED BY <3>0, <3>1, <3>2, <3>3
  <2>3. listed = order
    OBVIOUS
  <2> HIDE DEF value, row, listed
  <2> QED BY <2>1, <2>2, <2>3
<1>5. \A a : a \in Assignments(path) <=> \E e \in matched : a = row(e)
  <2>1. ASSUME NEW e \in middles
        PROVE  \A n, m : Joins(pattern.direction, n, Coo[e], m) <=> n = source(e) /\ m = destination(e)
    <3>1. Coo[e] \in [source : Nat, destination : Nat]
      BY <1>1, GraphAssumption
    <3> QED BY <3>1 DEF Joins
  <2>2. Assignments(path) = {a \in left \X middles \X right :
                               Joins(pattern.direction, a[1], Coo[a[2]], a[3])}
    BY <1>a DEF Assignments
  <2>e. \A e : e \in matched <=> e \in middles /\ source(e) \in left /\ destination(e) \in right
    BY <1>2
  <2> HIDE DEF source, destination, matched
  <2>3. ASSUME NEW a \in Assignments(path)
        PROVE  \E e \in matched : a = row(e)
    <3>1. a = <<a[1], a[2], a[3]>> /\ a[1] \in left /\ a[2] \in middles /\ a[3] \in right
      BY <2>2
    <3>2. a[1] = source(a[2]) /\ a[3] = destination(a[2])
      <4>1. Joins(pattern.direction, a[1], Coo[a[2]], a[3])
        BY <2>2
      <4> PICK n, e, m : n = a[1] /\ e = a[2] /\ m = a[3]
        OBVIOUS
      <4>2. e \in middles /\ Joins(pattern.direction, n, Coo[e], m)
        BY <3>1, <4>1
      <4>3. n = source(e) /\ m = destination(e)
        <5>1. Coo[e] \in [source : Nat, destination : Nat]
          BY <1>1, <4>2, GraphAssumption
        <5> QED BY <4>2, <5>1 DEF Joins, source, destination
      <4> QED BY <4>3
    <3> QED BY <2>e, <3>1, <3>2
  <2>4. ASSUME NEW e \in matched
        PROVE  row(e) \in Assignments(path)
    BY <2>1, <2>2, <2>e
  <2> QED BY <2>3, <2>4
<1> HIDE DEF matched
<1>6. DOMAIN order = 1 .. Len(order) /\ Len(order) \in Nat /\ \A i \in DOMAIN order : order[i] \in matched
  BY <1>3
<1> DEFINE I == {i \in DOMAIN order : row(order[i])[at] = id}
           A == {a \in Assignments(path) : a[at] = id}
           f == [i \in I |-> row(order[i])]
<1>7. IsFiniteSet(I)
  <2>1. IsFiniteSet(DOMAIN order)
    BY <1>6, FS_Interval
  <2>2. I \in SUBSET DOMAIN order
    OBVIOUS
  <2> HIDE DEF I
  <2> QED BY <2>1, <2>2, FS_Subset
<1>8. f \in [I -> A]
  <2> HIDE DEF row
  <2> QED BY <1>5, <1>6
<1>9. \A x, y \in I : f[x] = f[y] => x = y
  <2> TAKE x, y \in I
  <2>1. x \in Int /\ y \in Int /\ order[x] \in Nat /\ order[y] \in Nat
    <3>1. x \in DOMAIN order /\ y \in DOMAIN order
      OBVIOUS
    <3>2. \A e \in matched : e \in Nat
      BY <1>1, <1>2, ZenonT(30) DEF matched
    <3> HIDE DEF I
    <3> QED BY <1>6, <3>1, <3>2
  <2>2. f[x] = f[y] => order[x] = order[y]
    <3> HIDE DEF source, destination
    <3> QED OBVIOUS
  <2>3. order[x] = order[y] => ~(x < y) /\ ~(y < x)
    BY <1>3, <2>1
  <2> QED BY <2>1, <2>2, <2>3
<1>10. \A a \in A : \E i \in I : f[i] = a
  <2> HIDE DEF row
  <2> QED BY <1>3, <1>5
<1> HIDE DEF f, A, I, row
<1>11. Cardinality(I) = Cardinality(A)
  BY <1>7, <1>8, <1>9, <1>10, SameCount
<1> PICK selected : selected = [i \in DOMAIN order |-> row(order[i])[at]]
  OBVIOUS
<1>12. I = {i \in DOMAIN selected : selected[i] = id}
  BY DEF I
<1> QED BY <1>4, <1>11, <1>12 DEF A, CountsAgree

\* A pattern selects an element exactly as often as there are ways to bind the path in
\* which the named binding is that element.
LEMMA PatternCounts ==
  ASSUME NEW path \in Seq(Elements), PatternReadable(path),
         \A element \in Range(path) : "_labels" \notin Range(PropertyKeys(element)),
         NEW target, \E element \in Range(path) : element.name = target
  PROVE  /\ ResultKind(Pattern(path, target)) = path[Position(path, target)].kind
         /\ \A id : CountsAgree(path, Pattern(path, target), Position(path, target), id)
<1> PICK at : at = Position(path, target)
  OBVIOUS
<1>1. at \in DOMAIN path /\ Binding(path, target) = <<"source", "edge", "destination">>[at]
  BY PositionIs
<1>2. \A i \in DOMAIN path : "_labels" \notin Range(PropertyKeys(path[i]))
  BY DEF Range
<1>3. CASE Len(path) = 1
  <2>1. at = 1 /\ path[1].kind = "node"
    BY <1>1, <1>3 DEF PatternReadable
  <2>2. Pattern(path, target) = NodePattern(path)
    BY <1>3 DEF Pattern
  <2>3. ResultKind(NodePattern(path)) = "node"
    BY DEF ResultKind, NodePattern
  <2>4. "_labels" \notin Range(PropertyKeys(path[1]))
    BY <1>2, <1>3
  <2> QED BY <1>3, <2>1, <2>2, <2>3, <2>4, NodeCounts
<1>4. CASE Len(path) = 3
  <2>1. at \in 1 .. 3 /\ path[1].kind = "node" /\ path[2].kind = "edge" /\ path[3].kind = "node"
    BY <1>1, <1>4 DEF PatternReadable, Directed
  <2>2. Pattern(path, target) = EdgePattern(path, target)
    BY <1>4 DEF Pattern
  <2>3. ResultKind(EdgePattern(path, target)) = path[at].kind
    <3>1. at = 1 \/ at = 2 \/ at = 3
      BY <2>1
    <3> QED BY <1>1, <2>1, <3>1 DEF ResultKind, EdgePattern
  <2>4. \A i \in 1 .. 3 : "_labels" \notin Range(PropertyKeys(path[i]))
    BY <1>2, <1>4
  <2> QED BY <1>1, <1>4, <2>1, <2>2, <2>3, <2>4, EdgeCounts
<1> QED BY <1>3, <1>4 DEF PatternReadable

-----------------------------------------------------------------------------
(* Documents *)

\* No encoded literal is an integer too wide for its type or a boolean without value.
LEMMA LiteralEncoded ==
  ASSUME NEW literal \in Literals, Encodable(literal)
  PROVE  /\ Encoded(literal).kind = "int32" => Encoded(literal).value <= INT32_MAX
         /\ Encoded(literal) # Literal("boolean", UNKNOWN)
BY DEF Literals, Encodable, Encoded, Literal

\* A key that a list has is found in it.
LEMMA FirstValue ==
  ASSUME NEW S, NEW keys \in Seq(S), NEW key \in Range(keys)
  PROVE  LET i == SelectInSeq(keys, LAMBDA k : k = key) IN i \in DOMAIN keys /\ keys[i] = key
<1> DEFINE I == {i \in 1 .. Len(keys) : keys[i] = key}
<1>1. I # {} /\ I \in SUBSET Nat
  BY DEF Range
<1>2. Min(I) \in I
  BY <1>1, MinIsLeast
<1> QED BY <1>1, <1>2 DEF SelectInSeq

\* The document of an element.
LEMMA ElementEncoded ==
  ASSUME NEW element \in Elements, ElementEncodable(element)
  PROVE  /\ DOMAIN EncodedElement(element) = {"_labels"} \cup Range(PropertyKeys(element))
         /\ EncodedElement(element)["_labels"] = element.labels
         /\ "_labels" \notin Range(PropertyKeys(element))
         /\ \A key \in Range(PropertyKeys(element)) :
              \E i \in DOMAIN element.properties :
                /\ element.properties[i].key = key
                /\ EncodedElement(element)[key] = Encoded(element.properties[i].value)
<1> PICK keys : keys = PropertyKeys(element)
  OBVIOUS
<1>1. element.properties \in Seq([key : STRING, value : Literals])
  BY DEF Elements
<1>2. /\ keys \in Seq(STRING) /\ DOMAIN keys = DOMAIN element.properties
      /\ \A i \in DOMAIN keys : keys[i] = element.properties[i].key
  <2> DEFINE P == [key : STRING, value : Literals]
  <2>1. \A p \in P : p.key \in STRING
    OBVIOUS
  <2>2. element.properties \in Seq(P)
    BY <1>1
  <2> HIDE DEF P
  <2>3. keys = [i \in 1 .. Len(element.properties) |-> element.properties[i].key]
    BY <2>2 DEF PropertyKeys
  <2>4. \A i \in 1 .. Len(element.properties) : element.properties[i].key \in STRING
    BY <2>1, <2>2
  <2> QED BY <2>2, <2>3, <2>4
<1> DEFINE first(key) == SelectInSeq(keys, LAMBDA k : k = key)
<1>3. \A key \in Range(keys) : first(key) \in DOMAIN keys /\ keys[first(key)] = key
  BY <1>2, FirstValue
<1>4. "_labels" \notin Range(keys)
  BY <1>2 DEF ElementEncodable, Range
<1> HIDE DEF first
<1>5. EncodedElement(element) = [key \in {"_labels"} \cup Range(keys) |->
                                   IF key = "_labels" THEN element.labels
                                   ELSE Encoded(element.properties[first(key)].value)]
  BY DEF EncodedElement, first
<1>6. /\ DOMAIN EncodedElement(element) = {"_labels"} \cup Range(keys)
      /\ EncodedElement(element)["_labels"] = element.labels
      /\ \A key \in Range(keys) : EncodedElement(element)[key] = Encoded(element.properties[first(key)].value)
  BY <1>4, <1>5
<1> QED BY <1>2, <1>3, <1>4, <1>6

-----------------------------------------------------------------------------
(* Calls *)

\* The clause and the function a call was made from.
LEMMA CallForms ==
  ASSUME plan = linklet_bind, IsCall
  PROVE  \/ /\ Has("insert") /\ ~Has("match")
            /\ plan = bind_insert_node(First("insert")) /\ plan.code = "insert_node"
         \/ /\ Has("insert") /\ Has("match")
            /\ plan = bind_insert_edge(First("match"), First("insert")) /\ plan.code = "insert_edge"
         \/ /\ Has("match") /\ Has("set")
            /\ plan = bind_update(First("set")) /\ plan.code = "update"
         \/ /\ Has("match") /\ ~Has("set") /\ Has("delete")
            /\ plan = bind_delete(First("delete")) /\ plan.code = "delete"
         \/ /\ Has("match") /\ ~Has("set") /\ ~Has("delete")
            /\ plan = bind_match /\ plan.code \in {"match", "reachability"}
<1> USE DEF IsCall
<1>1. CASE Has("insert") /\ ~Has("match")
  <2>1. plan = bind_insert_node(First("insert"))
    BY <1>1 DEF linklet_bind
  <2> QED BY <1>1, <2>1 DEF bind_insert_node
<1>2. CASE Has("insert") /\ Has("match")
  <2>1. plan = bind_insert_edge(First("match"), First("insert"))
    BY <1>2 DEF linklet_bind
  <2> QED BY <1>2, <2>1 DEF bind_insert_edge
<1>3. CASE ~Has("insert") /\ ~Has("match")
  BY <1>3 DEF linklet_bind
<1>4. CASE ~Has("insert") /\ Has("match") /\ Has("set")
  <2>1. plan = bind_update(First("set"))
    BY <1>4 DEF linklet_bind
  <2> QED BY <1>4, <2>1 DEF bind_update
<1>5. CASE ~Has("insert") /\ Has("match") /\ ~Has("set") /\ Has("delete")
  <2>1. plan = bind_delete(First("delete"))
    BY <1>5 DEF linklet_bind
  <2> QED BY <1>5, <2>1 DEF bind_delete
<1>6. CASE ~Has("insert") /\ Has("match") /\ ~Has("set") /\ ~Has("delete")
  <2>1. plan = bind_match
    BY <1>6 DEF linklet_bind
  <2> QED BY <1>6, <2>1 DEF bind_match, bind_reachability
<1> QED BY <1>1, <1>2, <1>3, <1>4, <1>5, <1>6

\* The inductive invariant: a plan is what linklet_bind makes of the statement.
BInv == statement \in Statements /\ plan \in {Unbound, linklet_bind}

\* Binding depends on the statement only.
LEMMA BindingIsPure ==
  ASSUME statement' = statement
  PROVE  linklet_bind' = linklet_bind
<1>1. /\ Has("insert")' = Has("insert") /\ Has("match")' = Has("match") /\ Has("set")' = Has("set")
      /\ Has("delete")' = Has("delete") /\ Has("return")' = Has("return")
  BY DEF Has
<1>2. /\ First("insert")' = First("insert") /\ First("match")' = First("match")
      /\ First("set")' = First("set") /\ First("delete")' = First("delete")
      /\ First("return")' = First("return")
  BY DEF First, SelectInSeq
<1>3. MatchPath' = MatchPath /\ Returned' = Returned
  BY <1>1, <1>2 DEF MatchPath, Returned
<1>4. ReturnsBinding' = ReturnsBinding
  BY <1>3 DEF ReturnsBinding
<1>5. bind_match' = bind_match
  BY <1>3, <1>4 DEF bind_match, bind_reachability
<1>6. /\ bind_insert_node(First("insert"))' = bind_insert_node(First("insert"))
      /\ bind_insert_edge(First("match"), First("insert"))'
           = bind_insert_edge(First("match"), First("insert"))
      /\ bind_update(First("set"))' = bind_update(First("set"))
      /\ bind_delete(First("delete"))' = bind_delete(First("delete"))
  BY <1>2, <1>3 DEF bind_insert_node, bind_insert_edge, bind_update, bind_delete
<1> QED BY <1>1, <1>5, <1>6 DEF linklet_bind

\* A plan is what linklet_bind makes of its statement, in every state.
THEOREM BinderInvariance == Spec => []BInv
<1>1. Init => BInv
  BY DEF Init, BInv
<1>2. BInv /\ [Next]_vars => BInv'
  <2> SUFFICES ASSUME BInv, [Next]_vars PROVE BInv'
    OBVIOUS
  <2>1. statement' = statement
    BY DEF Next, Bind, vars
  <2> QED BY <2>1, BindingIsPure DEF BInv, Next, Bind, vars
<1> QED BY <1>1, <1>2, PTL DEF Spec

\* The clauses of a statement have the form the parser gives them.
LEMMA ClauseShapes ==
  ASSUME statement \in Statements
  PROVE  /\ Has("match") => First("match").paths \in Seq(Seq(Elements))
         /\ Has("insert") => First("insert").paths \in Seq(Seq(Elements))
         /\ Has("set") => First("set").items \in Seq(Items)
BY FirstIsOne, StatementsAssumption

\* A path whose pattern is readable is the only path of its MATCH.
LEMMA ReadablePath ==
  ASSUME statement \in Statements, Has("match"), PatternReadable(MatchPath)
  PROVE  /\ MatchPath \in Seq(Elements) /\ MatchPath = Path
         /\ MatchPath \in Range(First("match").paths)
<1>1. MatchPath # <<>>
  BY DEF PatternReadable
<1>2. Len(First("match").paths) = 1 /\ MatchPath = First("match").paths[1]
  BY <1>1 DEF MatchPath
<1>3. First("match").paths \in Seq(Seq(Elements))
  BY ClauseShapes
<1>4. 1 \in DOMAIN First("match").paths
  BY <1>2, <1>3
<1> QED BY <1>2, <1>3, <1>4 DEF Path, Range

-----------------------------------------------------------------------------
(* What a MATCH means *)

\* A call that selects has the pattern of the path of its MATCH, and the target that the
\* statement names.
LEMMA SelectingCalls ==
  ASSUME statement \in Statements, plan = linklet_bind, IsCall,
         plan.code \in {"match", "update", "delete"}
  PROVE  /\ Has("match") /\ PatternReadable(MatchPath)
         /\ plan.pattern = Pattern(MatchPath, TargetName)
         /\ \E element \in Range(MatchPath) : element.name = TargetName
<1> USE DEF IsCall
<1>1. CASE Has("match") /\ Has("set") /\ plan = bind_update(First("set"))
  <2> PICK target : target = First("set").items[1].target
    OBVIOUS
  <2>1. /\ PatternReadable(MatchPath) /\ TargetBound(<<target>>, MatchPath)
        /\ plan.pattern = Pattern(MatchPath, target)
    BY <1>1 DEF bind_update
  <2>2. TargetName = target
    BY <1>1 DEF TargetName
  <2> QED BY <1>1, <2>1, <2>2 DEF TargetBound
<1>2. CASE Has("match") /\ ~Has("set") /\ Has("delete") /\ plan = bind_delete(First("delete"))
  <2>1. /\ PatternReadable(MatchPath) /\ TargetBound(First("delete").targets, MatchPath)
        /\ plan.pattern = Pattern(MatchPath, First("delete").targets[1])
    BY <1>2 DEF bind_delete
  <2>2. TargetName = First("delete").targets[1]
    BY <1>2 DEF TargetName
  <2> QED BY <1>2, <2>1, <2>2 DEF TargetBound
<1>3. CASE Has("match") /\ ~Has("set") /\ ~Has("delete") /\ plan = bind_match
  <2>1. plan.code = "match"
    BY <1>3 DEF bind_match, bind_reachability
  <2>2. /\ PatternReadable(MatchPath) /\ TargetBound(Returned, MatchPath)
        /\ plan.pattern = Pattern(MatchPath, Returned[1])
    BY <1>3, <2>1 DEF bind_match, bind_reachability
  <2>3. TargetName = Returned[1]
    BY <1>3 DEF TargetName
  <2> QED BY <1>3, <2>2, <2>3 DEF TargetBound
<1> QED BY <1>1, <1>2, <1>3, CallForms

\* MATCH, SET and DELETE select what the path of the statement describes, for every
\* statement and every graph: nothing is missed, and nothing else is returned, changed or
\* deleted.
THEOREM MatchesMeanTheirPaths == Spec => []MatchMeansPattern
<1>1. BInv => MatchMeansPattern
  <2> SUFFICES ASSUME BInv, IsCall, InFull, plan.code \in {"match", "update", "delete"}
               PROVE  MatchMeansPattern
    BY DEF MatchMeansPattern
  <2>1. plan = linklet_bind /\ statement \in Statements
    BY DEF BInv, IsCall
  <2> PICK path, target : path = MatchPath /\ target = TargetName
    OBVIOUS
  <2>2. /\ Has("match") /\ PatternReadable(path) /\ plan.pattern = Pattern(path, target)
        /\ \E element \in Range(path) : element.name = target
    BY <2>1, SelectingCalls
  <2>3. path \in Seq(Elements) /\ path = Path /\ path \in Range(First("match").paths)
    BY <2>1, <2>2, ReadablePath
  <2>4. \A element \in Range(path) : "_labels" \notin Range(PropertyKeys(element))
    BY <2>2, <2>3 DEF InFull
  <2>5. /\ ResultKind(Pattern(path, target)) = path[Position(path, target)].kind
        /\ \A id : CountsAgree(path, Pattern(path, target), Position(path, target), id)
    BY <2>2, <2>3, <2>4, PatternCounts
  <2>6. /\ ResultKind(plan.pattern) = Path[Position(Path, TargetName)].kind
        /\ \A id : CountsAgree(Path, plan.pattern, Position(Path, TargetName), id)
    BY <2>2, <2>3, <2>5
  <2> QED BY <2>6 DEF MatchMeansPattern, CountsAgree
<1> QED BY <1>1, BinderInvariance, PTL

-----------------------------------------------------------------------------
(* What an INSERT means *)

\* An encoded element is described by what it was encoded from.
LEMMA EncodedIsDescribed ==
  ASSUME NEW element \in Elements, ElementEncodable(element), IsInjective(PropertyKeys(element)), NEW id
  PROVE  Describes([element EXCEPT !.labels = <<>>], id, EncodedElement(element))
<1> PICK bare : bare = [element EXCEPT !.labels = <<>>]
  OBVIOUS
<1>1. bare.labels = <<>> /\ bare.properties = element.properties
  BY DEF Elements
<1>2. \A property \in Range(element.properties) : property.key \notin IdKeys
  BY DEF ElementEncodable
<1>3. ASSUME NEW i \in DOMAIN element.properties
      PROVE  /\ element.properties[i].key \in DOMAIN EncodedElement(element)
             /\ EncodedElement(element)[element.properties[i].key] = Encoded(element.properties[i].value)
  <2> PICK key : key = element.properties[i].key
    OBVIOUS
  <2>1. key \in Range(PropertyKeys(element))
    BY DEF PropertyKeys, Range
  <2>2. PICK j \in DOMAIN element.properties :
          /\ element.properties[j].key = key
          /\ EncodedElement(element)[key] = Encoded(element.properties[j].value)
    BY <2>1, ElementEncoded
  <2>3. i = j
    BY <2>2 DEF IsInjective, PropertyKeys
  <2>4. key \in DOMAIN EncodedElement(element)
    BY <2>1, ElementEncoded
  <2> QED BY <2>2, <2>3, <2>4
<1>4. \A property \in Range(element.properties) :
        /\ property.key \in DOMAIN EncodedElement(element)
        /\ EncodedElement(element)[property.key] = Encoded(property.value)
  BY <1>3 DEF Range
<1>5. Range(<<>>) = {}
  BY DEF Range
<1> QED BY <1>1, <1>2, <1>4, <1>5 DEF Describes

\* The edge of a path.
LEMMA MiddleElement ==
  ASSUME NEW path \in Seq(Elements), Len(path) = 3
  PROVE  path[2] \in Elements /\ path[(Len(path) + 1) \div 2] = path[2]
<1>1. path[2] \in Elements
  <2>1. path \in [1 .. Len(path) -> Elements]
    OBVIOUS
  <2> QED BY <2>1
<1>2. \A n \in Nat : n = 2 * 2 => n \div 2 = 2
  OBVIOUS
<1>3. 3 + 1 \in Nat /\ 3 + 1 = 2 * 2
  OBVIOUS
<1>4. (3 + 1) \div 2 = 2
  BY ONLY <1>2, <1>3, Zenon
<1> QED BY <1>1, <1>4

\* The endpoints of an inserted edge lie as its arrow points.
LEMMA EndpointsJoin ==
  ASSUME NEW direction \in {"right", "left"}, NEW left, NEW right
  PROVE  Joins(direction, left, Endpoints(direction, left, right), right)
BY DEF Joins, Endpoints

\* resolve_binding finds the only binding of a name.
LEMMA BindingResolved ==
  ASSUME NEW paths \in Seq(Seq(Elements)), Len(paths) = 2, paths[1][1].name # paths[2][1].name,
         First("match").paths = paths, NEW name, Bound(First("match"), name)
  PROVE  resolve_binding(First("match"), name) = IdFor(name)
<1> PICK bound : bound = First("match")
  OBVIOUS
<1> DEFINE I == {i \in 1 .. Len(paths) : paths[i][1].name = name}
<1>1. I \in SUBSET Nat /\ I # {}
  <2>1. Bound(bound, name) /\ bound.paths = paths
    OBVIOUS
  <2>2. PICK path \in Range(paths) : path[1].name = name
    BY <2>1 DEF Bound
  <2>3. PICK i \in DOMAIN paths : path = paths[i]
    BY DEF Range
  <2>4. i \in I
    BY <2>2, <2>3
  <2> QED BY <2>4
<1>2. Min(I) \in I
  BY <1>1, MinIsLeast
<1> PICK i : i = Min(I)
  OBVIOUS
<1>3. i \in 1 .. 2 /\ paths[i][1].name = name
  BY <1>2
<1>4. resolve_binding(bound, name) = IdOf(paths[i][1])
  <2>1. bound.paths = paths
    OBVIOUS
  <2> QED BY <1>1, <2>1 DEF resolve_binding, SelectInSeq
<1>5. Range(paths) = {paths[1], paths[2]}
  BY DEF Range
<1>6. \A path \in Range(paths) : path[1].name = name <=> path = paths[i]
  BY <1>3, <1>5
<1>7. paths[i] \in Range(paths)
  BY <1>3, <1>5
<1>8. (CHOOSE path \in Range(paths) : path[1].name = name) = paths[i]
  <2> PICK found : found = CHOOSE path \in Range(paths) : path[1].name = name
    OBVIOUS
  <2>1. found \in Range(paths) /\ found[1].name = name
    BY <1>6, <1>7
  <2> QED BY <1>6, <2>1
<1> QED BY <1>4, <1>8 DEF IdOf, IdFor

\* An INSERT inserts the element that it describes, and an edge runs from the node that
\* MATCH binds at the tail of its arrow to the one at its head, for every statement.
THEOREM InsertsMeanTheirPatterns == Spec => []InsertMeansPattern
<1>1. BInv => InsertMeansPattern
  <2> SUFFICES ASSUME BInv, IsCall, plan.code \in {"insert_node", "insert_edge"}
               PROVE  InsertMeansPattern
    BY DEF InsertMeansPattern
  <2>1. plan = linklet_bind /\ statement \in Statements
    BY DEF BInv, IsCall
  <2> PICK insert, bound : insert = First("insert") /\ bound = First("match")
    OBVIOUS
  <2> PICK path : path = insert.paths[1]
    OBVIOUS
  <2> DEFINE element == path[(Len(path) + 1) \div 2]
  <2>2. CASE ~Has("match") /\ Has("insert") /\ plan = bind_insert_node(insert)
    <3>1. /\ Len(insert.paths) = 1 /\ Len(path) = 1 /\ ElementEncodable(path[1])
          /\ plan.payload = EncodedElement(path[1]) /\ plan.code = "insert_node"
      BY <2>2 DEF bind_insert_node, IsCall
    <3>2. insert.paths \in Seq(Seq(Elements))
      BY <2>1, <2>2, ClauseShapes
    <3>3. path \in Seq(Elements)
      BY <3>1, <3>2
    <3>4. path[1] \in Elements /\ element = path[1]
      BY <3>1, <3>3
    <3> HIDE DEF element
    <3>5. plan.payload["_labels"] = element.labels
      BY <3>1, <3>4, ElementEncoded
    <3>6. IsInjective(PropertyKeys(element)) =>
            Describes([element EXCEPT !.labels = <<>>], Absent, plan.payload)
      BY <3>1, <3>4, EncodedIsDescribed
    <3> QED BY <3>1, <3>5, <3>6 DEF InsertMeansPattern, element
  <2>3. CASE Has("match") /\ Has("insert") /\ plan = bind_insert_edge(bound, insert)
    <3>1. /\ EdgeInsertable(bound, insert) /\ plan.payload = EncodedElement(path[2])
          /\ plan.endpoints = Endpoints(path[2].direction, resolve_binding(bound, path[1].name),
                                        resolve_binding(bound, path[3].name))
      BY <2>3 DEF bind_insert_edge, IsCall
    <3> PICK paths : paths = bound.paths
      OBVIOUS
    <3>p. Len(paths) = 2 /\ paths[1][1].name # paths[2][1].name
      BY <3>1 DEF EdgeInsertable
    <3>l. Len(insert.paths) = 1 /\ Len(path) = 3
      BY <3>1 DEF EdgeInsertable
    <3>2. ElementEncodable(path[2]) /\ path[2].direction \in {"right", "left"}
      BY <3>1 DEF EdgeInsertable, Directed
    <3>b. Bound(bound, path[1].name) /\ Bound(bound, path[3].name)
      BY <3>1 DEF EdgeInsertable
    <3>3. insert.paths \in Seq(Seq(Elements)) /\ paths \in Seq(Seq(Elements))
      BY <2>1, <2>3, ClauseShapes
    <3>4. path \in Seq(Elements)
      BY <3>l, <3>3
    <3>5. path[2] \in Elements /\ element = path[2]
      BY <3>l, <3>4, MiddleElement
    <3>6. /\ resolve_binding(bound, path[1].name) = IdFor(path[1].name)
          /\ resolve_binding(bound, path[3].name) = IdFor(path[3].name)
      BY <3>b, <3>p, <3>3, BindingResolved
    <3>7. Joins(path[2].direction, IdFor(path[1].name), plan.endpoints, IdFor(path[3].name))
      BY <3>1, <3>2, <3>6, EndpointsJoin
    <3> HIDE DEF element
    <3>8. plan.payload["_labels"] = element.labels
      BY <3>1, <3>2, <3>5, ElementEncoded
    <3>9. IsInjective(PropertyKeys(element)) =>
            Describes([element EXCEPT !.labels = <<>>], Absent, plan.payload)
      BY <3>1, <3>2, <3>5, EncodedIsDescribed
    <3> QED BY <3>7, <3>8, <3>9 DEF InsertMeansPattern, element
  <2> QED BY <2>1, <2>2, <2>3, CallForms
<1> QED BY <1>1, BinderInvariance, PTL

-----------------------------------------------------------------------------
(* Types *)

\* The documents of SET hold encoded literals under keys that SET may change.
LEMMA SetEncoded ==
  ASSUME NEW set, set.items \in Seq(Items), Assignable(set)
  PROVE  \A key \in DOMAIN AssignedValues(set) :
           /\ key \notin IdKeys \cup {"_labels"}
           /\ AssignedValues(set)[key].kind = "int32" => AssignedValues(set)[key].value <= INT32_MAX
           /\ AssignedValues(set)[key] # Literal("boolean", UNKNOWN)
<1> SUFFICES ASSUME NEW key \in Range(AssignedKeys(set))
             PROVE  /\ key \notin IdKeys \cup {"_labels"}
                    /\ AssignedValues(set)[key].kind = "int32" => AssignedValues(set)[key].value <= INT32_MAX
                    /\ AssignedValues(set)[key] # Literal("boolean", UNKNOWN)
  BY DEF AssignedValues
<1> PICK keys : keys = AssignedKeys(set)
  OBVIOUS
<1>1. \A item \in Items : item.key \in STRING /\ item.value \in Literals
  BY DEF Items
<1>2. /\ keys \in Seq(STRING) /\ DOMAIN keys = DOMAIN set.items
      /\ \A i \in DOMAIN keys : keys[i] = set.items[i].key
  BY <1>1 DEF AssignedKeys
<1> DEFINE first == SelectInSeq(keys, LAMBDA k : k = key)
<1>3. first \in DOMAIN keys /\ keys[first] = key
  BY <1>2, FirstValue
<1>4. AssignedValues(set)[key] = Encoded(set.items[first].value)
  BY DEF AssignedValues
<1> HIDE DEF first
<1>5. set.items[first] \in Range(set.items) /\ set.items[first] \in Items
  BY <1>2, <1>3 DEF Range
<1>6. key \notin IdKeys \cup {"_labels"} /\ Encodable(set.items[first].value)
  BY <1>2, <1>3, <1>5 DEF Assignable
<1> QED BY <1>1, <1>4, <1>5, <1>6, LiteralEncoded

\* What linklet_bind makes of any statement is a call the executor takes.
THEOREM BinderTypeCorrectness == Spec => []TypeOK
<1>1. BInv => TypeOK
  <2> SUFFICES ASSUME BInv, IsCall
               PROVE  TypeOK
    BY DEF TypeOK
  <2>1. plan = linklet_bind /\ statement \in Statements
    BY DEF BInv, IsCall
  <2>2. ASSUME NEW element \in Elements, ElementEncodable(element),
               plan.code \in {"insert_node", "insert_edge"}, plan.payload = EncodedElement(element)
        PROVE  TypeOK
    <3>1. /\ DOMAIN plan.payload = {"_labels"} \cup Range(PropertyKeys(element))
          /\ plan.payload["_labels"] \in Seq(STRING)
      BY <2>2, ElementEncoded DEF Elements
    <3>2. ASSUME NEW key \in DOMAIN plan.payload \ {"_labels"}
          PROVE  /\ key \notin IdKeys
                 /\ plan.payload[key].kind = "int32" => plan.payload[key].value <= INT32_MAX
                 /\ plan.payload[key] # Literal("boolean", UNKNOWN)
      <4>1. PICK i \in DOMAIN element.properties :
              /\ element.properties[i].key = key
              /\ plan.payload[key] = Encoded(element.properties[i].value)
        <5>1. key \in Range(PropertyKeys(element))
          BY <3>1
        <5>2. \E i \in DOMAIN element.properties :
                /\ element.properties[i].key = key
                /\ EncodedElement(element)[key] = Encoded(element.properties[i].value)
          BY <2>2, <5>1, ElementEncoded
        <5> QED BY <2>2, <5>2
      <4>2. element.properties[i] \in Range(element.properties)
        BY DEF Range
      <4>3. key \notin IdKeys /\ Encodable(element.properties[i].value)
        BY <2>2, <4>1, <4>2 DEF ElementEncodable
      <4>4. element.properties[i].value \in Literals
        <5> DEFINE P == [key : STRING, value : Literals]
        <5>1. \A p \in P : p.value \in Literals
          OBVIOUS
        <5>2. element.properties \in Seq(P)
          BY DEF Elements
        <5> HIDE DEF P
        <5> QED BY <5>1, <5>2
      <4> QED BY <4>1, <4>3, <4>4, LiteralEncoded
    <3> QED BY <2>2, <3>1, <3>2 DEF TypeOK
  <2>3. CASE Has("insert") /\ plan = bind_insert_node(First("insert"))
    <3> PICK paths : paths = First("insert").paths
      OBVIOUS
    <3>1. /\ Len(paths) = 1 /\ Len(paths[1]) = 1 /\ ElementEncodable(paths[1][1])
          /\ plan.payload = EncodedElement(paths[1][1]) /\ plan.code = "insert_node"
      BY <2>3 DEF bind_insert_node, IsCall
    <3>2. paths \in Seq(Seq(Elements))
      BY <2>1, <2>3, ClauseShapes
    <3>3. paths[1] \in Seq(Elements)
      BY <3>1, <3>2
    <3>4. paths[1][1] \in Elements
      BY <3>1, <3>3
    <3> QED BY <2>2, <3>1, <3>4
  <2>4. CASE Has("insert") /\ plan = bind_insert_edge(First("match"), First("insert"))
    <3> PICK paths : paths = First("insert").paths
      OBVIOUS
    <3>1. /\ EdgeInsertable(First("match"), First("insert"))
          /\ plan.payload = EncodedElement(paths[1][2]) /\ plan.code = "insert_edge"
      BY <2>4 DEF bind_insert_edge, IsCall
    <3>2. Len(paths) = 1 /\ Len(paths[1]) = 3 /\ ElementEncodable(paths[1][2])
      BY <3>1 DEF EdgeInsertable
    <3>3. paths \in Seq(Seq(Elements))
      BY <2>1, <2>4, ClauseShapes
    <3>4. paths[1] \in Seq(Elements)
      BY <3>2, <3>3
    <3>5. paths[1][2] \in Elements
      BY <3>2, <3>4
    <3> QED BY <2>2, <3>1, <3>2, <3>5
  <2>5. CASE Has("set") /\ plan = bind_update(First("set"))
    <3>1. /\ Assignable(First("set")) /\ plan.payload = AssignedValues(First("set"))
          /\ plan.code = "update"
      BY <2>5 DEF bind_update, IsCall
    <3>2. First("set").items \in Seq(Items)
      BY <2>1, <2>5, ClauseShapes
    <3> QED BY <3>1, <3>2, SetEncoded DEF TypeOK
  <2>6. CASE plan = bind_delete(First("delete"))
    <3>1. /\ plan.code = "delete"
          /\ plan.detach => ResultKind(plan.pattern) = "node"
      BY <2>6 DEF bind_delete, IsCall
    <3> QED BY <3>1 DEF TypeOK
  <2>7. CASE Has("match") /\ plan = bind_match
    <3>1. CASE plan.code = "match"
      BY <3>1 DEF TypeOK
    <3>2. CASE plan.code # "match"
      <4>1. /\ MatchPath # <<>> /\ plan.code = "reachability" /\ BoundedEdge(MatchPath[2])
            /\ IsQuantified(MatchPath) /\ plan.max_hops = MatchPath[2].quantifier[2]
        BY <2>7, <3>2 DEF bind_match, bind_reachability, IsCall
      <4>2. Len(First("match").paths) = 1 /\ MatchPath = First("match").paths[1]
        BY <4>1 DEF MatchPath
      <4>3. First("match").paths \in Seq(Seq(Elements))
        BY <2>1, <2>7, ClauseShapes
      <4>4. MatchPath \in Seq(Elements)
        BY <4>2, <4>3
      <4>5. MatchPath[2] \in Elements
        <5>1. Len(MatchPath) = 3
          BY <4>1 DEF IsQuantified
        <5>2. 2 \in DOMAIN MatchPath
          BY <4>4, <5>1
        <5> QED BY <4>4, <5>2
      <4>6. MatchPath[2].quantifier \in Seq(Nat) /\ Len(MatchPath[2].quantifier) = 2
            /\ MatchPath[2].quantifier[2] # 0
        BY <4>1, <4>5 DEF BoundedEdge, Elements
      <4>7. plan.max_hops >= 1
        BY <4>1, <4>6
      <4> QED BY <4>1, <4>7 DEF TypeOK
    <3> QED BY <3>1, <3>2
  <2> QED BY <2>1, <2>3, <2>4, <2>5, <2>6, <2>7, CallForms
<1> QED BY <1>1, BinderInvariance, PTL

-----------------------------------------------------------------------------
(* Reachability: the answer of the bounded search for every graph and every bound *)

CallDomains ==
  /\ vertex_count \in Nat /\ source_id \in Nat /\ destination_id \in Nat /\ max_hops \in Nat
  /\ edges \in Seq([source : Vertices, destination : Vertices] \cup {Tombstone})
  /\ reverse \in BOOLEAN

\* The ends of the walks one edge longer than k.
Successors(S) == {v \in Vertices : \E u \in S : Step(u, v)}

\* What the turns of the edge loop so far have put into next_frontier.
Scanned ==
  {v \in Vertices : \E i \in 1 .. edge_index - 1 : Follows(edges[i]) /\ To(edges[i]) = v}

\* The loops in progress: the strengthening that makes the answer inductive.
LoopInv ==
  pc = "scan" =>
    /\ source_id \in Vertices /\ destination_id \in Vertices
    /\ hop < max_hops
    /\ frontier = WalkEnds(hop)
    /\ next_frontier = Scanned
    /\ \A k \in 1 .. hop : destination_id \notin WalkEnds(k)

ProofInv == SearchTypeOK /\ LoopInv /\ AnswersReachability

-----------------------------------------------------------------------------
(* Walks *)

\* The only walk of no edges stays at the source.
LEMMA NoEdges ==
  ASSUME source_id \in Vertices
  PROVE  WalkEnds(0) = {source_id}
<1> DEFINE w == [i \in 0 .. 0 |-> source_id]
<1>1. w \in [0 .. 0 -> Vertices] /\ w[0] = source_id  OBVIOUS
<1>2. IsWalk(w, 0, source_id)  BY <1>1 DEF IsWalk
<1>3. source_id \in WalkEnds(0)  BY <1>1, <1>2 DEF WalkEnds
<1>4. \A v \in WalkEnds(0) : v = source_id  BY DEF WalkEnds, IsWalk
<1> QED  BY <1>3, <1>4

\* A walk of k + 1 edges is a walk of k edges and one more.
LEMMA OneMoreEdge ==
  ASSUME NEW k \in Nat
  PROVE  WalkEnds(k + 1) = Successors(WalkEnds(k))
<1>1. ASSUME NEW v \in WalkEnds(k + 1)
      PROVE  v \in Successors(WalkEnds(k))
  <2>1. PICK w \in [0 .. k + 1 -> Vertices] : IsWalk(w, k + 1, v)  BY <1>1 DEF WalkEnds
  <2> DEFINE p == [i \in 0 .. k |-> w[i]]
  <2>2. p \in [0 .. k -> Vertices]  BY <2>1
  <2>3. /\ \A i \in 0 .. k : p[i] = w[i]
        /\ 0 \in 0 .. k /\ k \in 0 .. k
        /\ \A i \in 0 .. k - 1 : i \in 0 .. k /\ i + 1 \in 0 .. k /\ i \in 0 .. (k + 1) - 1
    OBVIOUS
  <2>4. IsWalk(p, k, w[k])  BY <2>1, <2>3 DEF IsWalk
  <2>5. w[k] \in WalkEnds(k)  BY <2>1, <2>2, <2>4 DEF WalkEnds
  <2>6. Step(w[k], v)
    <3>1. k \in 0 .. (k + 1) - 1  OBVIOUS
    <3> QED  BY <2>1, <3>1 DEF IsWalk
  <2>7. v \in Vertices  BY <1>1 DEF WalkEnds
  <2> QED  BY <2>5, <2>6, <2>7 DEF Successors
<1>2. ASSUME NEW v \in Successors(WalkEnds(k))
      PROVE  v \in WalkEnds(k + 1)
  <2>1. PICK u \in WalkEnds(k) : Step(u, v)  BY <1>2 DEF Successors
  <2>2. PICK w \in [0 .. k -> Vertices] : IsWalk(w, k, u)  BY <2>1 DEF WalkEnds
  <2>3. v \in Vertices  BY <1>2 DEF Successors
  <2> DEFINE x == [i \in 0 .. k + 1 |-> IF i = k + 1 THEN v ELSE w[i]]
  <2>4. x \in [0 .. k + 1 -> Vertices]  BY <2>2, <2>3
  <2>5. /\ \A i \in 0 .. k : x[i] = w[i]
        /\ x[k + 1] = v
        /\ 0 \in 0 .. k
    OBVIOUS
  <2>6. ASSUME NEW i \in 0 .. (k + 1) - 1
        PROVE  Step(x[i], x[i + 1])
    <3>1. CASE i = k
      <4>1. x[i] = u /\ x[i + 1] = v  BY <2>2, <2>5, <3>1 DEF IsWalk
      <4> QED  BY <2>1, <4>1
    <3>2. CASE i # k
      <4>1. i \in 0 .. k - 1 /\ i \in 0 .. k /\ i + 1 \in 0 .. k  BY <3>2
      <4>2. x[i] = w[i] /\ x[i + 1] = w[i + 1]  BY <2>5, <4>1
      <4>3. Step(w[i], w[i + 1])  BY <2>2, <4>1 DEF IsWalk
      <4> QED  BY <4>2, <4>3
    <3> QED  BY <3>1, <3>2
  <2>7. IsWalk(x, k + 1, v)
    <3>1. x[0] = source_id  BY <2>2, <2>5 DEF IsWalk
    <3> QED  BY <2>5, <2>6, <3>1 DEF IsWalk
  <2> QED  BY <2>3, <2>4, <2>7 DEF WalkEnds
<1> QED  BY <1>1, <1>2 DEF Successors, WalkEnds

\* When no walk has k edges, no longer walk exists.
LEMMA NoLongerWalk ==
  ASSUME NEW k \in Nat, NEW m \in Nat, k <= m, WalkEnds(k) = {}
  PROVE  WalkEnds(m) = {}
<1> SUFFICES ASSUME NEW v \in WalkEnds(m)
             PROVE  FALSE
  OBVIOUS
<1>1. PICK w \in [0 .. m -> Vertices] : IsWalk(w, m, v)  BY DEF WalkEnds
<1> DEFINE p == [i \in 0 .. k |-> w[i]]
<1>2. p \in [0 .. k -> Vertices] /\ w[k] \in Vertices  BY <1>1
<1>3. /\ \A i \in 0 .. k : p[i] = w[i]
      /\ 0 \in 0 .. k /\ k \in 0 .. k
      /\ \A i \in 0 .. k - 1 : i \in 0 .. k /\ i + 1 \in 0 .. k /\ i \in 0 .. m - 1
  OBVIOUS
<1>4. IsWalk(p, k, w[k])  BY <1>1, <1>3 DEF IsWalk
<1> QED  BY <1>2, <1>4 DEF WalkEnds

\* A scan of all records finds every edge that leaves the frontier.
LEMMA FullScan ==
  ASSUME CallDomains, edge_index = Len(edges) + 1
  PROVE  Scanned = Successors(frontier)
<1>1. 1 .. edge_index - 1 = DOMAIN edges  BY DEF CallDomains
<1> QED  BY <1>1 DEF Scanned, Successors, Step, Follows

\* The endpoints of a record that is not a tombstone are vertices.
LEMMA RecordsJoinVertices ==
  ASSUME CallDomains, NEW i \in 1 .. Len(edges), edges[i] # Tombstone
  PROVE  From(edges[i]) \in Vertices /\ To(edges[i]) \in Vertices
<1>1. edges[i] \in [source : Vertices, destination : Vertices] \cup {Tombstone}
  BY DEF CallDomains
<1>2. edges[i].source \in Vertices /\ edges[i].destination \in Vertices  BY <1>1
<1> QED  BY <1>2 DEF From, To

-----------------------------------------------------------------------------
(* The invariant *)

\* The call begins before any buffer is filled.
LEMMA ReachInitial == SearchInit => ProofInv
<1> SUFFICES ASSUME SearchInit
             PROVE  ProofInv
  OBVIOUS
<1> DEFINE E == [source : Vertices, destination : Vertices] \cup {Tombstone}
<1>1. PICK n \in 0 .. MAX_EDGES : edges \in [1 .. n -> E]  BY DEF SearchInit
<1>2. n \in Nat  BY <1>1, BoundsAssumption
<1>3. edges \in Seq(E)  BY <1>1, <1>2
<1>4. vertex_count \in Nat /\ source_id \in Nat /\ destination_id \in Nat /\ max_hops \in Nat
  BY BoundsAssumption DEF SearchInit
<1>5. edge_index \in 1 .. Len(edges) + 1  BY <1>3 DEF SearchInit
<1>6. SearchTypeOK  BY <1>3, <1>4, <1>5 DEF SearchInit, SearchTypeOK
<1> QED  BY <1>6 DEF ProofInv, LoopInv, AnswersReachability, SearchInit

\* The operators of a call keep their values while the call is unchanged.
LEMMA CallUnchanged ==
  ASSUME UNCHANGED call
  PROVE  /\ Vertices' = Vertices
         /\ \A k \in Nat : WalkEnds(k)' = WalkEnds(k)
BY DEF call, Vertices, WalkEnds, IsWalk, Step, From, To, Tombstone

\* A refusal answers neither true nor false.
LEMMA ReachAdvise == ProofInv /\ Advise => ProofInv'
<1> SUFFICES ASSUME ProofInv, Advise
             PROVE  ProofInv'
  OBVIOUS
<1>1. UNCHANGED call /\ pc' = "done" /\ result' = "error"  BY DEF Advise, Return
<1>2. SearchTypeOK'
  BY <1>1, CallUnchanged DEF ProofInv, SearchTypeOK, Advise, Return, call, Tombstone
<1> QED  BY <1>1, <1>2 DEF ProofInv, LoopInv, AnswersReachability

\* The first frontier is the source, the end of the walk of no edges.
LEMMA ReachStart == ProofInv /\ Start => ProofInv'
<1> SUFFICES ASSUME ProofInv, Start
             PROVE  ProofInv'
  OBVIOUS
<1>0. UNCHANGED call  BY DEF Start, Return
<1>1. Vertices' = Vertices /\ \A k \in Nat : WalkEnds(k)' = WalkEnds(k)
  BY <1>0, CallUnchanged
<1>2. source_id \in Vertices /\ destination_id \in Vertices
  BY DEF ProofInv, SearchTypeOK, Start, OutsideDomain, Vertices
<1>3. CASE max_hops = 0
  <2>1. pc' = "done" /\ result' = "false" /\ max_hops' = 0  BY <1>0, <1>3 DEF Start, Return, call
  <2>2. SearchTypeOK'  BY <1>0, <1>1, <1>3 DEF ProofInv, SearchTypeOK, Start, Return, call, Tombstone
  <2>3. AnswersReachability'  BY <2>1 DEF AnswersReachability
  <2> QED  BY <2>1, <2>2, <2>3 DEF ProofInv, LoopInv
<1>4. CASE max_hops # 0
  <2>1. /\ frontier' = {source_id} /\ next_frontier' = {} /\ hop' = 0 /\ edge_index' = 1
        /\ pc' = "scan" /\ result' = result
    BY <1>4 DEF Start
  <2>2. SearchTypeOK'
    BY <1>0, <1>1, <1>2, <2>1 DEF ProofInv, SearchTypeOK, call, Tombstone
  <2>3. WalkEnds(0)' = {source_id}  BY <1>1, <1>2, NoEdges
  <2>4. Scanned' = {}  BY <2>1 DEF Scanned
  <2>5. hop' < max_hops'  BY <1>0, <1>4, <2>1 DEF call, ProofInv, SearchTypeOK
  <2>6. WalkEnds(hop)' = {source_id}  BY <2>1, <2>3 DEF WalkEnds, IsWalk
  <2>7. \A k \in 1 .. hop' : FALSE  BY <2>1
  <2>8. LoopInv'
    BY <1>0, <1>1, <1>2, <2>1, <2>4, <2>5, <2>6, <2>7 DEF LoopInv, call
  <2> QED  BY <2>1, <2>2, <2>8 DEF ProofInv, AnswersReachability
<1> QED  BY <1>3, <1>4

\* One record scanned is one record more in what next_frontier stands for.
LEMMA ReachScan == ProofInv /\ ScanEdge => ProofInv'
<1> SUFFICES ASSUME ProofInv, ScanEdge
             PROVE  ProofInv'
  OBVIOUS
<1>0. /\ UNCHANGED call /\ UNCHANGED <<hop, frontier, pc, result>>
      /\ pc = "scan" /\ edge_index' = edge_index + 1
  BY DEF ScanEdge, NextEdge
<1>1. Vertices' = Vertices /\ \A k \in Nat : WalkEnds(k)' = WalkEnds(k)
  BY <1>0, CallUnchanged
<1>2. CallDomains /\ hop \in Nat /\ edge_index \in 1 .. Len(edges)
  BY DEF ProofInv, SearchTypeOK, CallDomains, ScanEdge
<1>3. next_frontier' \subseteq Vertices
  BY <1>2, RecordsJoinVertices DEF ScanEdge, Follows, ProofInv, SearchTypeOK
<1>4. SearchTypeOK'
  <2>1. edge_index' \in 1 .. Len(edges') + 1  BY <1>0, <1>2 DEF call, CallDomains
  <2> QED  BY <1>0, <1>1, <1>3, <2>1 DEF ProofInv, SearchTypeOK, call, Tombstone
<1>5. next_frontier' = Scanned'
  <2>1. Scanned' = {v \in Vertices : \E i \in 1 .. edge_index : Follows(edges[i]) /\ To(edges[i]) = v}
    BY <1>0, <1>1, <1>2 DEF Scanned, Follows, From, To, Tombstone, call
  <2>2. 1 .. edge_index = 1 .. edge_index - 1 \cup {edge_index}  BY <1>2
  <2>3. next_frontier = Scanned  BY <1>0 DEF ProofInv, LoopInv
  <2>4. Follows(edges[edge_index]) => To(edges[edge_index]) \in Vertices
    BY <1>2, RecordsJoinVertices DEF Follows
  <2> QED  BY <2>1, <2>2, <2>3, <2>4 DEF ScanEdge, Scanned
<1>6. LoopInv'
  <2>1. WalkEnds(hop)' = WalkEnds(hop)
    BY <1>0, <1>1, <1>2 DEF call, WalkEnds, IsWalk, Step, From, To, Tombstone, Vertices
  <2>2. \A k \in 1 .. hop : (WalkEnds(k))' = WalkEnds(k)  BY <1>1, <1>2
  <2> QED  BY <1>0, <1>1, <1>2, <1>5, <2>1, <2>2 DEF LoopInv, ProofInv, call
<1> QED  BY <1>0, <1>4, <1>6 DEF ProofInv, AnswersReachability

\* At the end of a hop next_frontier holds the ends of the walks one edge longer.
LEMMA ReachEndHop == ProofInv /\ EndHop => ProofInv'
<1> SUFFICES ASSUME ProofInv, EndHop
             PROVE  ProofInv'
  OBVIOUS
<1>0. UNCHANGED call /\ pc = "scan"  BY DEF EndHop, Return
<1>1. Vertices' = Vertices /\ \A k \in Nat : WalkEnds(k)' = WalkEnds(k)
  BY <1>0, CallUnchanged
<1>2. CallDomains /\ hop \in Nat /\ edge_index = Len(edges) + 1 /\ max_hops \in Nat
  BY DEF ProofInv, SearchTypeOK, CallDomains, EndHop
<1>3. next_frontier = WalkEnds(hop + 1)
  <2>1. next_frontier = Scanned /\ frontier = WalkEnds(hop)  BY <1>0 DEF ProofInv, LoopInv
  <2> QED  BY <1>2, <2>1, FullScan, OneMoreEdge
<1>4. hop + 1 \in 1 .. max_hops /\ \A k \in 1 .. hop : destination_id \notin WalkEnds(k)
  BY <1>0, <1>2 DEF ProofInv, LoopInv
<1>5. CASE Reached
  <2>1. pc' = "done" /\ result' = "true"  BY <1>5 DEF EndHop, Return
  <2>2. SearchTypeOK'  BY <1>0, <1>1, <1>5 DEF EndHop, Return, ProofInv, SearchTypeOK, call, Tombstone
  <2>3. \E k \in 1 .. max_hops : destination_id \in WalkEnds(k)
    BY <1>3, <1>4, <1>5 DEF Reached
  <2>4. \E k \in 1 .. max_hops : destination_id \in (WalkEnds(k))'
    BY <1>1, <1>2, <2>3
  <2>5. AnswersReachability'  BY <1>0, <2>1, <2>4 DEF AnswersReachability, call
  <2> QED  BY <2>1, <2>2, <2>5 DEF ProofInv, LoopInv
<1>6. CASE ~Reached /\ (next_frontier = {} \/ LastHop)
  <2>1. pc' = "done" /\ result' = "false"  BY <1>6 DEF EndHop, Return
  <2>2. SearchTypeOK'  BY <1>0, <1>1, <1>6 DEF EndHop, Return, ProofInv, SearchTypeOK, call, Tombstone
  <2>3. ASSUME NEW k \in 1 .. max_hops
        PROVE  destination_id \notin WalkEnds(k)
    <3>1. CASE k <= hop  BY <1>4, <3>1
    <3>2. CASE k = hop + 1  BY <1>3, <1>6, <3>2 DEF Reached
    <3>3. CASE k > hop + 1
      <4>1. next_frontier = {}  BY <1>2, <1>6, <3>3 DEF LastHop
      <4>2. WalkEnds(k) = {}
        <5>1. hop + 1 \in Nat /\ k \in Nat /\ hop + 1 <= k  BY <1>2, <3>3
        <5>2. WalkEnds(hop + 1) = {}  BY <1>3, <4>1
        <5> QED  BY <5>1, <5>2, NoLongerWalk
      <4> QED  BY <4>2
    <3> QED  BY <1>2, <3>1, <3>2, <3>3
  <2>4. \A k \in 1 .. max_hops : destination_id \notin (WalkEnds(k))'
    BY <1>1, <1>2, <2>3
  <2>5. AnswersReachability'  BY <1>0, <2>1, <2>4 DEF AnswersReachability, call
  <2> QED  BY <2>1, <2>2, <2>5 DEF ProofInv, LoopInv
<1>7. CASE ~Reached /\ ~(next_frontier = {} \/ LastHop)
  <2>1. /\ frontier' = next_frontier /\ next_frontier' = {} /\ hop' = hop + 1
        /\ edge_index' = 1 /\ pc' = "scan" /\ result' = result
    BY <1>0, <1>7 DEF EndHop, NextFrontier
  <2>2. SearchTypeOK'
    <3>1. edge_index' \in 1 .. Len(edges') + 1  BY <1>0, <1>2, <2>1 DEF call, CallDomains
    <3> QED  BY <1>0, <1>1, <1>2, <2>1, <3>1 DEF ProofInv, SearchTypeOK, call, Tombstone
  <2>3. WalkEnds(hop)' = WalkEnds(hop + 1)
    BY <1>0, <2>1 DEF call, WalkEnds, IsWalk, Step, From, To, Tombstone, Vertices
  <2>4. Scanned' = {}  BY <2>1 DEF Scanned
  <2>5. \A k \in 1 .. hop + 1 : destination_id \notin WalkEnds(k)
    BY <1>2, <1>3, <1>4, <1>7 DEF Reached
  <2>6. \A k \in 1 .. hop' : destination_id' \notin (WalkEnds(k))'
    BY <1>0, <1>1, <1>2, <2>1, <2>5 DEF call
  <2>7. hop' < max_hops'  BY <1>0, <1>2, <1>4, <1>7, <2>1 DEF call, LastHop
  <2>8. source_id' \in Vertices' /\ destination_id' \in Vertices'
    BY <1>0, <1>1 DEF ProofInv, LoopInv, call
  <2>9. LoopInv'  BY <1>3, <2>1, <2>3, <2>4, <2>6, <2>7, <2>8 DEF LoopInv
  <2> QED  BY <2>1, <2>2, <2>9 DEF ProofInv, AnswersReachability
<1> QED  BY <1>5, <1>6, <1>7

\* Stuttering steps.
LEMMA ReachStutter == ProofInv /\ UNCHANGED search_vars => ProofInv'
<1> SUFFICES ASSUME ProofInv, UNCHANGED search_vars
             PROVE  ProofInv'
  OBVIOUS
<1>1. UNCHANGED call /\ UNCHANGED <<hop, edge_index, frontier, next_frontier, pc, result>>
  BY DEF search_vars
<1>2. SearchTypeOK'  BY <1>1 DEF ProofInv, SearchTypeOK, call, Vertices, Tombstone
<1>3. WalkEnds(hop)' = WalkEnds(hop) /\ Scanned' = Scanned
  BY <1>1 DEF call, WalkEnds, Scanned, Follows, IsWalk, Step, From, To, Tombstone, Vertices
<1>4. Vertices' = Vertices /\ \A k \in Nat : WalkEnds(k)' = WalkEnds(k)
  BY <1>1, CallUnchanged
<1>5. hop \in Nat /\ max_hops \in Nat  BY DEF ProofInv, SearchTypeOK
<1>6. LoopInv'
  <2>1. \A k \in 1 .. hop : (WalkEnds(k))' = WalkEnds(k)  BY <1>4, <1>5
  <2> QED  BY <1>1, <1>3, <1>4, <2>1 DEF ProofInv, LoopInv, call
<1>7. AnswersReachability'
  <2>1. \A k \in 1 .. max_hops : (WalkEnds(k))' = WalkEnds(k)  BY <1>4, <1>5
  <2> QED  BY <1>1, <2>1 DEF ProofInv, AnswersReachability, call
<1> QED  BY <1>2, <1>6, <1>7 DEF ProofInv

\* The strengthened invariant holds throughout every call.
LEMMA ReachInvariance == SearchSpec => []ProofInv
<1>1. ProofInv /\ [SearchNext]_search_vars => ProofInv'
  BY ReachAdvise, ReachStart, ReachScan, ReachEndHop, ReachStutter DEF SearchNext
<1> QED  BY ReachInitial, <1>1, PTL DEF SearchSpec

\* The loop indexes stay inside the scan, and both frontiers inside the vertex ID domain
\* for which their buffers are allocated.
THEOREM Types_Correct == SearchSpec => []SearchTypeOK
<1>1. ProofInv => SearchTypeOK  BY DEF ProofInv
<1> QED  BY ReachInvariance, <1>1, PTL

\* Whatever the graph, the endpoints, the direction and the bound: the operator of
\* operators.c answers true exactly when a walk of 1 to max_hops edges exists.
THEOREM Reachability_Correct == SearchSpec => []AnswersReachability
<1>1. ProofInv => AnswersReachability  BY DEF ProofInv
<1> QED  BY ReachInvariance, <1>1, PTL

\* The buffers swapped between the hops hold the ends of the walks of that length.
THEOREM Frontier_Correct == SearchSpec => []FrontierIsWalkEnds
<1>1. ProofInv => FrontierIsWalkEnds  BY DEF ProofInv, LoopInv, FrontierIsWalkEnds
<1> QED  BY ReachInvariance, <1>1, PTL
====================================================================================
