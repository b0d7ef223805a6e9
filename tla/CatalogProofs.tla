------------------------------ MODULE CatalogProofs ------------------------------
(* Proofs about Catalog for every set of names, labels and DDL programs and every   *)
(* number of failing calls: no array of a catalog ever holds a label twice, what    *)
(* was acknowledged is what opens, and what a crash in write_metadata leaves.       *)
(*                                                                                  *)
(* A DDL program and the reader of metadata.ll are folds of AddLabel.  What they    *)
(* return has no duplicates, and such a catalog is read back as it was written      *)
(* (ReloadedValid).  With that the invariant need only follow the three writes of   *)
(* write_metadata: which catalog the file holds, and whether it holds all of it.    *)
EXTENDS Catalog, CommonProofs

-----------------------------------------------------------------------------
(* Labels *)

UniqueLabels == {labels \in Seq(Labels) : IsInjective(labels)}
ValidCatalogs == [name : Labels, node_labels : UniqueLabels, edge_labels : UniqueLabels]

\* add_label keeps a list free of duplicates.
LEMMA AddLabelUnique ==
  ASSUME NEW labels \in UniqueLabels, NEW label \in Labels
  PROVE  AddLabel(labels, label) \in UniqueLabels
<1>1. labels \in Seq(Labels) /\ \A a, b \in DOMAIN labels : labels[a] = labels[b] => a = b
  BY DEF UniqueLabels, IsInjective
<1>2. CASE Contains(labels, label)
  BY <1>2 DEF AddLabel
<1>3. CASE ~Contains(labels, label)
  <2> PICK longer : longer = Append(labels, label)
    OBVIOUS
  <2>1. /\ longer \in Seq(Labels) /\ DOMAIN longer = 1 .. Len(labels) + 1
        /\ longer[Len(labels) + 1] = label
        /\ \A i \in 1 .. Len(labels) : longer[i] = labels[i]
    BY <1>1
  <2>2. \A i \in 1 .. Len(labels) : labels[i] # label
    BY <1>3 DEF Contains
  <2>3. \A a, b \in DOMAIN longer : longer[a] = longer[b] => a = b
    <3> TAKE a, b \in DOMAIN longer
    <3>1. /\ a = Len(labels) + 1 \/ a \in 1 .. Len(labels)
          /\ b = Len(labels) + 1 \/ b \in 1 .. Len(labels)
      BY <1>1, <2>1
    <3> QED BY <1>1, <2>1, <2>2, <3>1
  <2> QED BY <1>3, <2>1, <2>3 DEF AddLabel, UniqueLabels, IsInjective
<1> QED BY <1>2, <1>3

\* AddLabels adds one label after the other, and no label twice.
LEMMA AddLabelsSteps ==
  ASSUME NEW labels \in UniqueLabels, NEW new \in Seq(Labels)
  PROVE  \E h \in [0 .. Len(new) -> UniqueLabels] :
           /\ h[0] = labels
           /\ \A i \in 1 .. Len(new) : h[i] = AddLabel(h[i - 1], new[i])
           /\ h[Len(new)] = AddLabels(labels, new)
<1> DEFINE n == Len(new)
           step == [j \in 1 .. n |-> [x \in UniqueLabels |-> AddLabel(x, new[j])]]
           Equation(f) == f = [s \in SUBSET (1 .. n) |->
                                 IF s = {} THEN labels
                                 ELSE AddLabel(f[s \ {Max(s)}], new[Max(s)])]
           iter == CHOOSE f : Equation(f)
<1>1. n \in Nat /\ DOMAIN new = 1 .. n /\ \A j \in 1 .. n : new[j] \in Labels
  OBVIOUS
<1>2. AddLabels(labels, new) = iter[1 .. n]
  BY <1>1 DEF AddLabels, FoldLeft, MapThenFoldSet
<1>a. \A j \in 1 .. n, x \in UniqueLabels : AddLabel(x, new[j]) \in UniqueLabels
  BY <1>1, AddLabelUnique
<1>3. Equation(iter)
  <2>1. step \in [1 .. n -> [UniqueLabels -> UniqueLabels]]
    <3> HIDE DEF n
    <3> QED BY <1>a
  <2>2. PICK f \in [SUBSET (1 .. n) -> UniqueLabels] : FoldsSets(f, n, labels, step)
    <3>1. labels \in UniqueLabels
      OBVIOUS
    <3> HIDE DEF n, step
    <3> QED BY <1>1, <2>1, <3>1, SetRecursion
  <2>3. ASSUME NEW s \in SUBSET (1 .. n)
        PROVE  f[s] = IF s = {} THEN labels ELSE AddLabel(f[s \ {Max(s)}], new[Max(s)])
    <3>1. s # {} => Max(s) \in 1 .. n
      BY <1>1, MaxOfPositions
    <3>2. f[s] = IF s = {} THEN labels ELSE step[Max(s)][f[s \ {Max(s)}]]
      BY <2>2 DEF FoldsSets
    <3>3. f[s \ {Max(s)}] \in UniqueLabels
      OBVIOUS
    <3> HIDE DEF n
    <3> QED BY <3>1, <3>2, <3>3
  <2>4. Equation(f)
    <3> HIDE DEF n
    <3> QED BY <2>3
  <2> HIDE DEF Equation
  <2> QED BY <2>4
<1>4. \A s \in SUBSET (1 .. n) :
        iter[s] = IF s = {} THEN labels ELSE AddLabel(iter[s \ {Max(s)}], new[Max(s)])
  <2> HIDE DEF iter, n
  <2> QED BY <1>3
<1> HIDE DEF iter
<1> DEFINE h == [i \in 0 .. n |-> iter[1 .. i]]
<1>5. h[0] = labels
  <2>1. 1 .. 0 = {} /\ 0 \in 0 .. n
    OBVIOUS
  <2> HIDE DEF n
  <2> QED BY <1>4, <2>1
<1>6. ASSUME NEW i \in 1 .. n
      PROVE  h[i] = AddLabel(h[i - 1], new[i])
  <2>1. /\ 1 .. i \in SUBSET (1 .. n) /\ 1 .. i # {} /\ Max(1 .. i) = i
        /\ (1 .. i) \ {i} = 1 .. (i - 1)
    BY <1>1, SetRecursionSteps
  <2>2. i \in 0 .. n /\ i - 1 \in 0 .. n
    OBVIOUS
  <2> HIDE DEF n
  <2>3. iter[1 .. i] = AddLabel(iter[1 .. (i - 1)], new[i])
    BY <1>4, <2>1
  <2> QED BY <2>2, <2>3
<1>7. h \in [0 .. n -> UniqueLabels]
  <2> DEFINE H == {i \in 0 .. n : h[i] \in UniqueLabels}
  <2> HIDE DEF h
  <2>1. 0 \in H
    BY <1>5
  <2>2. \A i \in 0 .. n - 1 : i \in H => i + 1 \in H
    <3> SUFFICES ASSUME NEW i \in 0 .. n - 1, h[i] \in UniqueLabels PROVE h[i + 1] \in UniqueLabels
      OBVIOUS
    <3> PICK j \in 1 .. n : j = i + 1
      OBVIOUS
    <3>1. j - 1 = i
      OBVIOUS
    <3>2. h[j] = AddLabel(h[j - 1], new[j])
      BY <1>6
    <3> QED BY <1>1, <1>a, <3>1, <3>2
  <2>3. 0 .. n \subseteq H
    <3>1. H \in SUBSET Nat
      OBVIOUS
    <3> HIDE DEF H
    <3> QED BY <1>1, <2>1, <2>2, <3>1, UpTo
  <2>4. \A i \in 0 .. n : h[i] \in UniqueLabels
    BY <2>3
  <2> HIDE DEF n
  <2> QED BY <2>4 DEF h
<1>8. h[n] = AddLabels(labels, new)
  <2>1. n \in 0 .. n
    BY <1>1
  <2> HIDE DEF n
  <2> QED BY <1>2, <2>1
<1> HIDE DEF h
<1> QED BY <1>5, <1>6, <1>7, <1>8

\* Whatever is added to a list without duplicates, none come in.
LEMMA AddLabelsUnique ==
  ASSUME NEW labels \in UniqueLabels, NEW new \in Seq(Labels)
  PROVE  AddLabels(labels, new) \in UniqueLabels
<1> PICK h \in [0 .. Len(new) -> UniqueLabels] : h[Len(new)] = AddLabels(labels, new)
  BY AddLabelsSteps
<1>1. Len(new) \in 0 .. Len(new)
  OBVIOUS
<1> QED BY <1>1

\* Nothing is a list without duplicates.
LEMMA EmptyUnique == <<>> \in UniqueLabels
<1>1. <<>> \in Seq(Labels) /\ DOMAIN <<>> = {}
  OBVIOUS
<1> QED BY <1>1 DEF UniqueLabels, IsInjective

\* A list without duplicates, added to an empty one, is what comes out: the array
\* that linklet_catalog_from_bson collects is the one that was written.
LEMMA AddLabelsAgain ==
  ASSUME NEW labels \in UniqueLabels
  PROVE  AddLabels(<<>>, labels) = labels
<1> DEFINE n == Len(labels)
<1>1. /\ labels \in Seq(Labels) /\ n \in Nat
      /\ \A a, b \in 1 .. n : labels[a] = labels[b] => a = b
  BY DEF UniqueLabels, IsInjective
<1> PICK h \in [0 .. n -> UniqueLabels] :
      /\ h[0] = <<>>
      /\ \A i \in 1 .. n : h[i] = AddLabel(h[i - 1], labels[i])
      /\ h[n] = AddLabels(<<>>, labels)
  BY <1>1, EmptyUnique, AddLabelsSteps
<1> DEFINE Copied(s, m) == s \in Seq(Labels) /\ Len(s) = m /\ \A j \in 1 .. m : s[j] = labels[j]
           H == {i \in 0 .. n : Copied(h[i], i)}
<1>2. 0 \in H
  <2>1. Copied(<<>>, 0)
    OBVIOUS
  <2> QED BY <1>1, <2>1, SMTT(30)
<1>3. \A i \in 0 .. n - 1 : i \in H => i + 1 \in H
  <2> SUFFICES ASSUME NEW i \in 0 .. n - 1, Copied(h[i], i) PROVE Copied(h[i + 1], i + 1)
    BY <1>1, SMTT(30)
  <2> PICK k \in 1 .. n : k = i + 1
    BY <1>1
  <2> PICK s : s = h[i]
    OBVIOUS
  <2>1. k - 1 = i /\ h[k] = AddLabel(s, labels[k])
    BY <1>1
  <2>2. s \in Seq(Labels) /\ Len(s) = i /\ \A j \in 1 .. i : s[j] = labels[j]
    OBVIOUS
  <2>3. ~Contains(s, labels[k])
    <3> SUFFICES ASSUME NEW j \in 1 .. Len(s), s[j] = labels[k] PROVE FALSE
      BY DEF Contains
    <3>1. j \in 1 .. n /\ j # k
      BY <1>1, <2>2
    <3>2. labels[j] = labels[k]
      BY <2>2
    <3> QED BY <1>1, <3>1, <3>2
  <2>4. h[k] = Append(s, labels[k])
    BY <2>1, <2>3 DEF AddLabel
  <2>5. labels[k] \in Labels
    BY <1>1
  <2>6. /\ Append(s, labels[k]) \in Seq(Labels) /\ Len(Append(s, labels[k])) = i + 1
        /\ Append(s, labels[k])[i + 1] = labels[k]
        /\ \A j \in 1 .. i : Append(s, labels[k])[j] = s[j]
    BY <2>2, <2>5
  <2>7. \A j \in 1 .. i + 1 : j = i + 1 \/ j \in 1 .. i
    OBVIOUS
  <2> QED BY <2>2, <2>4, <2>6, <2>7
<1>4. n \in H
  <2>1. H \in SUBSET Nat
    BY <1>1
  <2> HIDE DEF H, n
  <2>2. 0 .. n \subseteq H
    BY <1>1, <1>2, <1>3, <2>1, UpTo
  <2> QED BY <1>1, <2>2
<1>5. Copied(h[n], n)
  <2> HIDE DEF n
  <2> QED BY <1>4
<1>6. h[n] = labels
  <2> PICK s : s = h[n]
    OBVIOUS
  <2>1. s \in Seq(Labels) /\ Len(s) = Len(labels) /\ \A j \in 1 .. Len(labels) : s[j] = labels[j]
    BY <1>5
  <2>2. s = labels
    BY <1>1, <2>1
  <2> QED BY <2>2
<1> QED BY <1>6

-----------------------------------------------------------------------------
(* DDL *)

\* The labels an element registers are labels.
LEMMA ElementLabelsType ==
  ASSUME NEW element \in Elements
  PROVE  ElementLabels(element) \in Seq(Labels)
<1>1. /\ element.text \in Labels \cup {NoName} /\ element.alias \in Labels \cup {NoName}
      /\ element.source \in Seq(Labels) /\ element.labels \in Seq(Labels)
      /\ element.destination \in Seq(Labels)
  BY DEF Elements
<1>2. FirstLabelExpression(element) \in Seq(Labels)
  BY <1>1 DEF FirstLabelExpression
<1>3. \A label \in Labels : <<label>> \in Seq(Labels)
  OBVIOUS
<1>4. <<>> \in Seq(Labels)
  OBVIOUS
<1> QED BY <1>1, <1>2, <1>3, <1>4 DEF ElementLabels

\* The labels of an element join a catalog without duplicates.
LEMMA ElementValid ==
  ASSUME NEW c \in ValidCatalogs, NEW element \in Elements
  PROVE  add_element_labels(c, element) \in ValidCatalogs
<1>1. c.node_labels \in UniqueLabels /\ c.edge_labels \in UniqueLabels
  BY DEF ValidCatalogs
<1>2. /\ AddLabels(c.node_labels, ElementLabels(element)) \in UniqueLabels
      /\ AddLabels(c.edge_labels, ElementLabels(element)) \in UniqueLabels
  BY <1>1, ElementLabelsType, AddLabelsUnique
<1> QED BY <1>2 DEF add_element_labels, ValidCatalogs

\* A graph type adds the labels of one element after the other.
LEMMA ElementsSteps ==
  ASSUME NEW c \in ValidCatalogs, NEW elements \in Seq(Elements)
  PROVE  \E h \in [0 .. Len(elements) -> ValidCatalogs] :
           /\ h[0] = c
           /\ \A i \in 1 .. Len(elements) : h[i] = add_element_labels(h[i - 1], elements[i])
           /\ h[Len(elements)] = apply_nested_graph_type(c, elements)
<1> DEFINE n == Len(elements)
           step == [j \in 1 .. n |-> [x \in ValidCatalogs |-> add_element_labels(x, elements[j])]]
           Equation(f) == f = [s \in SUBSET (1 .. n) |->
                                 IF s = {} THEN c
                                 ELSE add_element_labels(f[s \ {Max(s)}], elements[Max(s)])]
           iter == CHOOSE f : Equation(f)
<1>1. n \in Nat /\ DOMAIN elements = 1 .. n /\ \A j \in 1 .. n : elements[j] \in Elements
  OBVIOUS
<1>2. apply_nested_graph_type(c, elements) = iter[1 .. n]
  BY <1>1 DEF apply_nested_graph_type, FoldLeft, MapThenFoldSet
<1>a. \A j \in 1 .. n, x \in ValidCatalogs : add_element_labels(x, elements[j]) \in ValidCatalogs
  BY <1>1, ElementValid
<1>3. Equation(iter)
  <2>1. step \in [1 .. n -> [ValidCatalogs -> ValidCatalogs]]
    <3> HIDE DEF n
    <3> QED BY <1>a
  <2>2. PICK f \in [SUBSET (1 .. n) -> ValidCatalogs] : FoldsSets(f, n, c, step)
    <3>1. c \in ValidCatalogs
      OBVIOUS
    <3> HIDE DEF n, step
    <3> QED BY <1>1, <2>1, <3>1, SetRecursion
  <2>3. ASSUME NEW s \in SUBSET (1 .. n)
        PROVE  f[s] = IF s = {} THEN c ELSE add_element_labels(f[s \ {Max(s)}], elements[Max(s)])
    <3>1. s # {} => Max(s) \in 1 .. n
      BY <1>1, MaxOfPositions
    <3>2. f[s] = IF s = {} THEN c ELSE step[Max(s)][f[s \ {Max(s)}]]
      BY <2>2 DEF FoldsSets
    <3>3. f[s \ {Max(s)}] \in ValidCatalogs
      OBVIOUS
    <3> HIDE DEF n
    <3> QED BY <3>1, <3>2, <3>3
  <2>4. Equation(f)
    <3> HIDE DEF n
    <3> QED BY <2>3
  <2> HIDE DEF Equation
  <2> QED BY <2>4
<1>4. \A s \in SUBSET (1 .. n) :
        iter[s] = IF s = {} THEN c ELSE add_element_labels(iter[s \ {Max(s)}], elements[Max(s)])
  <2> HIDE DEF iter, n
  <2> QED BY <1>3
<1> HIDE DEF iter
<1> DEFINE h == [i \in 0 .. n |-> iter[1 .. i]]
<1>5. h[0] = c
  <2>1. 1 .. 0 = {} /\ 0 \in 0 .. n
    OBVIOUS
  <2> HIDE DEF n
  <2> QED BY <1>4, <2>1
<1>6. ASSUME NEW i \in 1 .. n
      PROVE  h[i] = add_element_labels(h[i - 1], elements[i])
  <2>1. /\ 1 .. i \in SUBSET (1 .. n) /\ 1 .. i # {} /\ Max(1 .. i) = i
        /\ (1 .. i) \ {i} = 1 .. (i - 1)
    BY <1>1, SetRecursionSteps
  <2>2. i \in 0 .. n /\ i - 1 \in 0 .. n
    OBVIOUS
  <2> HIDE DEF n
  <2>3. iter[1 .. i] = add_element_labels(iter[1 .. (i - 1)], elements[i])
    BY <1>4, <2>1
  <2> QED BY <2>2, <2>3
<1>7. h \in [0 .. n -> ValidCatalogs]
  <2> DEFINE H == {i \in 0 .. n : h[i] \in ValidCatalogs}
  <2> HIDE DEF h
  <2>1. 0 \in H
    BY <1>5
  <2>2. \A i \in 0 .. n - 1 : i \in H => i + 1 \in H
    <3> SUFFICES ASSUME NEW i \in 0 .. n - 1, h[i] \in ValidCatalogs PROVE h[i + 1] \in ValidCatalogs
      OBVIOUS
    <3> PICK j \in 1 .. n : j = i + 1
      OBVIOUS
    <3>1. j - 1 = i
      OBVIOUS
    <3>2. h[j] = add_element_labels(h[j - 1], elements[j])
      BY <1>6
    <3> QED BY <1>1, <1>a, <3>1, <3>2
  <2>3. 0 .. n \subseteq H
    <3>1. H \in SUBSET Nat
      OBVIOUS
    <3> HIDE DEF H
    <3> QED BY <1>1, <2>1, <2>2, <3>1, UpTo
  <2>4. \A i \in 0 .. n : h[i] \in ValidCatalogs
    BY <2>3
  <2> HIDE DEF n
  <2> QED BY <2>4 DEF h
<1>8. h[n] = apply_nested_graph_type(c, elements)
  <2>1. n \in 0 .. n
    BY <1>1
  <2> HIDE DEF n
  <2> QED BY <1>2, <2>1
<1> HIDE DEF h
<1> QED BY <1>5, <1>6, <1>7, <1>8

\* A graph type leaves a catalog without duplicates.
LEMMA NestedValid ==
  ASSUME NEW c \in ValidCatalogs, NEW elements \in Seq(Elements)
  PROVE  apply_nested_graph_type(c, elements) \in ValidCatalogs
<1> PICK h \in [0 .. Len(elements) -> ValidCatalogs] :
      h[Len(elements)] = apply_nested_graph_type(c, elements)
  BY ElementsSteps
<1>1. Len(elements) \in 0 .. Len(elements)
  OBVIOUS
<1> QED BY <1>1

\* The first statement of a kind is a statement of the program.
LEMMA FirstOfKindIsThere ==
  ASSUME NEW program \in Programs, NEW kind, OfKind(program, kind) # {}
  PROVE  FirstOfKind(program, kind) \in
           [kind : STRING, name : Labels, nested : Seq(Seq(Elements))]
<1>1. program \in Seq([kind : STRING, name : Labels, nested : Seq(Seq(Elements))])
  BY ProgramsAssumption
<1>2. OfKind(program, kind) \in SUBSET Nat
  BY <1>1 DEF OfKind
<1>3. PICK first \in OfKind(program, kind) : \A i \in OfKind(program, kind) : first <= i
  <2>1. PICK x \in OfKind(program, kind) :
          \A y \in OfKind(program, kind) : ~(<<y, x>> \in OpToRel(<, Nat))
    BY <1>2, NatLessThanWellFounded, WFMin
  <2>2. \A y \in OfKind(program, kind) : ~(y < x)
    BY <1>2, <2>1 DEF OpToRel
  <2> QED BY <1>2, <2>2
<1>4. Min(OfKind(program, kind)) \in OfKind(program, kind)
  BY <1>3 DEF Min
<1>5. Min(OfKind(program, kind)) \in DOMAIN program
  BY <1>4 DEF OfKind
<1>6. \A i \in DOMAIN program :
        program[i] \in [kind : STRING, name : Labels, nested : Seq(Seq(Elements))]
  <2> DEFINE S == [kind : STRING, name : Labels, nested : Seq(Seq(Elements))]
  <2>1. program \in Seq(S)
    BY <1>1
  <2> HIDE DEF S
  <2>2. \A i \in DOMAIN program : program[i] \in S
    BY <2>1
  <2> QED BY <2>2 DEF S
<1> QED BY <1>5, <1>6 DEF FirstOfKind

\* A program that is not refused turns a catalog without duplicates into another.
LEMMA ProgramValid ==
  ASSUME NEW c \in ValidCatalogs, NEW program \in Programs, ~Refused(program)
  PROVE  linklet_catalog_apply_ddl(c, program) \in ValidCatalogs
<1>1. ASSUME NEW d \in ValidCatalogs,
             NEW statement \in [kind : STRING, name : Labels, nested : Seq(Seq(Elements))]
      PROVE  ApplyNested(d, statement) \in ValidCatalogs
  <2>1. CASE statement.nested = <<>>
    BY <2>1 DEF ApplyNested
  <2>2. CASE statement.nested # <<>>
    <3>1. Head(statement.nested) \in Seq(Elements)
      BY <2>2
    <3> QED BY <2>2, <3>1, NestedValid DEF ApplyNested
  <2> QED BY <2>1, <2>2
<1>2. CASE OfKind(program, "create_graph_type") # {}
  BY <1>1, <1>2, FirstOfKindIsThere DEF linklet_catalog_apply_ddl
<1>3. CASE OfKind(program, "create_graph_type") = {}
  <2> PICK graph : graph = FirstOfKind(program, "create_graph")
    OBVIOUS
  <2>1. OfKind(program, "create_graph") # {}
    BY <1>3 DEF Refused
  <2>2. graph \in [kind : STRING, name : Labels, nested : Seq(Seq(Elements))]
    BY <2>1, FirstOfKindIsThere
  <2>3. [c EXCEPT !.name = graph.name] \in ValidCatalogs
    BY <2>2 DEF ValidCatalogs
  <2>4. linklet_catalog_apply_ddl(c, program) = ApplyNested([c EXCEPT !.name = graph.name], graph)
    BY <1>3 DEF linklet_catalog_apply_ddl
  <2> QED BY <1>1, <2>2, <2>3, <2>4
<1> QED BY <1>2, <1>3

-----------------------------------------------------------------------------
(* metadata.ll *)

\* The size of a sequence of labels is a sum.
LEMMA SizeSteps ==
  ASSUME NEW labels \in Seq(Labels)
  PROVE  \E h \in [0 .. Len(labels) -> Nat] :
           /\ h[0] = 0
           /\ \A i \in 1 .. Len(labels) : h[i] = h[i - 1] + Length[labels[i]] + 1
           /\ h[Len(labels)] = SizeOf(labels)
<1> DEFINE n == Len(labels)
           step == [j \in 1 .. n |-> [x \in Nat |-> x + Length[labels[j]] + 1]]
           Equation(f) == f = [s \in SUBSET (1 .. n) |->
                                 IF s = {} THEN 0
                                 ELSE f[s \ {Max(s)}] + Length[labels[Max(s)]] + 1]
           iter == CHOOSE f : Equation(f)
<1>1. n \in Nat /\ DOMAIN labels = 1 .. n /\ \A j \in 1 .. n : labels[j] \in Labels
  OBVIOUS
<1>2. SizeOf(labels) = iter[1 .. n]
  BY <1>1 DEF SizeOf, FoldLeft, MapThenFoldSet
<1>a. \A j \in 1 .. n, x \in Nat : x + Length[labels[j]] + 1 \in Nat
  BY <1>1, NamesAssumption
<1>3. Equation(iter)
  <2>1. step \in [1 .. n -> [Nat -> Nat]]
    <3> HIDE DEF n
    <3> QED BY <1>a
  <2>2. PICK f \in [SUBSET (1 .. n) -> Nat] : FoldsSets(f, n, 0, step)
    <3>1. 0 \in Nat
      OBVIOUS
    <3> HIDE DEF n, step
    <3> QED BY <1>1, <2>1, <3>1, SetRecursion
  <2>3. ASSUME NEW s \in SUBSET (1 .. n)
        PROVE  f[s] = IF s = {} THEN 0 ELSE f[s \ {Max(s)}] + Length[labels[Max(s)]] + 1
    <3>1. s # {} => Max(s) \in 1 .. n
      BY <1>1, MaxOfPositions
    <3>2. f[s] = IF s = {} THEN 0 ELSE step[Max(s)][f[s \ {Max(s)}]]
      BY <2>2 DEF FoldsSets
    <3>3. f[s \ {Max(s)}] \in Nat
      OBVIOUS
    <3> HIDE DEF n
    <3> QED BY <3>1, <3>2, <3>3
  <2>4. Equation(f)
    <3> HIDE DEF n
    <3> QED BY <2>3
  <2> HIDE DEF Equation
  <2> QED BY <2>4
<1>4. \A s \in SUBSET (1 .. n) :
        iter[s] = IF s = {} THEN 0 ELSE iter[s \ {Max(s)}] + Length[labels[Max(s)]] + 1
  <2> HIDE DEF iter, n
  <2> QED BY <1>3
<1> HIDE DEF iter
<1> DEFINE h == [i \in 0 .. n |-> iter[1 .. i]]
<1>5. h[0] = 0
  <2>1. 1 .. 0 = {} /\ 0 \in 0 .. n
    OBVIOUS
  <2> HIDE DEF n
  <2> QED BY <1>4, <2>1
<1>6. ASSUME NEW i \in 1 .. n
      PROVE  h[i] = h[i - 1] + Length[labels[i]] + 1
  <2>1. /\ 1 .. i \in SUBSET (1 .. n) /\ 1 .. i # {} /\ Max(1 .. i) = i
        /\ (1 .. i) \ {i} = 1 .. (i - 1)
    BY <1>1, SetRecursionSteps
  <2>2. i \in 0 .. n /\ i - 1 \in 0 .. n
    OBVIOUS
  <2> HIDE DEF n
  <2>3. iter[1 .. i] = iter[1 .. (i - 1)] + Length[labels[i]] + 1
    BY <1>4, <2>1
  <2> QED BY <2>2, <2>3
<1>7. h \in [0 .. n -> Nat]
  <2> DEFINE H == {i \in 0 .. n : h[i] \in Nat}
  <2> HIDE DEF h
  <2>1. 0 \in H
    BY <1>5
  <2>2. \A i \in 0 .. n - 1 : i \in H => i + 1 \in H
    <3> SUFFICES ASSUME NEW i \in 0 .. n - 1, h[i] \in Nat PROVE h[i + 1] \in Nat
      OBVIOUS
    <3> PICK j \in 1 .. n : j = i + 1
      OBVIOUS
    <3>1. j - 1 = i
      OBVIOUS
    <3>2. h[j] = h[j - 1] + Length[labels[j]] + 1
      BY <1>6
    <3> QED BY <1>1, <1>a, <3>1, <3>2
  <2>3. 0 .. n \subseteq H
    <3>1. H \in SUBSET Nat
      OBVIOUS
    <3> HIDE DEF H
    <3> QED BY <1>1, <2>1, <2>2, <3>1, UpTo
  <2>4. \A i \in 0 .. n : h[i] \in Nat
    BY <2>3
  <2> HIDE DEF n
  <2> QED BY <2>4 DEF h
<1>8. h[n] = SizeOf(labels)
  <2>1. n \in 0 .. n
    BY <1>1
  <2> HIDE DEF n
  <2> QED BY <1>2, <2>1
<1> HIDE DEF h
<1> QED BY <1>5, <1>6, <1>7, <1>8

\* Sizes are numbers.
LEMMA DocumentSizeType ==
  ASSUME NEW c \in ValidCatalogs
  PROVE  DocumentSize(c) \in Nat
<1>1. \A labels \in Seq(Labels) : SizeOf(labels) \in Nat
  <2> TAKE labels \in Seq(Labels)
  <2> PICK h \in [0 .. Len(labels) -> Nat] : h[Len(labels)] = SizeOf(labels)
    BY SizeSteps
  <2>1. Len(labels) \in 0 .. Len(labels)
    OBVIOUS
  <2> QED BY <2>1
<1>2. /\ c.name \in Labels /\ c.node_labels \in Seq(Labels) /\ c.edge_labels \in Seq(Labels)
  BY DEF ValidCatalogs, UniqueLabels
<1>3. <<c.name>> \in Seq(Labels)
  BY <1>2
<1>4. SizeOf(<<c.name>>) \in Nat /\ SizeOf(c.node_labels) \in Nat /\ SizeOf(c.edge_labels) \in Nat
  BY <1>1, <1>2, <1>3
<1> QED BY <1>4 DEF DocumentSize

\* Reading a catalog without duplicates gives it back.
LEMMA ReloadedValid ==
  ASSUME NEW c \in ValidCatalogs
  PROVE  Reloaded(c) = c
<1>1. c.node_labels \in UniqueLabels /\ c.edge_labels \in UniqueLabels
  BY DEF ValidCatalogs
<1>2. AddLabels(<<>>, c.node_labels) = c.node_labels /\ AddLabels(<<>>, c.edge_labels) = c.edge_labels
  BY <1>1, AddLabelsAgain
<1> QED BY <1>2 DEF Reloaded, ValidCatalogs

\* Contents of metadata.ll, of which the document has no duplicates.
Files ==
  [doc : ValidCatalogs \cup {NoCatalog}, size : Nat,
   end : {"whole", "lost", "damaged", "unreadable"}]

\* Neither NoCatalog nor Missing is taken for a catalog or a file.
LEMMA Distinct == NoCatalog \notin ValidCatalogs /\ Missing \notin Files
<1>1. ValidCatalogs \subseteq Catalogs
  BY DEF ValidCatalogs, Catalogs, UniqueLabels
<1>2. Files \subseteq [doc : Catalogs \cup {NoCatalog}, size : Nat,
                       end : {"whole", "lost", "damaged", "unreadable"}]
  BY <1>1 DEF Files
<1> QED BY <1>1, <1>2, NamesAssumption

\* What open reads: at most one catalog, without duplicates; the catalog of a file
\* that is whole, and nothing of a file that is cut short.
LEMMA ReadableCatalogsAre ==
  ASSUME file \in Files
  PROVE  /\ \A c, d \in ReadableCatalogs : c = d
         /\ ReadableCatalogs \subseteq ValidCatalogs
         /\ file.doc # NoCatalog /\ file.end = "whole" => ReadableCatalogs = {file.doc}
         /\ file.doc = NoCatalog \/ file.end = "lost" => ReadableCatalogs = {}
<1>1. file # Missing /\ file.end \in {"whole", "lost", "damaged", "unreadable"}
  BY Distinct DEF Files
<1>2. CASE file.doc = NoCatalog \/ file.end \in {"lost", "unreadable"}
  <2>1. ReadableCatalogs = {}
    BY <1>1, <1>2 DEF ReadableCatalogs
  <2> QED BY <1>2, <2>1
<1>3. CASE file.doc # NoCatalog /\ file.end = "whole"
  <2>1. file.doc \in ValidCatalogs
    BY <1>3 DEF Files
  <2>2. ReadableCatalogs = {Reloaded(file.doc)}
    BY <1>1, <1>3 DEF ReadableCatalogs
  <2> QED BY <1>3, <2>1, <2>2, ReloadedValid
<1>4. CASE file.doc # NoCatalog /\ file.end = "damaged"
  <2> PICK c, edges : /\ edges = [file.doc.edge_labels EXCEPT ![Len(file.doc.edge_labels)] = Damaged]
                      /\ c = [file.doc EXCEPT !.edge_labels = edges]
    OBVIOUS
  <2>1. ReadableCatalogs = {Reloaded(c)}
    BY <1>1, <1>4 DEF ReadableCatalogs
  <2>2. file.doc \in Catalogs
    BY <1>4 DEF Files, ValidCatalogs, UniqueLabels, Catalogs
  <2>3. edges \in Seq(Labels)
    <3> PICK l \in Seq(Labels) : l = file.doc.edge_labels
      BY <2>2 DEF Catalogs
    <3>1. l \in [1 .. Len(l) -> Labels] /\ Len(l) \in Nat
      OBVIOUS
    <3>2. [l EXCEPT ![Len(l)] = Damaged] \in [1 .. Len(l) -> Labels]
      BY <3>1, NamesAssumption
    <3>3. \A n \in Nat : \A s \in [1 .. n -> Labels] : s \in Seq(Labels)
      OBVIOUS
    <3> QED BY <3>1, <3>2, <3>3
  <2>4. c \in Catalogs
    BY <2>2, <2>3 DEF Catalogs
  <2>5. AddLabels(<<>>, c.node_labels) \in UniqueLabels /\ AddLabels(<<>>, c.edge_labels) \in UniqueLabels
    BY <2>4, EmptyUnique, AddLabelsUnique DEF Catalogs
  <2>6. Reloaded(c) \in ValidCatalogs
    BY <2>4, <2>5 DEF Reloaded, ValidCatalogs, Catalogs
  <2> QED BY <1>4, <2>1, <2>6
<1> QED BY <1>1, <1>2, <1>3, <1>4

-----------------------------------------------------------------------------
(* The inductive invariant *)

Types ==
  /\ up \in BOOLEAN
  /\ up => catalog \in ValidCatalogs
  /\ ~up => catalog = NoCatalog /\ pending = "none"
  /\ pending \in {"none", "create_file", "resize", "write", "flush"}
  /\ faults \in 0 .. MAX_FAULTS
  /\ file = Missing \/ file \in Files
  /\ aux_saved \in ValidCatalogs \cup {NoCatalog}
  /\ aux_attempted \subseteq ValidCatalogs

\* What the writes of write_metadata done so far have established.  Until a creation
\* has ended, the file has no document but the one being written.
Progress ==
  /\ pending # "none" => catalog \in aux_attempted
  /\ pending = "create_file" => file = Missing
  /\ pending \in {"resize", "write", "flush"} => file # Missing
  /\ pending = "flush" => file.doc = catalog /\ file.end = "whole"
  /\ file = Missing => aux_saved = NoCatalog
  /\ aux_saved = NoCatalog /\ file # Missing =>
       /\ file.end = "whole"
       /\ pending \in {"resize", "write"} => file.doc = NoCatalog

\* The three things the file of a saved catalog can be when no call has failed: as it
\* was saved, cut by ftruncate, or with the next document.
Untouched == file.end = "whole" /\ file.doc = aux_saved
CutShort == file.end = "lost" /\ \E c \in aux_attempted : DocumentSize(c) < DocumentSize(aux_saved)
Replaced == file.end = "whole" /\ file.doc \in aux_attempted

Undisturbed ==
  aux_saved # NoCatalog /\ faults = 0 =>
    /\ Untouched \/ CutShort \/ Replaced
    /\ pending = "resize" => Untouched
    /\ pending = "write" => Untouched \/ CutShort
    /\ up /\ pending = "none" => aux_attempted = {}

CInv == Types /\ Progress /\ AcknowledgedReads /\ Undisturbed

\* The file is there from the first write on.
LEMMA FileIsThere ==
  ASSUME CInv, file # Missing
  PROVE  file \in Files
BY DEF CInv, Types

\* write_metadata begins: nothing, or the first step of the write of a catalog.
LEMMA BeginWriteEither ==
  ASSUME NEW c, NEW first, BeginWrite(c, first)
  PROVE  \/ pending' = pending /\ aux_attempted' = aux_attempted
         \/ pending' = first /\ aux_attempted' = aux_attempted \cup {c}
BY DEF BeginWrite

\* The catalogs that can be read depend on the file alone.
LEMMA SameFileReads ==
  ASSUME file' = file
  PROVE  ReadableCatalogs' = ReadableCatalogs
BY DEF ReadableCatalogs

LEMMA CatalogInit == Init => CInv
<1> SUFFICES ASSUME Init PROVE CInv
  OBVIOUS
<1>1. 0 \in 0 .. MAX_FAULTS
  BY NamesAssumption
<1> QED BY <1>1, Distinct DEF Init, CInv, Types, Progress, AcknowledgedReads, Undisturbed

\* linklet_database_create.
LEMMA CreatePreserves ==
  ASSUME CInv, NEW name \in GraphNames, Create(name)
  PROVE  CInv'
<1> PICK c : c = NewCatalog(name)
  OBVIOUS
<1>1. c \in ValidCatalogs
  BY EmptyUnique, NamesAssumption DEF NewCatalog, ValidCatalogs
<1>2. /\ up' /\ up' \in BOOLEAN /\ catalog' = c /\ file = Missing /\ aux_saved = NoCatalog
      /\ pending' = "create_file" /\ aux_attempted' = {c}
      /\ file' = file /\ faults' = faults /\ aux_saved' = aux_saved
  BY DEF Create, BeginWrite, CInv, Progress
<1>3. Types'
  BY <1>1, <1>2 DEF CInv, Types
<1>4. Progress'
  BY <1>2 DEF Progress
<1> QED BY <1>2, <1>3, <1>4 DEF CInv, AcknowledgedReads, Undisturbed

\* open(O_CREAT) of write_metadata.
LEMMA CreateFilePreserves ==
  ASSUME CInv, CreateFile
  PROVE  CInv'
<1>1. /\ pending = "create_file" /\ pending' = "resize" /\ file' = EmptyFile /\ file = Missing
      /\ up' = up /\ catalog' = catalog /\ faults' = faults /\ aux_saved' = aux_saved
      /\ aux_attempted' = aux_attempted /\ aux_saved = NoCatalog /\ catalog \in aux_attempted
  BY DEF CreateFile, auxVars, CInv, Progress
<1>2. EmptyFile \in Files /\ EmptyFile.doc = NoCatalog /\ EmptyFile.end = "whole"
  BY DEF EmptyFile, Files
<1>3. EmptyFile # Missing
  BY <1>2, Distinct
<1>4. Types'
  BY <1>1, <1>2 DEF CInv, Types
<1>5. Progress'
  BY <1>1, <1>2, <1>3 DEF Progress
<1> QED BY <1>1, <1>4, <1>5 DEF CInv, AcknowledgedReads, Undisturbed

\* A DDL statement.
LEMMA ExecutePreserves ==
  ASSUME CInv, NEW program \in Programs, Execute(program)
  PROVE  CInv'
<1> PICK c : c = linklet_catalog_apply_ddl(catalog, program)
  OBVIOUS
<1>1. /\ up /\ pending = "none" /\ aux_saved # NoCatalog /\ catalog' = c
      /\ up' = up /\ file' = file /\ faults' = faults /\ aux_saved' = aux_saved
      /\ ~Refused(program) /\ BeginWrite(c, "resize")
  BY DEF Execute
<1>2. c \in ValidCatalogs
  BY <1>1, ProgramValid DEF CInv, Types
<1>3. file # Missing
  BY <1>1 DEF CInv, Progress
<1>4. CASE pending' = pending /\ aux_attempted' = aux_attempted
  <2>1. Types'
    BY <1>1, <1>2, <1>4 DEF CInv, Types
  <2>2. Progress'
    BY <1>1, <1>3, <1>4 DEF CInv, Progress
  <2>3. AcknowledgedReads'
    BY <1>1, <1>4, SameFileReads DEF CInv, AcknowledgedReads
  <2>4. Undisturbed'
    BY <1>1, <1>4 DEF CInv, Undisturbed, Untouched, CutShort, Replaced
  <2> QED BY <2>1, <2>2, <2>3, <2>4 DEF CInv
<1>5. CASE pending' = "resize" /\ aux_attempted' = aux_attempted \cup {c}
  <2>1. Types'
    BY <1>1, <1>2, <1>5 DEF CInv, Types
  <2>2. Progress'
    BY <1>1, <1>3, <1>5 DEF Progress
  <2>3. AcknowledgedReads'
    BY <1>5 DEF AcknowledgedReads
  <2>4. Undisturbed'
    <3> SUFFICES ASSUME faults = 0 PROVE Untouched' /\ pending' = "resize"
      BY <1>1, <1>5 DEF Undisturbed
    <3>1. aux_attempted = {} /\ (Untouched \/ CutShort \/ Replaced)
      BY <1>1 DEF CInv, Undisturbed
    <3>2. Untouched
      BY <3>1 DEF CutShort, Replaced
    <3> QED BY <1>1, <1>5, <3>2 DEF Untouched
  <2> QED BY <2>1, <2>2, <2>3, <2>4 DEF CInv
<1> QED BY <1>1, <1>4, <1>5, BeginWriteEither

\* ftruncate.
LEMMA ResizePreserves ==
  ASSUME CInv, Resize
  PROVE  CInv'
<1>1. /\ pending = "resize" /\ pending' = "write" /\ file' \in Resized(DocumentSize(catalog))
      /\ up' = up /\ catalog' = catalog /\ faults' = faults /\ aux_saved' = aux_saved
      /\ aux_attempted' = aux_attempted /\ catalog \in aux_attempted /\ file # Missing
  BY DEF Resize, auxVars, CInv, Progress
<1>2. file \in Files /\ up /\ catalog \in ValidCatalogs
  BY <1>1 DEF CInv, Types
<1>3. file' \in Files /\ file'.doc = file.doc
  <2>1. DocumentSize(catalog) \in Nat
    BY <1>2, DocumentSizeType
  <2>2. file.end \in {"whole", "lost", "damaged", "unreadable"} /\ file.doc \in ValidCatalogs \cup {NoCatalog}
    BY <1>2 DEF Files
  <2> QED BY <1>1, <2>1, <2>2 DEF Resized, Files
<1>4. file' # Missing
  BY <1>3, Distinct
<1>5. file.doc = NoCatalog => file'.end = "whole"
  BY <1>1 DEF Resized
<1>6. file.doc # NoCatalog /\ file.end = "whole" =>
        \/ file'.end = "whole"
        \/ file'.end = "lost" /\ DocumentSize(catalog) < DocumentSize(file.doc)
  BY <1>1 DEF Resized
<1>7. Types'
  BY <1>1, <1>3 DEF CInv, Types
<1>8. Progress'
  BY <1>1, <1>3, <1>4, <1>5 DEF CInv, Progress
<1>9. AcknowledgedReads'
  BY <1>1 DEF AcknowledgedReads
<1>10. Undisturbed'
  <2> SUFFICES ASSUME aux_saved # NoCatalog, faults = 0 PROVE Untouched' \/ CutShort'
    BY <1>1 DEF Undisturbed
  <2>1. file.end = "whole" /\ file.doc = aux_saved
    BY <1>1 DEF CInv, Undisturbed, Untouched
  <2>2. CASE file'.end = "whole"
    BY <1>1, <1>3, <2>1, <2>2 DEF Untouched
  <2>3. CASE file'.end = "lost" /\ DocumentSize(catalog) < DocumentSize(file.doc)
    <3>1. \E c \in aux_attempted : DocumentSize(c) < DocumentSize(aux_saved)
      BY <1>1, <2>1, <2>3
    <3> PICK attempted, saved : attempted = aux_attempted /\ saved = aux_saved
      OBVIOUS
    <3>2. aux_attempted' = attempted /\ aux_saved' = saved
      BY <1>1
    <3>3. \E c \in attempted : DocumentSize(c) < DocumentSize(saved)
      BY <3>1
    <3> QED BY <2>3, <3>2, <3>3 DEF CutShort
  <2> QED BY <1>6, <2>1, <2>2, <2>3
<1> QED BY <1>7, <1>8, <1>9, <1>10 DEF CInv

\* pwrite.
LEMMA WritePreserves ==
  ASSUME CInv, Write
  PROVE  CInv'
<1>1. /\ pending = "write" /\ pending' = "flush" /\ file' = Written(catalog)
      /\ up' = up /\ catalog' = catalog /\ faults' = faults /\ aux_saved' = aux_saved
      /\ aux_attempted' = aux_attempted /\ catalog \in aux_attempted /\ file # Missing
  BY DEF Write, auxVars, CInv, Progress
<1>2. file \in Files /\ up /\ catalog \in ValidCatalogs
  BY <1>1 DEF CInv, Types
<1>3. file' \in Files /\ file'.doc = catalog /\ file'.end = "whole"
  <2>1. DocumentSize(catalog) \in Nat /\ file.size \in Nat
    BY <1>2, DocumentSizeType DEF Files
  <2> QED BY <1>1, <1>2, <2>1 DEF Written, Files
<1>4. file' # Missing
  BY <1>3, Distinct
<1>5. Types'
  BY <1>1, <1>3 DEF CInv, Types
<1>6. Progress'
  BY <1>1, <1>3, <1>4 DEF Progress
<1>7. AcknowledgedReads'
  BY <1>1 DEF AcknowledgedReads
<1>8. Undisturbed'
  BY <1>1, <1>3 DEF Undisturbed, Replaced
<1> QED BY <1>5, <1>6, <1>7, <1>8 DEF CInv

\* fsync: the statement returns true.
LEMMA FlushPreserves ==
  ASSUME CInv, Flush
  PROVE  CInv'
<1>1. /\ pending = "flush" /\ pending' = "none" /\ aux_saved' = catalog /\ aux_attempted' = {}
      /\ up' = up /\ catalog' = catalog /\ faults' = faults /\ file' = file
      /\ file # Missing /\ file.doc = catalog /\ file.end = "whole"
  BY DEF Flush, CInv, Progress
<1>2. file \in Files /\ up /\ catalog \in ValidCatalogs
  BY <1>1 DEF CInv, Types
<1>3. catalog # NoCatalog
  BY <1>2, Distinct
<1>4. Types'
  BY <1>1, <1>2 DEF CInv, Types
<1>5. Progress'
  BY <1>1, <1>3 DEF Progress
<1>6. AcknowledgedReads'
  BY <1>1, <1>2, <1>3, ReadableCatalogsAre, SameFileReads DEF AcknowledgedReads
<1>7. Undisturbed'
  BY <1>1 DEF Undisturbed, Untouched
<1> QED BY <1>4, <1>5, <1>6, <1>7 DEF CInv

\* A step of write_metadata fails.
LEMMA FailsPreserves ==
  ASSUME CInv, Fails
  PROVE  CInv'
<1>1. /\ pending # "none" /\ faults < MAX_FAULTS /\ faults' = faults + 1
      /\ pending' = "none" /\ file' = file /\ aux_saved' = aux_saved
      /\ aux_attempted' = aux_attempted
      /\ \/ up' = FALSE /\ catalog' = NoCatalog
         \/ up' = up /\ catalog' = catalog /\ aux_saved # NoCatalog
  BY DEF Fails, Forget, auxVars
<1>2. faults \in Nat /\ faults + 1 \in 0 .. MAX_FAULTS /\ faults + 1 # 0
  BY <1>1, NamesAssumption DEF CInv, Types
<1>3. up
  BY <1>1 DEF CInv, Types
<1>4. Types'
  BY <1>1, <1>2, <1>3 DEF CInv, Types
<1>5. Progress'
  BY <1>1 DEF CInv, Progress
<1>6. AcknowledgedReads'
  BY <1>1, SameFileReads DEF CInv, AcknowledgedReads
<1>7. Undisturbed'
  BY <1>1, <1>2 DEF Undisturbed
<1> QED BY <1>4, <1>5, <1>6, <1>7 DEF CInv

\* The process dies, or closes the database, which writes nothing.
LEMMA StopPreserves ==
  ASSUME CInv, Crash \/ Close
  PROVE  CInv'
<1>1. /\ up' = FALSE /\ catalog' = NoCatalog /\ pending' = "none" /\ file' = file
      /\ faults' = faults /\ aux_saved' = aux_saved /\ aux_attempted' = aux_attempted
  BY DEF Crash, Close, Forget, auxVars
<1>2. Types'
  BY <1>1 DEF CInv, Types
<1>3. Progress'
  BY <1>1 DEF CInv, Progress
<1>4. AcknowledgedReads'
  BY <1>1, SameFileReads DEF CInv, AcknowledgedReads
<1>5. Undisturbed'
  BY <1>1 DEF CInv, Undisturbed, Untouched, CutShort, Replaced
<1> QED BY <1>2, <1>3, <1>4, <1>5 DEF CInv

\* linklet_database_open reads metadata.ll.
LEMMA OpenPreserves ==
  ASSUME CInv, Open
  PROVE  CInv'
<1> PICK c : c = catalog'
  OBVIOUS
<1>1. /\ ~up /\ up' = TRUE /\ c \in ReadableCatalogs /\ catalog' = c /\ aux_saved' = c
      /\ aux_attempted' = {} /\ file' = file /\ pending' = pending /\ faults' = faults
      /\ pending = "none"
  BY DEF Open, CInv, Types
<1>2. file # Missing
  BY <1>1 DEF ReadableCatalogs
<1>3. file \in Files
  BY <1>2, FileIsThere
<1>4. c \in ValidCatalogs /\ ReadableCatalogs = {c} /\ c # NoCatalog
  BY <1>1, <1>3, ReadableCatalogsAre, Distinct
<1>5. Types'
  BY <1>1, <1>4 DEF CInv, Types
<1>6. Progress'
  BY <1>1, <1>2, <1>4 DEF CInv, Progress
<1>7. AcknowledgedReads'
  BY <1>1, <1>4, SameFileReads DEF AcknowledgedReads
<1>8. Undisturbed'
  <2> SUFFICES ASSUME faults = 0 PROVE Untouched'
    BY <1>1 DEF Undisturbed
  <2>1. file.doc # NoCatalog /\ file.end # "lost"
    BY <1>1, <1>3, ReadableCatalogsAre
  <2>2. file.end = "whole"
    <3>1. CASE aux_saved = NoCatalog
      BY <1>2, <3>1 DEF CInv, Progress
    <3>2. CASE aux_saved # NoCatalog
      BY <2>1, <3>2 DEF CInv, Undisturbed, Untouched, CutShort, Replaced
    <3> QED BY <3>1, <3>2
  <2>3. file.doc = c
    BY <1>3, <1>4, <2>1, <2>2, ReadableCatalogsAre
  <2> QED BY <1>1, <2>2, <2>3 DEF Untouched
<1> QED BY <1>5, <1>6, <1>7, <1>8 DEF CInv

\* No step of the catalog breaks the invariant.
LEMMA CatalogStep == CInv /\ [Next]_vars => CInv'
<1> SUFFICES ASSUME CInv, [Next]_vars PROVE CInv'
  OBVIOUS
<1>1. CASE UNCHANGED vars
  <2>1. /\ up' = up /\ catalog' = catalog /\ file' = file /\ pending' = pending
        /\ faults' = faults /\ aux_saved' = aux_saved /\ aux_attempted' = aux_attempted
    BY <1>1 DEF vars, auxVars
  <2>2. Types' /\ Progress'
    BY <2>1 DEF CInv, Types, Progress
  <2>3. AcknowledgedReads'
    BY <2>1, SameFileReads DEF CInv, AcknowledgedReads
  <2>4. Undisturbed'
    BY <2>1 DEF CInv, Undisturbed, Untouched, CutShort, Replaced
  <2> QED BY <2>2, <2>3, <2>4 DEF CInv
<1>2. CASE Next
  BY <1>2, CreatePreserves, CreateFilePreserves, ExecutePreserves, ResizePreserves,
     WritePreserves, FlushPreserves, FailsPreserves, StopPreserves, OpenPreserves DEF Next
<1> QED BY <1>1, <1>2

\* The invariant holds in every state.
THEOREM CatalogInvariance == Spec => []CInv
BY CatalogInit, CatalogStep, PTL DEF Spec

-----------------------------------------------------------------------------
(* What follows *)

\* Shapes, and no label twice in an array of the catalog, whatever programs ran and
\* whatever file it was read from.
THEOREM CatalogTypeCorrectness == Spec => []TypeOK
<1>1. CInv => TypeOK
  <2> SUFFICES ASSUME CInv PROVE TypeOK
    OBVIOUS
  <2>1. up => /\ catalog # NoCatalog
              /\ NoDuplicates(catalog.node_labels) /\ NoDuplicates(catalog.edge_labels)
    BY Distinct DEF CInv, Types, ValidCatalogs, UniqueLabels, NoDuplicates
  <2> QED BY <2>1 DEF CInv, Types, TypeOK
<1> QED BY <1>1, CatalogInvariance, PTL

\* A catalog that a DDL statement acknowledged is what any later open reads, until
\* another statement begins to write: linklet_catalog_to_bson, write_metadata and
\* read_metadata agree on every catalog the program can have.
THEOREM AcknowledgedIsRead == Spec => []AcknowledgedReads
<1>1. CInv => AcknowledgedReads
  BY DEF CInv
<1> QED BY <1>1, CatalogInvariance, PTL

\* A crash between the steps of write_metadata leaves the catalog last saved or the
\* one being saved, and a file that does not open only if the document was shrinking.
THEOREM CatalogSurvivesCrash == Spec => []CrashKeepsCatalog
<1>1. CInv => CrashKeepsCatalog
  <2> SUFFICES ASSUME CInv, aux_saved # NoCatalog, faults = 0
               PROVE  /\ ReadableCatalogs \subseteq {aux_saved} \cup aux_attempted
                      /\ \/ ReadableCatalogs # {}
                         \/ \E c \in aux_attempted : DocumentSize(c) < DocumentSize(aux_saved)
    BY DEF CrashKeepsCatalog
  <2>1. file \in Files
    BY FileIsThere DEF CInv, Progress
  <2>2. aux_attempted \subseteq ValidCatalogs
    BY DEF CInv, Types
  <2>3. CASE Untouched
    BY <2>1, <2>3, ReadableCatalogsAre DEF Untouched
  <2>4. CASE CutShort
    BY <2>1, <2>4, ReadableCatalogsAre DEF CutShort
  <2>5. CASE Replaced
    <3>1. file.doc # NoCatalog
      BY <2>2, <2>5, Distinct DEF Replaced
    <3> QED BY <2>1, <2>5, <3>1, ReadableCatalogsAre DEF Replaced
  <2> QED BY <2>3, <2>4, <2>5 DEF CInv, Undisturbed
<1> QED BY <1>1, CatalogInvariance, PTL
=================================================================================
