------------------------------ MODULE DatabaseProofs ------------------------------
(* Proofs about Database for every size of the ID space, every set of documents    *)
(* and calls, and transactions of any length.  The argument:                       *)
(*                                                                                 *)
(* - An operation of a frame works on every node and every edge on its own, and    *)
(*   doing it early, half or twice changes nothing that it does not change itself  *)
(*   (Nudged): the frame still leads to the graph it promises (Leads).             *)
(* - The inserts of a frame have the IDs that the store issues next, in order, so  *)
(*   that an insert is applied once or never again (Frame, Anchored, Behind, Ahead,*)
(*   Stuck): CommitPlansFrame.                                                     *)
(* - Each step of the store in a call changes the graph as far as the operation    *)
(*   would (Moves); between the calls the operation has no effect left (Settles).  *)
(*                                                                                 *)
(* DInv, the inductive invariant, says this for each point of a call.              *)
EXTENDS Database, CommonProofs, SequenceTheorems

USE StoreAssumption
USE DEF Ids, Store!Ids

-----------------------------------------------------------------------------
(* What a pattern selects *)

\* Ascending lists the IDs of a finite set in ascending order and leaves none out.
LEMMA AscendingEnumerates ==
  ASSUME NEW S \in SUBSET Nat, IsFiniteSet(S)
  PROVE  /\ Ascending(S) \in Seq(S)
         /\ Len(Ascending(S)) = Cardinality(S)
         /\ \A i, j \in DOMAIN Ascending(S) : i < j => Ascending(S)[i] < Ascending(S)[j]
         /\ \A x \in S : \E i \in DOMAIN Ascending(S) : Ascending(S)[i] = x
<1>1. Ascending(S) = InOrder(S)
  BY DEF Ascending, InOrder
<1> QED BY <1>1, InOrderEnumerates

\* A filter selects stored elements only.
LEMMA SelectedExist ==
  ASSUME NEW objects, NEW filter, NEW id \in Selected(objects, filter)
  PROVE  id \in DOMAIN objects /\ objects[id] # Absent
BY DEF Selected

\* What a MATCH returns: IDs of stored edges when it returns an edge, IDs of stored
\* nodes otherwise.
LEMMA MatchesExist ==
  ASSUME NEW ns, NEW es, NEW ends, NEW pattern, NEW k \in Nat,
         DOMAIN ns = 0 .. k, DOMAIN es = 0 .. k,
         pattern.is_edge_pattern \in BOOLEAN,
         pattern.is_edge_pattern => pattern.binding \in {"source", "edge", "destination"}
  PROVE  linklet_resolve_match(ns, es, ends, pattern) \in
           Seq({id \in 0 .. k : IF ResultKind(pattern) = "edge" THEN es[id] # Absent
                                                               ELSE ns[id] # Absent})
<1> DEFINE Live == {id \in 0 .. k : IF ResultKind(pattern) = "edge" THEN es[id] # Absent
                                                                   ELSE ns[id] # Absent}
<1>f. ASSUME NEW T \in SUBSET (0 .. k)
      PROVE  T \in SUBSET Nat /\ IsFiniteSet(T)
  <2>1. IsFiniteSet(0 .. k)
    <3>1. 0 \in Int /\ k \in Int
      OBVIOUS
    <3> QED BY <3>1, FS_Interval
  <2>2. IsFiniteSet(T)
    BY <2>1, FS_Subset
  <2> QED BY <2>2
<1>1. CASE ~pattern.is_edge_pattern
  <2>1. ResultKind(pattern) = "node"
    BY <1>1 DEF ResultKind
  <2> PICK T : T = Selected(ns, pattern.source)
    OBVIOUS
  <2>2. T \in SUBSET Live
    BY <2>1, SelectedExist
  <2>3. Ascending(T) \in Seq(T)
    BY <2>2, <1>f, AscendingEnumerates
  <2>4. linklet_resolve_match(ns, es, ends, pattern) = Ascending(T)
    BY <1>1 DEF linklet_resolve_match, scan_elements
  <2>5. Seq(T) \subseteq Seq(Live)
    <3> HIDE DEF Live
    <3> QED BY <2>2
  <2> QED BY <2>3, <2>4, <2>5
<1>2. CASE pattern.is_edge_pattern
  <2> DEFINE source(e) == IF pattern.direction = "right" THEN ends[e].source ELSE ends[e].destination
             destination(e) == IF pattern.direction = "right"
                                 THEN ends[e].destination ELSE ends[e].source
             matched == {e \in Selected(es, pattern.edge) :
                           /\ source(e) \in Selected(ns, pattern.source)
                           /\ destination(e) \in Selected(ns, pattern.destination)}
             value(e) == CASE pattern.binding = "source" -> source(e)
                           [] pattern.binding = "edge" -> e
                           [] pattern.binding = "destination" -> destination(e)
             order == Ascending(matched)
  <2>1. linklet_resolve_match(ns, es, ends, pattern) = [i \in DOMAIN order |-> value(order[i])]
    BY <1>2 DEF linklet_resolve_match
  <2>2. matched \in SUBSET (0 .. k)
    BY SelectedExist
  <2>3. order \in Seq(matched)
    <3> HIDE DEF matched
    <3> QED BY <2>2, <1>f, AscendingEnumerates
  <2>4. \A e \in matched : value(e) \in Live
    <3> TAKE e \in matched
    <3>1. /\ e \in 0 .. k /\ es[e] # Absent
          /\ source(e) \in 0 .. k /\ ns[source(e)] # Absent
          /\ destination(e) \in 0 .. k /\ ns[destination(e)] # Absent
      BY SelectedExist
    <3> HIDE DEF source, destination, matched
    <3>2. CASE pattern.binding = "edge"
      <4>1. ResultKind(pattern) = "edge" /\ value(e) = e
        BY <1>2, <3>2 DEF ResultKind
      <4> QED BY <3>1, <4>1
    <3>3. CASE pattern.binding = "source"
      <4>1. ResultKind(pattern) = "node" /\ value(e) = source(e)
        BY <1>2, <3>3 DEF ResultKind
      <4> QED BY <3>1, <4>1
    <3>4. CASE pattern.binding = "destination"
      <4>1. ResultKind(pattern) = "node" /\ value(e) = destination(e)
        BY <1>2, <3>4 DEF ResultKind
      <4> QED BY <3>1, <4>1
    <3> QED BY <1>2, <3>2, <3>3, <3>4
  <2>5. Len(order) \in Nat /\ DOMAIN order = 1 .. Len(order) /\ \A i \in DOMAIN order : order[i] \in matched
    <3> HIDE DEF order, matched
    <3> QED BY <2>3
  <2> HIDE DEF order, matched, value, Live
  <2>6. [i \in DOMAIN order |-> value(order[i])] \in Seq(Live)
    BY <2>4, <2>5
  <2> QED BY <2>1, <2>6 DEF Live
<1> QED BY <1>1, <1>2

-----------------------------------------------------------------------------
(* Frames, and the graphs they lead to *)

EdgeRecords == [source : Ids, destination : Ids, doc : Documents]
Graphs == [nodes : [Ids -> Documents \cup {Absent}], edges : [Ids -> EdgeRecords \cup {Absent}]]

\* The operations a frame may hold: inserts and updates carry a document.
FrameOperations ==
  {o \in Operations :
     o.kind \in {"insert_node", "insert_edge", "update_node", "update_edge"} => o.doc \in Documents}

EdgeOf(o) == [source |-> o.source, destination |-> o.destination, doc |-> o.doc]

\* The operations of a frame from position at on lead from one graph to another.
LeadsBy(h, ops, at, graph, result) ==
  /\ h[at - 1] = graph /\ h[Len(ops)] = result
  /\ \A i \in at .. Len(ops) : h[i] = AppliedOp(h[i - 1], ops[i])
Leads(ops, at, graph, result) ==
  \E h \in [at - 1 .. Len(ops) -> Graphs] : LeadsBy(h, ops, at, graph, result)

\* What one operation does to each node of a graph.
AppliedToNode(value, n, o) ==
  IF o.id # n THEN value
  ELSE CASE o.kind = "insert_node" -> o.doc
         [] o.kind = "update_node" -> IF value = Absent THEN Absent ELSE o.doc
         [] o.kind = "delete_node" -> Absent
         [] OTHER -> value

\* What one operation does to each edge of a graph.
Detaches(o, value) ==
  /\ o.kind = "delete_node" /\ o.detach
  /\ value # Absent /\ o.id \in {value.source, value.destination}
AppliedToEdge(value, e, o) ==
  IF Detaches(o, value) THEN Absent
  ELSE IF o.id # e THEN value
  ELSE CASE o.kind = "insert_edge" -> EdgeOf(o)
         [] o.kind = "update_edge" -> IF value = Absent THEN Absent ELSE [value EXCEPT !.doc = o.doc]
         [] o.kind = "delete_edge" -> Absent
         [] OTHER -> value

\* An operation works on every node and every edge of a graph on its own.
LEMMA AppliedElementwise ==
  ASSUME NEW g \in Graphs, NEW o \in FrameOperations
  PROVE  AppliedOp(g, o) = [nodes |-> [n \in Ids |-> AppliedToNode(g.nodes[n], n, o)],
                            edges |-> [e \in Ids |-> AppliedToEdge(g.edges[e], e, o)]]
<1> DEFINE Nodes == [n \in Ids |-> AppliedToNode(g.nodes[n], n, o)]
           Edges == [e \in Ids |-> AppliedToEdge(g.edges[e], e, o)]
<1>0. /\ g = [nodes |-> g.nodes, edges |-> g.edges]
      /\ g.nodes = [n \in Ids |-> g.nodes[n]] /\ g.edges = [e \in Ids |-> g.edges[e]]
      /\ o.kind \in {"insert_node", "insert_edge", "update_node", "update_edge", "delete_node",
                     "delete_edge"}
  BY DEF Graphs, FrameOperations, Operations
<1>1. CASE o.kind = "insert_node"
  <2>1. Nodes = [g.nodes EXCEPT ![o.id] = o.doc] /\ Edges = g.edges
    BY <1>0, <1>1 DEF AppliedToNode, AppliedToEdge, Detaches
  <2> QED BY <1>0, <1>1, <2>1 DEF AppliedOp
<1>2. CASE o.kind = "insert_edge"
  <2>1. Edges = [g.edges EXCEPT ![o.id] = EdgeOf(o)] /\ Nodes = g.nodes
    BY <1>0, <1>2 DEF AppliedToNode, AppliedToEdge, Detaches
  <2> QED BY <1>0, <1>2, <2>1 DEF AppliedOp, EdgeOf
<1>3. CASE o.kind = "update_node"
  <2>1. Edges = g.edges
    BY <1>0, <1>3 DEF AppliedToEdge, Detaches
  <2>2. CASE g.nodes[o.id] = Absent
    <3>1. Nodes = g.nodes
      BY <1>0, <1>3, <2>2 DEF AppliedToNode
    <3> QED BY <1>0, <1>3, <2>1, <2>2, <3>1 DEF AppliedOp
  <2>3. CASE g.nodes[o.id] # Absent
    <3>1. Nodes = [g.nodes EXCEPT ![o.id] = o.doc]
      BY <1>0, <1>3, <2>3 DEF AppliedToNode
    <3> QED BY <1>0, <1>3, <2>1, <2>3, <3>1 DEF AppliedOp
  <2> QED BY <2>2, <2>3
<1>4. CASE o.kind = "update_edge"
  <2>1. Nodes = g.nodes
    BY <1>0, <1>4 DEF AppliedToNode
  <2>2. CASE g.edges[o.id] = Absent
    <3>1. Edges = g.edges
      BY <1>0, <1>4, <2>2 DEF AppliedToEdge, Detaches
    <3> QED BY <1>0, <1>4, <2>1, <2>2, <3>1 DEF AppliedOp
  <2>3. CASE g.edges[o.id] # Absent
    <3>1. Edges = [g.edges EXCEPT ![o.id] = [g.edges[o.id] EXCEPT !.doc = o.doc]]
      BY <1>0, <1>4, <2>3 DEF AppliedToEdge, Detaches
    <3> QED BY <1>0, <1>4, <2>1, <2>3, <3>1 DEF AppliedOp
  <2> QED BY <2>2, <2>3
<1>5. CASE o.kind = "delete_edge"
  <2>1. Edges = [g.edges EXCEPT ![o.id] = Absent] /\ Nodes = g.nodes
    BY <1>0, <1>5 DEF AppliedToNode, AppliedToEdge, Detaches
  <2> QED BY <1>0, <1>5, <2>1 DEF AppliedOp
<1>6. CASE o.kind = "delete_node"
  <2>1. Nodes = [g.nodes EXCEPT ![o.id] = Absent]
    BY <1>0, <1>6 DEF AppliedToNode
  <2>2. Edges = [e \in Ids |->
            IF o.detach /\ g.edges[e] # Absent
               /\ o.id \in {g.edges[e].source, g.edges[e].destination}
              THEN Absent ELSE g.edges[e]]
    BY <1>6 DEF AppliedToEdge, Detaches
  <2> QED BY <1>6, <2>1, <2>2 DEF AppliedOp
<1> QED BY <1>0, <1>1, <1>2, <1>3, <1>4, <1>5, <1>6

\* An operation makes a graph of a graph.
LEMMA AppliedOpType ==
  ASSUME NEW g \in Graphs, NEW o \in FrameOperations
  PROVE  AppliedOp(g, o) \in Graphs
<1>1. \A n \in Ids : AppliedToNode(g.nodes[n], n, o) \in Documents \cup {Absent}
  BY DEF Graphs, AppliedToNode, FrameOperations, Operations
<1>2. \A e \in Ids : AppliedToEdge(g.edges[e], e, o) \in EdgeRecords \cup {Absent}
  <2> TAKE e \in Ids
  <2>1. g.edges[e] \in EdgeRecords \cup {Absent}
    BY DEF Graphs
  <2>2. o.kind \in {"insert_edge", "update_edge"} => o.doc \in Documents
    BY DEF FrameOperations
  <2>3. o.source \in Ids /\ o.destination \in Ids
    BY DEF FrameOperations, Operations
  <2>4. CASE o.kind = "insert_edge"
    BY <2>1, <2>2, <2>3, <2>4 DEF AppliedToEdge, Detaches, EdgeOf, EdgeRecords
  <2>5. CASE o.kind = "update_edge" /\ g.edges[e] # Absent
    <3>1. [g.edges[e] EXCEPT !.doc = o.doc] \in EdgeRecords
      BY <2>1, <2>2, <2>5 DEF EdgeRecords
    <3> QED BY <2>1, <2>5, <3>1 DEF AppliedToEdge, Detaches
  <2>6. CASE o.kind # "insert_edge" /\ ~(o.kind = "update_edge" /\ g.edges[e] # Absent)
    BY <2>1, <2>6 DEF AppliedToEdge, Detaches
  <2> QED BY <2>4, <2>5, <2>6
<1> PICK r : r = AppliedOp(g, o)
  OBVIOUS
<1>3. r = [nodes |-> [n \in Ids |-> AppliedToNode(g.nodes[n], n, o)],
           edges |-> [e \in Ids |-> AppliedToEdge(g.edges[e], e, o)]]
  BY AppliedElementwise
<1>4. r \in Graphs
  <2> PICK N, E : /\ N = [n \in Ids |-> AppliedToNode(g.nodes[n], n, o)]
                  /\ E = [e \in Ids |-> AppliedToEdge(g.edges[e], e, o)]
    OBVIOUS
  <2>1. N \in [Ids -> Documents \cup {Absent}]
    BY <1>1
  <2>2. E \in [Ids -> EdgeRecords \cup {Absent}]
    BY <1>2
  <2>3. r = [nodes |-> N, edges |-> E]
    BY <1>3
  <2> QED BY <2>1, <2>2, <2>3 DEF Graphs
<1> QED BY <1>4

-----------------------------------------------------------------------------
(* Doing an operation of a frame early, or again *)

\* w is the node v, or v as operation o changes it, perhaps of an earlier time.
NudgedNode(v, w, n, o) ==
  \/ v = w
  \/ /\ o.id = n
     /\ \/ o.kind = "insert_node"
        \/ o.kind = "update_node" /\ v # Absent /\ w # Absent
        \/ o.kind = "delete_node" /\ w = Absent
NudgedEdge(v, w, e, o) ==
  \/ v = w
  \/ /\ o.id = e
     /\ \/ o.kind = "insert_edge"
        \/ /\ o.kind = "update_edge" /\ v # Absent /\ w # Absent
           /\ w.source = v.source /\ w.destination = v.destination
        \/ o.kind = "delete_edge" /\ w = Absent
  \/ Detaches(o, v) /\ w = Absent

\* h is g after some of the changes of operation o.
Nudged(g, h, o) ==
  /\ \A n \in Ids : NudgedNode(g.nodes[n], h.nodes[n], n, o)
  /\ \A e \in Ids : NudgedEdge(g.edges[e], h.edges[e], e, o)

\* Any operation keeps two graphs apart by no more than the changes of o.
LEMMA NudgedStaysNudged ==
  ASSUME NEW g \in Graphs, NEW h \in Graphs, NEW o \in FrameOperations,
         NEW p \in FrameOperations, Nudged(g, h, o)
  PROVE  Nudged(AppliedOp(g, p), AppliedOp(h, p), o)
<1> PICK a, b : a = AppliedOp(g, p) /\ b = AppliedOp(h, p)
  OBVIOUS
<1>1. /\ \A n \in Ids : a.nodes[n] = AppliedToNode(g.nodes[n], n, p)
      /\ \A e \in Ids : a.edges[e] = AppliedToEdge(g.edges[e], e, p)
      /\ \A n \in Ids : b.nodes[n] = AppliedToNode(h.nodes[n], n, p)
      /\ \A e \in Ids : b.edges[e] = AppliedToEdge(h.edges[e], e, p)
  BY AppliedElementwise
<1>2. p.doc \in Documents \/ p.kind \notin {"insert_node", "insert_edge", "update_node", "update_edge"}
  BY DEF FrameOperations
<1>3. ASSUME NEW n \in Ids
      PROVE  NudgedNode(a.nodes[n], b.nodes[n], n, o)
  <2>1. NudgedNode(g.nodes[n], h.nodes[n], n, o)
    BY DEF Nudged
  <2> QED BY <1>1, <1>2, <2>1 DEF NudgedNode, AppliedToNode
<1>4. ASSUME NEW e \in Ids
      PROVE  NudgedEdge(a.edges[e], b.edges[e], e, o)
  <2> PICK v, w : v = g.edges[e] /\ w = h.edges[e]
    OBVIOUS
  <2>1. NudgedEdge(v, w, e, o)
    BY DEF Nudged
  <2>2. v \in EdgeRecords \cup {Absent} /\ w \in EdgeRecords \cup {Absent}
    BY DEF Graphs
  <2> PICK x, y : x = AppliedToEdge(v, e, p) /\ y = AppliedToEdge(w, e, p)
    OBVIOUS
  <2>3. a.edges[e] = x /\ b.edges[e] = y
    BY <1>1
  <2>4. CASE v = w
    BY <2>3, <2>4 DEF NudgedEdge
  <2>5. CASE o.id = e /\ o.kind = "insert_edge"
    BY <2>3, <2>5 DEF NudgedEdge
  <2>6. CASE /\ o.id = e /\ o.kind = "update_edge" /\ v # Absent /\ w # Absent
             /\ w.source = v.source /\ w.destination = v.destination
    <3>1. CASE Detaches(p, v) \/ (p.kind \in {"insert_edge", "delete_edge"} /\ p.id = e)
      BY <2>3, <2>6, <3>1 DEF NudgedEdge, AppliedToEdge, Detaches
    <3>2. CASE p.kind = "update_edge" /\ p.id = e
      <4>1. x = [v EXCEPT !.doc = p.doc] /\ y = [w EXCEPT !.doc = p.doc]
        BY <2>6, <3>2 DEF AppliedToEdge, Detaches
      <4>2. x = y
        BY <4>1, <2>2, <2>6 DEF EdgeRecords
      <4> QED BY <2>3, <4>2 DEF NudgedEdge
    <3>3. CASE /\ ~Detaches(p, v) /\ ~(p.kind = "update_edge" /\ p.id = e)
               /\ ~(p.kind \in {"insert_edge", "delete_edge"} /\ p.id = e)
      <4>1. x = v /\ y = w
        BY <2>6, <3>3 DEF AppliedToEdge, Detaches
      <4> QED BY <2>3, <2>6, <4>1 DEF NudgedEdge
    <3> QED BY <3>1, <3>2, <3>3
  <2>7. CASE o.id = e /\ o.kind = "delete_edge" /\ w = Absent
    <3>1. CASE p.kind = "insert_edge" /\ p.id = e
      BY <2>3, <2>7, <3>1 DEF NudgedEdge, AppliedToEdge, Detaches
    <3>2. CASE ~(p.kind = "insert_edge" /\ p.id = e)
      <4>1. y = Absent
        BY <2>7, <3>2 DEF AppliedToEdge, Detaches
      <4> QED BY <2>3, <2>7, <4>1 DEF NudgedEdge
    <3> QED BY <3>1, <3>2
  <2>8. CASE Detaches(o, v) /\ w = Absent
    <3>1. CASE p.kind = "insert_edge" /\ p.id = e
      BY <2>3, <2>8, <3>1 DEF NudgedEdge, AppliedToEdge, Detaches
    <3>2. CASE ~(p.kind = "insert_edge" /\ p.id = e)
      <4>1. y = Absent
        BY <2>8, <3>2 DEF AppliedToEdge, Detaches
      <4>2. x = Absent \/ Detaches(o, x)
        <5>1. CASE p.kind = "update_edge" /\ p.id = e
          <6>1. x = [v EXCEPT !.doc = p.doc]
            BY <2>8, <5>1 DEF AppliedToEdge, Detaches
          <6>2. x \in EdgeRecords /\ x.source = v.source /\ x.destination = v.destination
            BY <1>2, <2>2, <2>8, <5>1, <6>1 DEF EdgeRecords, Detaches
          <6>3. x # Absent
            BY <6>2 DEF EdgeRecords
          <6> QED BY <2>8, <6>2, <6>3 DEF Detaches
        <5>2. CASE ~(p.kind = "update_edge" /\ p.id = e)
          BY <2>8, <3>2, <5>2 DEF AppliedToEdge, Detaches
        <5> QED BY <5>1, <5>2
      <4> QED BY <2>3, <4>1, <4>2 DEF NudgedEdge
    <3> QED BY <3>1, <3>2
  <2> QED BY <2>1, <2>4, <2>5, <2>6, <2>7, <2>8 DEF NudgedEdge
<1> QED BY <1>3, <1>4 DEF Nudged

\* Operation o itself makes them equal.
LEMMA NudgedConverges ==
  ASSUME NEW g \in Graphs, NEW h \in Graphs, NEW o \in FrameOperations, Nudged(g, h, o)
  PROVE  AppliedOp(g, o) = AppliedOp(h, o)
<1>1. ASSUME NEW n \in Ids
      PROVE  AppliedToNode(g.nodes[n], n, o) = AppliedToNode(h.nodes[n], n, o)
  <2>1. NudgedNode(g.nodes[n], h.nodes[n], n, o)
    BY DEF Nudged
  <2> QED BY <2>1 DEF NudgedNode, AppliedToNode
<1>2. ASSUME NEW e \in Ids
      PROVE  AppliedToEdge(g.edges[e], e, o) = AppliedToEdge(h.edges[e], e, o)
  <2> PICK v, w : v = g.edges[e] /\ w = h.edges[e]
    OBVIOUS
  <2>1. NudgedEdge(v, w, e, o)
    BY DEF Nudged
  <2>2. v \in EdgeRecords \cup {Absent} /\ w \in EdgeRecords \cup {Absent}
    BY DEF Graphs
  <2>3. CASE /\ o.id = e /\ o.kind = "update_edge" /\ v # Absent /\ w # Absent
             /\ w.source = v.source /\ w.destination = v.destination
    <3>1. [v EXCEPT !.doc = o.doc] = [w EXCEPT !.doc = o.doc]
      BY <2>2, <2>3 DEF EdgeRecords
    <3> QED BY <2>3, <3>1 DEF AppliedToEdge, Detaches
  <2>4. CASE ~(o.id = e /\ o.kind = "update_edge")
    BY <2>1, <2>4 DEF NudgedEdge, AppliedToEdge, Detaches
  <2>5. CASE v = w
    BY <2>5
  <2>6. \/ v = w \/ ~(o.id = e /\ o.kind = "update_edge")
        \/ /\ o.id = e /\ o.kind = "update_edge" /\ v # Absent /\ w # Absent
           /\ w.source = v.source /\ w.destination = v.destination
    BY <2>1 DEF NudgedEdge, Detaches
  <2> QED BY <2>3, <2>4, <2>5, <2>6
<1>3. [n \in Ids |-> AppliedToNode(g.nodes[n], n, o)] = [n \in Ids |-> AppliedToNode(h.nodes[n], n, o)]
  BY <1>1
<1>4. [e \in Ids |-> AppliedToEdge(g.edges[e], e, o)] = [e \in Ids |-> AppliedToEdge(h.edges[e], e, o)]
  BY <1>2
<1>5. \A x \in Graphs : AppliedOp(x, o) =
           [nodes |-> [n \in Ids |-> AppliedToNode(x.nodes[n], n, o)],
            edges |-> [e \in Ids |-> AppliedToEdge(x.edges[e], e, o)]]
  BY AppliedElementwise
<1>6. /\ AppliedOp(g, o) = [nodes |-> [n \in Ids |-> AppliedToNode(g.nodes[n], n, o)],
                            edges |-> [e \in Ids |-> AppliedToEdge(g.edges[e], e, o)]]
      /\ AppliedOp(h, o) = [nodes |-> [n \in Ids |-> AppliedToNode(h.nodes[n], n, o)],
                            edges |-> [e \in Ids |-> AppliedToEdge(h.edges[e], e, o)]]
  BY <1>5
<1> QED BY <1>3, <1>4, <1>6

\* The operations of a frame lead somewhere from any graph.
LEMMA TraceExists ==
  ASSUME NEW g \in Graphs, NEW ops \in Seq(FrameOperations), NEW at \in 1 .. Len(ops) + 1
  PROVE  \E r \in Graphs : Leads(ops, at, g, r)
<1> DEFINE n == Len(ops) - at + 1
           step == [j \in 1 .. n |-> [x \in Graphs |-> AppliedOp(x, ops[at - 1 + j])]]
<1>1. n \in Nat /\ Len(ops) \in Nat /\ \A j \in 1 .. n : at - 1 + j \in 1 .. Len(ops)
  OBVIOUS
<1>2. \A j \in 1 .. n : ops[at - 1 + j] \in FrameOperations
  BY <1>1
<1>3. step \in [1 .. n -> [Graphs -> Graphs]]
  <2>1. \A j \in 1 .. n, x \in Graphs : AppliedOp(x, ops[at - 1 + j]) \in Graphs
    BY <1>2, AppliedOpType
  <2> HIDE DEF n
  <2> QED BY <2>1
<1>4. PICK t \in [0 .. n -> Graphs] : Recurs(t, n, g, step)
  <2> HIDE DEF n, step
  <2> QED BY <1>1, <1>3, Recursion
<1>5. t[0] = g /\ \A j \in 1 .. n : t[j] = AppliedOp(t[j - 1], ops[at - 1 + j])
  <2> HIDE DEF n
  <2>1. \A j \in 1 .. n : t[j - 1] \in Graphs
    BY <1>1
  <2> QED BY <1>4, <2>1 DEF Recurs
<1> DEFINE h == [i \in at - 1 .. Len(ops) |-> t[i - at + 1]]
<1>6. h \in [at - 1 .. Len(ops) -> Graphs] /\ h[at - 1] = g /\ h[Len(ops)] \in Graphs
  <2>1. \A i \in at - 1 .. Len(ops) : i - at + 1 \in 0 .. n
    OBVIOUS
  <2>2. Len(ops) \in at - 1 .. Len(ops) /\ at - 1 \in at - 1 .. Len(ops) /\ (at - 1) - at + 1 = 0
    OBVIOUS
  <2> HIDE DEF n, step
  <2> QED BY <1>5, <2>1, <2>2
<1>7. ASSUME NEW i \in at .. Len(ops)
      PROVE  h[i] = AppliedOp(h[i - 1], ops[i])
  <2> PICK j \in 1 .. n : j = i - at + 1
    OBVIOUS
  <2>1. /\ i \in at - 1 .. Len(ops) /\ i - 1 \in at - 1 .. Len(ops)
        /\ (i - 1) - at + 1 = j - 1 /\ at - 1 + j = i
    <3> HIDE DEF n, step, h
    <3> QED BY <1>1, SMTT(30)
  <2>2. h[i] = t[j] /\ h[i - 1] = t[j - 1]
    BY <2>1
  <2> HIDE DEF h, n, step
  <2> QED BY <1>5, <2>1, <2>2
<1> HIDE DEF h
<1>8. LeadsBy(h, ops, at, g, h[Len(ops)])
  BY <1>6, <1>7 DEF LeadsBy
<1> QED BY <1>6, <1>8 DEF Leads

\* The first operation of the rest of a frame, and the end of a frame.
LEMMA LeadsNext ==
  ASSUME NEW g, NEW ops \in Seq(FrameOperations), NEW at \in 1 .. Len(ops), NEW r,
         Leads(ops, at, g, r)
  PROVE  Leads(ops, at + 1, AppliedOp(g, ops[at]), r)
<1> PICK h \in [at - 1 .. Len(ops) -> Graphs] : LeadsBy(h, ops, at, g, r)
  BY DEF Leads
<1> DEFINE k == [i \in at .. Len(ops) |-> h[i]]
<1>1. k \in [(at + 1) - 1 .. Len(ops) -> Graphs]
  OBVIOUS
<1>2. LeadsBy(k, ops, at + 1, AppliedOp(g, ops[at]), r)
  <2>1. k[at] = h[at] /\ k[Len(ops)] = h[Len(ops)] /\ (at + 1) - 1 = at
    OBVIOUS
  <2>2. h[at] = AppliedOp(g, ops[at]) /\ h[Len(ops)] = r
    BY DEF LeadsBy
  <2>3. ASSUME NEW i \in at + 1 .. Len(ops)
        PROVE  k[i] = AppliedOp(k[i - 1], ops[i])
    <3>1. i \in at .. Len(ops) /\ i - 1 \in at .. Len(ops)
      OBVIOUS
    <3>2. h[i] = AppliedOp(h[i - 1], ops[i])
      BY <3>1 DEF LeadsBy
    <3> QED BY <3>1, <3>2
  <2> HIDE DEF k
  <2> QED BY <2>1, <2>2, <2>3 DEF LeadsBy
<1> HIDE DEF k
<1> QED BY <1>1, <1>2 DEF Leads

\* No operations are left.
LEMMA LeadsEnd ==
  ASSUME NEW g, NEW ops \in Seq(FrameOperations), NEW r, Leads(ops, Len(ops) + 1, g, r)
  PROVE  g = r
<1>1. (Len(ops) + 1) - 1 = Len(ops)
  OBVIOUS
<1> QED BY <1>1 DEF Leads, LeadsBy

\* Changes of an operation that is still to come, or to come again, do not change
\* where the frame leads.
LEMMA LeadsNudged ==
  ASSUME NEW g \in Graphs, NEW h \in Graphs, NEW ops \in Seq(FrameOperations),
         NEW at \in 1 .. Len(ops), NEW k \in at .. Len(ops), NEW r,
         Nudged(g, h, ops[k]), Leads(ops, at, g, r)
  PROVE  Leads(ops, at, h, r)
<1> DEFINE n == Len(ops) - at + 1
<1>1. PICK a \in [at - 1 .. Len(ops) -> Graphs] : LeadsBy(a, ops, at, g, r)
  BY DEF Leads
<1>2. PICK s \in Graphs : Leads(ops, at, h, s)
  <2>1. at \in 1 .. Len(ops) + 1
    OBVIOUS
  <2> QED BY <2>1, TraceExists
<1>3. PICK b \in [at - 1 .. Len(ops) -> Graphs] : LeadsBy(b, ops, at, h, s)
  BY <1>2 DEF Leads
<1> DEFINE Agree(i) == IF i < k THEN Nudged(a[i], b[i], ops[k]) ELSE a[i] = b[i]
           H == {m \in 0 .. n : Agree(at - 1 + m)}
<1>4. 0 \in H
  <2>1. a[at - 1] = g /\ b[at - 1] = h /\ at - 1 < k /\ at - 1 + 0 = at - 1 /\ 0 \in 0 .. n
    BY <1>1, <1>3 DEF LeadsBy
  <2> HIDE DEF n
  <2> QED BY <2>1
<1>5. \A m \in 0 .. n - 1 : m \in H => m + 1 \in H
  <2>0. \A m \in 0 .. n - 1 : m + 1 \in 0 .. n /\ at - 1 + (m + 1) = at + m
    <3>1. n \in Nat /\ at \in Nat
      OBVIOUS
    <3> HIDE DEF n
    <3> QED BY <3>1, SMTT(30)
  <2> SUFFICES ASSUME NEW m \in 0 .. n - 1, Agree(at - 1 + m)
               PROVE  Agree(at + m)
    <3> HIDE DEF Agree, n
    <3> QED BY <2>0
  <2> PICK i \in at .. Len(ops) : i = at + m
    BY SMTT(30)
  <2>1. i - 1 = at - 1 + m /\ i - 1 \in at - 1 .. Len(ops) /\ i \in 1 .. Len(ops)
    BY SMTT(30)
  <2>2. a[i] = AppliedOp(a[i - 1], ops[i]) /\ b[i] = AppliedOp(b[i - 1], ops[i])
    BY <1>1, <1>3 DEF LeadsBy
  <2>3. a[i - 1] \in Graphs /\ b[i - 1] \in Graphs /\ ops[i] \in FrameOperations
        /\ ops[k] \in FrameOperations
    BY <2>1, SMTT(30)
  <2>4. CASE i < k
    <3>1. Nudged(a[i - 1], b[i - 1], ops[k])
      BY <2>1, <2>4, SMTT(30)
    <3>2. Nudged(AppliedOp(a[i - 1], ops[i]), AppliedOp(b[i - 1], ops[i]), ops[k])
      BY <2>3, <3>1, NudgedStaysNudged
    <3>3. Nudged(a[i], b[i], ops[k])
      BY <2>2, <3>2
    <3> QED BY <2>4, <3>3
  <2>5. CASE i = k
    <3>1. Nudged(a[i - 1], b[i - 1], ops[k])
      BY <2>1, <2>5, SMTT(30)
    <3>2. a[i] = b[i]
      BY <2>2, <2>3, <2>5, <3>1, NudgedConverges, SMTT(30)
    <3> QED BY <2>5, <3>2
  <2>6. CASE i > k
    <3>1. a[i - 1] = b[i - 1]
      BY <2>1, <2>6, SMTT(30)
    <3> QED BY <2>2, <2>6, <3>1
  <2> QED BY <2>4, <2>5, <2>6
<1>6. n \in Nat /\ n \in 0 .. n /\ H \in SUBSET Nat /\ at - 1 + n = Len(ops) /\ Len(ops) >= k
  BY SMTT(30)
<1>7. n \in H
  <2> HIDE DEF n, H
  <2>1. 0 .. n \subseteq H
    BY <1>4, <1>5, <1>6, UpTo
  <2> QED BY <1>6, <2>1
<1>8. a[Len(ops)] = b[Len(ops)]
  <2> HIDE DEF n
  <2>1. Agree(Len(ops))
    BY <1>6, <1>7
  <2>2. ~(Len(ops) < k)
    BY <1>6
  <2> QED BY <2>1, <2>2
<1>9. r = s
  BY <1>1, <1>3, <1>8 DEF LeadsBy
<1> QED BY <1>2, <1>9

\* The graph a frame stands for is where its operations lead.
LEMMA FoldLeads ==
  ASSUME NEW g \in Graphs, NEW ops \in Seq(FrameOperations)
  PROVE  Leads(ops, 1, g, FoldLeft(AppliedOp, g, ops))
<1> DEFINE n == Len(ops)
           step == [j \in 1 .. n |-> [x \in Graphs |-> AppliedOp(x, ops[j])]]
           Equation(f) == f = [s \in SUBSET (1 .. n) |->
                                 IF s = {} THEN g
                                 ELSE AppliedOp(f[s \ {Max(s)}], ops[Max(s)])]
           iter == CHOOSE f : Equation(f)
<1>1. n \in Nat /\ DOMAIN ops = 1 .. n /\ \A j \in 1 .. n : ops[j] \in FrameOperations
  OBVIOUS
<1>2. FoldLeft(AppliedOp, g, ops) = iter[1 .. n]
  BY <1>1 DEF FoldLeft, MapThenFoldSet
<1>3. Equation(iter)
  <2>1. step \in [1 .. n -> [Graphs -> Graphs]]
    <3>1. \A j \in 1 .. n, x \in Graphs : AppliedOp(x, ops[j]) \in Graphs
      BY <1>1, AppliedOpType
    <3> HIDE DEF n
    <3> QED BY <3>1
  <2>2. PICK f \in [SUBSET (1 .. n) -> Graphs] : FoldsSets(f, n, g, step)
    <3> HIDE DEF n, step
    <3> QED BY <1>1, <2>1, SetRecursion
  <2>3. ASSUME NEW s \in SUBSET (1 .. n)
        PROVE  f[s] = IF s = {} THEN g ELSE AppliedOp(f[s \ {Max(s)}], ops[Max(s)])
    <3>1. s # {} => Max(s) \in 1 .. n
      BY <1>1, MaxOfPositions
    <3>2. f[s] = IF s = {} THEN g ELSE step[Max(s)][f[s \ {Max(s)}]]
      BY <2>2 DEF FoldsSets
    <3>3. f[s \ {Max(s)}] \in Graphs
      OBVIOUS
    <3> HIDE DEF n
    <3> QED BY <3>1, <3>2, <3>3
  <2>4. Equation(f)
    <3> HIDE DEF n
    <3> QED BY <2>3
  <2> HIDE DEF Equation
  <2> QED BY <2>4
<1>4. \A s \in SUBSET (1 .. n) :
        iter[s] = IF s = {} THEN g ELSE AppliedOp(iter[s \ {Max(s)}], ops[Max(s)])
  <2> HIDE DEF iter, n
  <2> QED BY <1>3
<1> HIDE DEF iter
<1> DEFINE h == [i \in 0 .. n |-> iter[1 .. i]]
<1>5. h[0] = g
  <2>1. 1 .. 0 = {} /\ 0 \in 0 .. n
    OBVIOUS
  <2> HIDE DEF n
  <2> QED BY <1>4, <2>1
<1>6. ASSUME NEW i \in 1 .. n
      PROVE  h[i] = AppliedOp(h[i - 1], ops[i])
  <2>1. /\ 1 .. i \in SUBSET (1 .. n) /\ 1 .. i # {} /\ Max(1 .. i) = i
        /\ (1 .. i) \ {i} = 1 .. (i - 1)
    BY <1>1, SetRecursionSteps
  <2>2. i \in 0 .. n /\ i - 1 \in 0 .. n
    OBVIOUS
  <2> HIDE DEF n
  <2>3. iter[1 .. i] = AppliedOp(iter[1 .. (i - 1)], ops[i])
    BY <1>4, <2>1
  <2> QED BY <2>2, <2>3
<1>7. h \in [0 .. n -> Graphs]
  <2> DEFINE H == {i \in 0 .. n : h[i] \in Graphs}
  <2> HIDE DEF h
  <2>1. 0 \in H
    BY <1>5
  <2>2. \A i \in 0 .. n - 1 : i \in H => i + 1 \in H
    <3> SUFFICES ASSUME NEW i \in 0 .. n - 1, h[i] \in Graphs PROVE h[i + 1] \in Graphs
      OBVIOUS
    <3> PICK j \in 1 .. n : j = i + 1
      OBVIOUS
    <3>1. j - 1 = i
      OBVIOUS
    <3>2. h[j] = AppliedOp(h[j - 1], ops[j])
      BY <1>6
    <3> QED BY <1>1, <3>1, <3>2, AppliedOpType
  <2>3. 0 .. n \subseteq H
    <3>1. H \in SUBSET Nat
      OBVIOUS
    <3> HIDE DEF H
    <3> QED BY <1>1, <2>1, <2>2, <3>1, UpTo
  <2>4. \A i \in 0 .. n : h[i] \in Graphs
    BY <2>3
  <2> HIDE DEF n
  <2> QED BY <2>4 DEF h
<1>8. LeadsBy(h, ops, 1, g, FoldLeft(AppliedOp, g, ops))
  <2>1. h[Len(ops)] = iter[1 .. n]
    BY <1>1
  <2> HIDE DEF h, iter
  <2> QED BY <1>2, <1>5, <1>6, <2>1 DEF LeadsBy
<1>9. 1 - 1 = 0
  OBVIOUS
<1> HIDE DEF h
<1> QED BY <1>7, <1>8, <1>9 DEF Leads

\* The positions of r are those of f, then those of s.
Concatenates(r, f, s) ==
  /\ \A p \in DOMAIN f : /\ p \in DOMAIN r /\ r[p] = f[p]
                         /\ p \in Nat /\ 1 .. p - 1 \subseteq DOMAIN f
  /\ \A p \in DOMAIN r : p \in DOMAIN f \/ \E q \in DOMAIN s : r[p] = s[q]

\* The places of a concatenation: see Concatenates.
LEMMA Concatenation ==
  ASSUME NEW S, NEW f \in Seq(S), NEW s \in Seq(S)
  PROVE  Concatenates(f \o s, f, s)
<1>1. /\ f \o s \in Seq(S) /\ Len(f \o s) = Len(f) + Len(s)
      /\ \A i \in 1 .. Len(f) + Len(s) : (f \o s)[i] = IF i <= Len(f) THEN f[i] ELSE s[i - Len(f)]
  BY ConcatProperties
<1> PICK a, b, r : a = Len(f) /\ b = Len(s) /\ r = f \o s
  OBVIOUS
<1>2. /\ a \in Nat /\ b \in Nat /\ DOMAIN f = 1 .. a /\ DOMAIN s = 1 .. b /\ DOMAIN r = 1 .. a + b
      /\ \A p \in 1 .. a + b : r[p] = IF p <= a THEN f[p] ELSE s[p - a]
  BY <1>1
<1>3. \A p \in 1 .. a : p \in 1 .. a + b /\ p \in Nat /\ p <= a /\ 1 .. p - 1 \subseteq 1 .. a
  <2>1. a \in Nat /\ b \in Nat
    BY <1>2
  <2> QED BY <2>1
<1>4. \A p \in 1 .. a + b : p \in 1 .. a \/ (p - a \in 1 .. b /\ ~(p <= a))
  <2>1. a \in Nat /\ b \in Nat
    BY <1>2
  <2> QED BY <2>1
<1>5. \A p \in 1 .. a : r[p] = f[p]
  BY <1>2, <1>3
<1>6. \A p \in 1 .. a + b : p \in 1 .. a \/ \E q \in 1 .. b : r[p] = s[q]
  BY <1>2, <1>4
<1> QED BY <1>2, <1>3, <1>5, <1>6, SMTT(30) DEF Concatenates

-----------------------------------------------------------------------------
(* What a frame promises, and how far it has been applied *)

\* h is g after some of the changes of operation o: each node and each edge is as it
\* was, or as o leaves it.
Partly(g, h, o) ==
  /\ \A n \in Ids : h.nodes[n] \in {g.nodes[n], AppliedToNode(g.nodes[n], n, o)}
  /\ \A e \in Ids : h.edges[e] \in {g.edges[e], AppliedToEdge(g.edges[e], e, o)}

\* The IDs issued so far, and those that hold an object.
Issued == [nodes |-> nodes_next_id, edges |-> edges_next_id]
Stored == [nodes |-> {n \in Ids : nodes[n] # Absent}, edges |-> {e \in Ids : edges[e] # Absent}]

NextIdOf(o, issued) == IF o.kind = "insert_node" THEN issued.nodes ELSE issued.edges
Holds(o, stored) == o.id \in (IF o.kind = "insert_node" THEN stored.nodes ELSE stored.edges)
UpdatedKind(o) == IF o.kind = "insert_node" THEN "update_node" ELSE "update_edge"

\* The operations of a commit: the IDs of inserts ascend, and no update changes an
\* element the same frame inserts.
Frame(ops) ==
  /\ ops \in Seq(FrameOperations)
  /\ \A i, j \in DOMAIN ops :
       IsInsert(ops[i]) =>
         /\ i < j /\ ops[j].kind = ops[i].kind => ops[i].id < ops[j].id
         /\ ops[j].kind = UpdatedKind(ops[i]) => ops[i].id # ops[j].id

\* No insert skips an ID.
Anchored(ops, issued) ==
  \A j \in DOMAIN ops :
    IsInsert(ops[j]) =>
      \/ ops[j].id <= NextIdOf(ops[j], issued)
      \/ \E i \in 1 .. j - 1 : ops[i].kind = ops[j].kind /\ ops[i].id + 1 = ops[j].id

\* The IDs of the inserts before position at are issued; those from at on are not.
Behind(ops, at, issued) ==
  \A i \in 1 .. at - 1 : IsInsert(ops[i]) => ops[i].id < NextIdOf(ops[i], issued)
Ahead(ops, at, issued) ==
  \A i \in at .. Len(ops) : IsInsert(ops[i]) => ops[i].id >= NextIdOf(ops[i], issued)

\* An insert from position at on can never be applied again: its element was
\* deleted, and its ID is not issued twice.
Stuck(ops, at, issued, stored) ==
  \E i \in at .. Len(ops) :
    IsInsert(ops[i]) /\ ops[i].id < NextIdOf(ops[i], issued) /\ ~Holds(ops[i], stored)

\* What a frame inserts is there as it was inserted, or not at all.
Kept(ops, graph) ==
  \A i \in DOMAIN ops : ops[i].id \in Ids =>
    /\ ops[i].kind = "insert_node" => graph.nodes[ops[i].id] \in {Absent, ops[i].doc}
    /\ ops[i].kind = "insert_edge" => graph.edges[ops[i].id] \in {Absent, EdgeOf(ops[i])}

\* The frame, applied up to position at, still leads to the graph it promises,
\* from there and from its beginning; or it never gets to its end.
Applying(ops, at, issued, stored, graph, promised) ==
  /\ Frame(ops) /\ at \in 1 .. Len(ops) + 1
  /\ Anchored(ops, issued) /\ Behind(ops, at, issued)
  /\ \/ Stuck(ops, at, issued, stored)
     \/ /\ Kept(ops, graph)
        /\ Leads(ops, 1, graph, promised) /\ Leads(ops, at, graph, promised)

\* Some of the changes of an operation are changes that can be made again.
LEMMA PartlyNudged ==
  ASSUME NEW g \in Graphs, NEW h \in Graphs, NEW o \in FrameOperations, Partly(g, h, o)
  PROVE  Nudged(g, h, o)
<1>1. o.doc \in Documents \/ o.kind \notin {"insert_node", "insert_edge", "update_node", "update_edge"}
  BY DEF FrameOperations
<1>2. ASSUME NEW n \in Ids PROVE NudgedNode(g.nodes[n], h.nodes[n], n, o)
  <2>1. h.nodes[n] \in {g.nodes[n], AppliedToNode(g.nodes[n], n, o)}
    BY DEF Partly
  <2> QED BY <1>1, <2>1 DEF NudgedNode, AppliedToNode
<1>3. ASSUME NEW e \in Ids PROVE NudgedEdge(g.edges[e], h.edges[e], e, o)
  <2> PICK v, w : v = g.edges[e] /\ w = h.edges[e]
    OBVIOUS
  <2>1. w \in {v, AppliedToEdge(v, e, o)} /\ v \in EdgeRecords \cup {Absent}
    BY DEF Partly, Graphs
  <2>2. CASE v # Absent /\ o.kind = "update_edge" /\ o.id = e /\ w # v
    <3>1. w = [v EXCEPT !.doc = o.doc] /\ v \in EdgeRecords
      BY <2>1, <2>2 DEF AppliedToEdge, Detaches
    <3>2. w \in EdgeRecords /\ w.source = v.source /\ w.destination = v.destination
      BY <1>1, <2>2, <3>1 DEF EdgeRecords
    <3>3. w # Absent
      BY <3>2 DEF EdgeRecords
    <3> QED BY <2>2, <3>2, <3>3 DEF NudgedEdge
  <2>3. CASE ~(v # Absent /\ o.kind = "update_edge" /\ o.id = e /\ w # v)
    BY <2>1, <2>3 DEF NudgedEdge, AppliedToEdge, Detaches
  <2> QED BY <2>2, <2>3
<1> QED BY <1>2, <1>3 DEF Nudged

\* A frame keeps what it inserts.
LEMMA KeptPartly ==
  ASSUME NEW g \in Graphs, NEW h \in Graphs, NEW ops, Frame(ops), NEW k \in DOMAIN ops,
         Partly(g, h, ops[k]), Kept(ops, g)
  PROVE  Kept(ops, h)
<1>0. ops \in Seq(FrameOperations)
  BY DEF Frame
<1>1. ASSUME NEW i \in DOMAIN ops, ops[i].id \in Ids, ops[i].kind = "insert_node"
      PROVE  h.nodes[ops[i].id] \in {Absent, ops[i].doc}
  <2> PICK n \in Ids : n = ops[i].id
    BY <1>1
  <2>1. g.nodes[n] \in {Absent, ops[i].doc}
    BY <1>1 DEF Kept
  <2>2. h.nodes[n] \in {g.nodes[n], AppliedToNode(g.nodes[n], n, ops[k])}
    BY DEF Partly
  <2>3. ops[k].kind = "insert_node" /\ ops[k].id = n => k = i
    <3> SUFFICES ASSUME ops[k].kind = "insert_node", ops[k].id = n, k # i PROVE FALSE
      OBVIOUS
    <3>1. k < i \/ i < k
      BY <1>0
    <3>2. ops[k].id < ops[i].id \/ ops[i].id < ops[k].id
      BY <1>1, <3>1 DEF Frame, IsInsert
    <3> QED BY <3>2
  <2>4. ~(ops[k].kind = "update_node" /\ ops[k].id = n)
    BY <1>1 DEF Frame, IsInsert, UpdatedKind
  <2> QED BY <2>1, <2>2, <2>3, <2>4 DEF AppliedToNode
<1>2. ASSUME NEW i \in DOMAIN ops, ops[i].id \in Ids, ops[i].kind = "insert_edge"
      PROVE  h.edges[ops[i].id] \in {Absent, EdgeOf(ops[i])}
  <2> PICK e \in Ids : e = ops[i].id
    BY <1>2
  <2>1. g.edges[e] \in {Absent, EdgeOf(ops[i])}
    BY <1>2 DEF Kept
  <2>2. h.edges[e] \in {g.edges[e], AppliedToEdge(g.edges[e], e, ops[k])}
    BY DEF Partly
  <2>3. ops[k].kind = "insert_edge" /\ ops[k].id = e => k = i
    <3> SUFFICES ASSUME ops[k].kind = "insert_edge", ops[k].id = e, k # i PROVE FALSE
      OBVIOUS
    <3>1. k < i \/ i < k
      BY <1>0
    <3>2. ops[k].id < ops[i].id \/ ops[i].id < ops[k].id
      BY <1>2, <3>1 DEF Frame, IsInsert
    <3> QED BY <3>2
  <2>4. ~(ops[k].kind = "update_edge" /\ ops[k].id = e)
    BY <1>2 DEF Frame, IsInsert, UpdatedKind
  <2> QED BY <2>1, <2>2, <2>3, <2>4 DEF AppliedToEdge
<1> QED BY <1>1, <1>2 DEF Kept

\* IDs are issued in ascending order, and an element that is gone stays away.
Later(issued, stored, issued2, stored2) ==
  /\ issued \in [nodes : Nat, edges : Nat] /\ issued2 \in [nodes : Nat, edges : Nat]
  /\ issued.nodes <= issued2.nodes /\ issued.edges <= issued2.edges
  /\ \A n \in Nat : n < issued.nodes /\ n \notin stored.nodes => n \notin stored2.nodes
  /\ \A e \in Nat : e < issued.edges /\ e \notin stored.edges => e \notin stored2.edges

\* What is stuck stays stuck.
LEMMA StuckLater ==
  ASSUME NEW ops \in Seq(FrameOperations), NEW at \in Nat \ {0}, NEW i1, NEW s1, NEW i2, NEW s2,
         Later(i1, s1, i2, s2), Stuck(ops, at, i1, s1)
  PROVE  Stuck(ops, at, i2, s2)
<1> PICK i \in at .. Len(ops) :
      IsInsert(ops[i]) /\ ops[i].id < NextIdOf(ops[i], i1) /\ ~Holds(ops[i], s1)
  BY DEF Stuck
<1>1. i \in 1 .. Len(ops) /\ ops[i].id \in Nat
  <2>1. i \in 1 .. Len(ops)
    OBVIOUS
  <2> QED BY <2>1, SMTT(30) DEF FrameOperations, Operations
<1>2. ops[i].id < NextIdOf(ops[i], i2) /\ ~Holds(ops[i], s2)
  BY <1>1 DEF Later, NextIdOf, Holds
<1> QED BY <1>2 DEF Stuck

\* A step of the operation in progress, or a frame that is stuck.
LEMMA ApplyingMoves ==
  ASSUME NEW ops, NEW at \in DOMAIN ops, NEW i1, NEW s1, NEW i2, NEW s2,
         NEW g \in Graphs, NEW h \in Graphs, NEW r,
         Applying(ops, at, i1, s1, g, r), Later(i1, s1, i2, s2),
         Partly(g, h, ops[at]) \/ Stuck(ops, at, i1, s1)
  PROVE  Applying(ops, at, i2, s2, h, r)
<1>1. Frame(ops) /\ ops \in Seq(FrameOperations) /\ at \in 1 .. Len(ops)
  BY DEF Applying, Frame
<1>a. \A i \in DOMAIN ops : ops[i].id \in Nat
  BY <1>1 DEF FrameOperations, Operations
<1>2. Anchored(ops, i2)
  <2>1. Anchored(ops, i1)
    BY DEF Applying
  <2>2. \A i \in DOMAIN ops : ops[i].id <= NextIdOf(ops[i], i1) => ops[i].id <= NextIdOf(ops[i], i2)
    BY <1>a DEF Later, NextIdOf
  <2> QED BY <2>1, <2>2 DEF Anchored
<1>3. Behind(ops, at, i2)
  <2>1. Behind(ops, at, i1)
    BY DEF Applying
  <2>2. \A i \in DOMAIN ops : ops[i].id < NextIdOf(ops[i], i1) => ops[i].id < NextIdOf(ops[i], i2)
    BY <1>a DEF Later, NextIdOf
  <2>3. \A i \in 1 .. at - 1 : i \in DOMAIN ops
    BY <1>1
  <2> QED BY <2>1, <2>2, <2>3 DEF Behind
<1>4. CASE Stuck(ops, at, i1, s1)
  <2>1. Stuck(ops, at, i2, s2)
    <3>1. at \in Nat \ {0}
      BY <1>1
    <3> QED BY <1>1, <1>4, <3>1, StuckLater
  <2> QED BY <1>1, <1>2, <1>3, <2>1 DEF Applying
<1>5. CASE Partly(g, h, ops[at]) /\ ~Stuck(ops, at, i1, s1)
  <2>1. Kept(ops, g) /\ Leads(ops, 1, g, r) /\ Leads(ops, at, g, r)
    BY <1>5 DEF Applying
  <2>2. Kept(ops, h)
    BY <1>1, <1>5, <2>1, KeptPartly
  <2>3. Nudged(g, h, ops[at])
    BY <1>1, <1>5, PartlyNudged
  <2>4. Leads(ops, at, h, r)
    <3>1. at \in at .. Len(ops)
      BY <1>1
    <3> QED BY <1>1, <2>1, <2>3, <3>1, LeadsNudged
  <2>5. Leads(ops, 1, h, r)
    <3>1. 1 \in 1 .. Len(ops)
      BY <1>1
    <3> QED BY <1>1, <2>1, <2>3, <3>1, LeadsNudged
  <2> QED BY <1>1, <1>2, <1>3, <2>2, <2>4, <2>5 DEF Applying
<1> QED BY <1>4, <1>5

\* The operation is done, or there is nothing to do.
LEMMA ApplyingAdvances ==
  ASSUME NEW ops, NEW at \in DOMAIN ops, NEW i, NEW s, NEW g \in Graphs, NEW r,
         Applying(ops, at, i, s, g, r),
         IsInsert(ops[at]) => ops[at].id < NextIdOf(ops[at], i) /\ Holds(ops[at], s),
         Kept(ops, g) => AppliedOp(g, ops[at]) = g
  PROVE  Applying(ops, at + 1, i, s, g, r)
<1>1. Frame(ops) /\ ops \in Seq(FrameOperations) /\ at \in 1 .. Len(ops) /\ Len(ops) \in Nat
  BY DEF Applying, Frame
<1>2. at + 1 \in 1 .. Len(ops) + 1
  BY <1>1
<1>3. Anchored(ops, i)
  BY DEF Applying
<1>4. Behind(ops, at + 1, i)
  <2>1. \A j \in 1 .. (at + 1) - 1 : j = at \/ j \in 1 .. at - 1
    BY <1>1
  <2>2. Behind(ops, at, i)
    BY DEF Applying
  <2> QED BY <2>1, <2>2 DEF Behind
<1>5. CASE Stuck(ops, at, i, s)
  <2>1. PICK j \in at .. Len(ops) :
          IsInsert(ops[j]) /\ ops[j].id < NextIdOf(ops[j], i) /\ ~Holds(ops[j], s)
    BY <1>5 DEF Stuck
  <2>2. j # at
    BY <2>1
  <2>3. j \in at + 1 .. Len(ops)
    BY <1>1, <2>2
  <2> QED BY <1>1, <1>2, <1>3, <1>4, <2>1, <2>3 DEF Stuck, Applying
<1>6. CASE ~Stuck(ops, at, i, s)
  <2>1. Kept(ops, g) /\ Leads(ops, 1, g, r) /\ Leads(ops, at, g, r)
    BY <1>6 DEF Applying
  <2>2. Leads(ops, at + 1, AppliedOp(g, ops[at]), r)
    BY <1>1, <2>1, LeadsNext
  <2> QED BY <1>1, <1>2, <1>3, <1>4, <2>1, <2>2 DEF Applying
<1> QED BY <1>5, <1>6

\* A crash, or closing the store: the frame is applied from its beginning again.
LEMMA ApplyingAgain ==
  ASSUME NEW ops, NEW at, NEW i, NEW s, NEW g, NEW r, Applying(ops, at, i, s, g, r)
  PROVE  Applying(ops, 1, i, s, g, r)
<1>1. ops \in Seq(FrameOperations) /\ at \in 1 .. Len(ops) + 1
  BY DEF Applying, Frame
<1>2. Behind(ops, 1, i) /\ 1 \in 1 .. Len(ops) + 1
  BY <1>1 DEF Behind
<1>3. Stuck(ops, at, i, s) => Stuck(ops, 1, i, s)
  <2>1. at .. Len(ops) \subseteq 1 .. Len(ops)
    BY <1>1
  <2> QED BY <2>1 DEF Stuck
<1> QED BY <1>2, <1>3 DEF Applying

\* A frame applied to its end has led to the graph it promised.
LEMMA ApplyingEnds ==
  ASSUME NEW ops, NEW i, NEW s, NEW g, NEW r, Applying(ops, Len(ops) + 1, i, s, g, r)
  PROVE  g = r
<1>1. ops \in Seq(FrameOperations) /\ Len(ops) \in Nat
  BY DEF Applying, Frame
<1>2. ~Stuck(ops, Len(ops) + 1, i, s)
  BY <1>1 DEF Stuck
<1> QED BY <1>1, <1>2, LeadsEnd DEF Applying

\* The commit point: nothing of the frame is applied, and nothing it inserts is
\* there yet.
LEMMA ApplyingBegins ==
  ASSUME NEW ops, NEW i \in [nodes : Nat, edges : Nat], NEW s, NEW g \in Graphs,
         Frame(ops), Anchored(ops, i), Ahead(ops, 1, i),
         \A n \in Ids : n >= i.nodes => g.nodes[n] = Absent,
         \A e \in Ids : e >= i.edges => g.edges[e] = Absent
  PROVE  Applying(ops, 1, i, s, g, FoldLeft(AppliedOp, g, ops))
<1>1. ops \in Seq(FrameOperations) /\ Len(ops) \in Nat /\ DOMAIN ops = 1 .. Len(ops)
  BY DEF Frame
<1>2. Behind(ops, 1, i) /\ 1 \in 1 .. Len(ops) + 1
  BY <1>1 DEF Behind
<1>3. Kept(ops, g)
  BY <1>1 DEF Kept, Ahead, IsInsert, NextIdOf
<1>4. Leads(ops, 1, g, FoldLeft(AppliedOp, g, ops))
  BY <1>1, FoldLeads
<1> HIDE DEF Ids
<1> QED BY <1>2, <1>3, <1>4 DEF Applying

-----------------------------------------------------------------------------
(* The inductive invariant *)

\* IDs that have not been issued hold nothing.
Unissued ==
  /\ \A n \in Ids : n >= nodes_next_id => nodes[n] = Absent
  /\ \A e \in Ids : e >= edges_next_id => edges[e] = Absent

Frames == Seq(FrameOperations \cup {Garbage})
Works ==
  [mode : {"execute", "commit", "replay"}, ops : Frames, at : Nat \ {0},
   pc : {"resize", "write", "apply", "clear"}]
  \cup [mode : {"execute", "commit", "replay"}, ops : Frames, at : Nat \ {0},
        pc : {"running"}, before : 0 .. SIZE_MAX]

\* The types of the variables, and the points of the code a call gets to.
Shape ==
  /\ wal = NoFrame \/ wal \in Frames
  /\ transaction \in [active : BOOLEAN, calls : Seq(Calls)]
  /\ ~transaction.active => transaction.calls = <<>>
  /\ aux_frame \in FrameStates
  /\ work = NoWork \/ (work \in Works /\ up /\ work.at <= Len(work.ops) + 1)
  /\ op # Store!Idle => work.pc = "running"
  /\ work.pc = "running" => work.at <= Len(work.ops) /\ Current.kind # "garbage"
  /\ work.pc = "clear" => work.at = Len(work.ops) + 1 /\ work.mode # "execute"
  /\ work.pc \in {"resize", "write"} => work.mode = "commit" /\ work.at = 1

\* The frame in wal.ll is one that a commit wrote and did not give up.
Pending == aux_frame # "failed" /\ wal # NoFrame /\ wal # <<>>

\* Opening a database that is not open applies its frame, which can be applied.
DownInv == ~up /\ Pending => Applying(wal, 1, Issued, Stored, Graph, aux_promised)

\* Only a failed commit leaves its frame behind in an open database.
QuietInv == up /\ (work = NoWork \/ work.mode = "execute") => wal = NoFrame \/ aux_frame = "failed"

\* A commit that has not reached its commit point.
PlanInv ==
  work.pc \in {"resize", "write"} =>
    /\ Frame(work.ops) /\ Anchored(work.ops, Issued) /\ Ahead(work.ops, 1, Issued)
    /\ aux_frame = "failed" \/ wal \in {NoFrame, <<>>}

\* A commit behind its commit point, or the replay of the frame it wrote.
Doing ==
  /\ work.pc \in {"apply", "running", "clear"}
  /\ work.mode = "commit" \/ (work.mode = "replay" /\ Pending)
ApplyInv ==
  Doing => wal = work.ops /\ Applying(work.ops, work.at, Issued, Stored, Graph, aux_promised)

\* The inserts still to come have IDs that are not issued; the one in progress
\* gets the ID of the frame, or the frame is stuck.
CommitInv ==
  work.pc \in {"apply", "running", "clear"} /\ work.mode = "commit" =>
    /\ aux_frame = IF work.pc = "clear" THEN "applied" ELSE "pending"
    /\ Ahead(work.ops, IF work.pc = "running" THEN work.at + 1 ELSE work.at, Issued)
MissedInv ==
  Doing /\ work.pc = "running" /\ IsInsert(Current) /\ work.before # Current.id =>
    work.mode = "replay" /\ Stuck(work.ops, work.at, Issued, Stored)

\* How far the store has come with the operation of a frame.
InsertPcs == {"grow", "stamp_capacity", "edge_object", "edge_record", "stamp_edges"}
Progress(o, before) ==
  /\ o.kind = "insert_node" =>
       /\ op.pc \in {"stamp_vertices", "idle"}
       /\ before \in Ids /\ nodes_next_id = before + 1 /\ nodes[before] = o.doc
  /\ o.kind = "insert_edge" =>
       /\ op.pc \in InsertPcs \cup {"idle"}
       /\ op.pc \in InsertPcs =>
            op.source = o.source /\ op.destination = o.destination /\ op.doc = o.doc
       /\ op.pc \in {"grow", "stamp_capacity", "edge_object"} => edges_next_id = before
       /\ op.pc \in {"edge_record", "stamp_edges"} =>
            before \in Ids /\ edges_next_id = before + 1 /\ edges[before] = o.doc
       /\ op.pc = "idle" =>
            \/ edges_next_id = before
            \/ (before \in Ids /\ edges_next_id = before + 1 /\ Graph.edges[before] = EdgeOf(o))
  /\ o.kind \in {"update_node", "update_edge", "delete_edge", "delete_node"} => o.id \in Ids
  /\ o.kind = "update_node" => op.pc = "idle" /\ nodes[o.id] = o.doc
  /\ o.kind = "update_edge" => op.pc = "idle" /\ edges[o.id] = o.doc
  /\ o.kind = "delete_edge" =>
       /\ edges[o.id] = Absent
       /\ op.pc = "idle" \/ (op.pc = "tombstone" /\ op.edge = o.id /\ op.node = SIZE_MAX)
  /\ o.kind = "delete_node" =>
       \/ op.pc = "idle" /\ nodes[o.id] = Absent
       \/ op.pc \in {"detach", "tombstone"} /\ op.node = o.id /\ o.detach
RunningInv == work.pc = "running" /\ work.mode # "execute" => Progress(Current, work.before)

DInv ==
  /\ Store!IInv /\ Unissued /\ Shape
  /\ DownInv /\ QuietInv /\ PlanInv /\ ApplyInv /\ CommitInv /\ MissedInv /\ RunningInv

-----------------------------------------------------------------------------
(* The operations a commit resolves its calls to *)

\* Call i of a transaction inserts an element of the kind of call j.
Inserts(calls, i, j) == calls[i].code = "insert" /\ calls[i].element = calls[j].element

\* The inserts of a kind are counted in the order of the calls, without gaps.
LEMMA InsertsCounted ==
  ASSUME NEW calls \in Seq(Calls)
  PROVE  /\ \A j \in DOMAIN calls : InsertsBefore(calls, j) \in Nat
         /\ \A i, j \in DOMAIN calls :
              i < j /\ Inserts(calls, i, j) => InsertsBefore(calls, i) < InsertsBefore(calls, j)
         /\ \A j \in DOMAIN calls : InsertsBefore(calls, j) # 0 =>
              \E i \in 1 .. j - 1 :
                Inserts(calls, i, j) /\ InsertsBefore(calls, i) + 1 = InsertsBefore(calls, j)
<1> DEFINE B(i, j) == {k \in 1 .. i - 1 : Inserts(calls, k, j)}
<1>0. \A j \in DOMAIN calls : j \in 1 .. Len(calls) /\ Len(calls) \in Nat
  OBVIOUS
<1>1. ASSUME NEW i \in DOMAIN calls, NEW j \in DOMAIN calls
      PROVE  IsFiniteSet(B(i, j)) /\ Cardinality(B(i, j)) \in Nat
  <2>1. IsFiniteSet(1 .. i - 1)
    <3>1. 1 \in Int /\ i - 1 \in Int
      BY <1>0
    <3> QED BY <3>1, FS_Interval
  <2>2. B(i, j) \in SUBSET (1 .. i - 1)
    OBVIOUS
  <2> HIDE DEF B
  <2> QED BY <2>1, <2>2, FS_Subset, FS_CardinalityType
<1>2. \A j \in DOMAIN calls : InsertsBefore(calls, j) = Cardinality(B(j, j))
  BY DEF InsertsBefore, Inserts
<1>3. \A i, j \in DOMAIN calls : calls[i].element = calls[j].element => B(i, i) = B(i, j)
  BY DEF Inserts
<1>4. ASSUME NEW i \in DOMAIN calls, NEW j \in DOMAIN calls, i < j, Inserts(calls, i, j)
      PROVE  InsertsBefore(calls, i) < InsertsBefore(calls, j)
  <2>1. i \in B(j, j) /\ i \notin B(i, j)
    BY <1>0, <1>4
  <2>2. B(i, j) \in SUBSET B(j, j)
    BY <1>0, <1>4
  <2>3. InsertsBefore(calls, i) = Cardinality(B(i, j))
    <3> HIDE DEF B
    <3> QED BY <1>2, <1>3, <1>4 DEF Inserts
  <2>4. /\ Cardinality(B(i, j)) <= Cardinality(B(j, j))
        /\ Cardinality(B(j, j)) = Cardinality(B(i, j)) => B(j, j) = B(i, j)
    <3> HIDE DEF B
    <3> QED BY <1>1, <2>2, FS_Subset
  <2> HIDE DEF B
  <2> QED BY <1>1, <1>2, <2>1, <2>3, <2>4
<1>5. ASSUME NEW j \in DOMAIN calls, InsertsBefore(calls, j) # 0
      PROVE  \E i \in 1 .. j - 1 :
               Inserts(calls, i, j) /\ InsertsBefore(calls, i) + 1 = InsertsBefore(calls, j)
  <2> DEFINE T == B(j, j)
  <2>1. T # {}
    <3>1. Cardinality(B(j, j)) # 0
      <4> HIDE DEF B
      <4> QED BY <1>2, <1>5
    <3> HIDE DEF B
    <3> QED BY <3>1, FS_EmptySet
  <2>2. T \in SUBSET (1 .. j - 1) /\ j - 1 \in Nat
    BY <1>0
  <2>3. PICK i \in T : \A k \in T : k <= i
    <3> HIDE DEF T
    <3> QED BY <2>1, <2>2, MaxOfPositions
  <2>4. i \in 1 .. j - 1 /\ Inserts(calls, i, j) /\ i \in DOMAIN calls
    BY <1>0
  <2>5. B(i, i) = B(i, j)
    BY <1>3, <2>4 DEF Inserts
  <2>6. B(j, j) = B(i, j) \cup {i} /\ i \notin B(i, j)
    <3>1. \A k \in B(j, j) : k \in Nat /\ k <= i
      BY <2>3, <1>0
    <3>2. \A k \in B(j, j) : k = i \/ k \in B(i, j)
      BY <3>1, <2>4
    <3>3. \A k \in B(i, j) : k \in B(j, j) /\ k # i
      BY <2>4, <1>0, SMTT(30)
    <3>4. i \in B(j, j)
      OBVIOUS
    <3> HIDE DEF B, T
    <3> QED BY <3>2, <3>3, <3>4
  <2>7. Cardinality(B(j, j)) = Cardinality(B(i, j)) + 1
    <3>1. IsFiniteSet(B(i, j))
      <4> HIDE DEF B
      <4> QED BY <1>1, <2>4
    <3> HIDE DEF B, T
    <3> QED BY <2>6, <3>1, FS_AddElement
  <2> HIDE DEF B, T
  <2> QED BY <1>1, <1>2, <2>4, <2>5, <2>7
<1> HIDE DEF B
<1> QED BY <1>1, <1>2, <1>4, <1>5

\* The insert a call of a transaction resolves to.
PlannedId(calls, i) ==
  (IF calls[i].element = "node" THEN nodes_next_id ELSE edges_next_id) + InsertsBefore(calls, i)
Planned(calls, i) == Insertion(calls[i], PlannedId(calls, i))

\* The operations a call may resolve to: inserts of IDs that are not issued,
\* changes of elements that are stored.
Target(o) ==
  o.id \in Ids /\ (IF o.kind \in {"update_node", "delete_node"} THEN nodes ELSE edges)[o.id] # Absent
Resolved == {o \in FrameOperations : IF IsInsert(o) THEN o.id >= NextIdOf(o, Issued) ELSE Target(o)}

Elements ==
  /\ nodes \in [Ids -> Documents \cup {Absent}] /\ nodes_next_id \in 0 .. SIZE_MAX
  /\ edges \in [Ids -> Documents \cup {Absent}] /\ edges_next_id \in 0 .. SIZE_MAX

\* An insert takes its arguments from the call.
LEMMA PlannedResolved ==
  ASSUME Elements, NEW calls \in Seq(Calls), NEW i \in DOMAIN calls, calls[i].code = "insert"
  PROVE  /\ Planned(calls, i) \in Resolved /\ IsInsert(Planned(calls, i))
         /\ Planned(calls, i).id = PlannedId(calls, i)
         /\ Planned(calls, i).kind = InsertKind(calls[i])
         /\ NextIdOf(Planned(calls, i), Issued) + InsertsBefore(calls, i) = PlannedId(calls, i)
         /\ PlannedId(calls, i) \in Nat
<1> PICK n : n = InsertsBefore(calls, i)
  OBVIOUS
<1>1. n \in Nat
  BY InsertsCounted
<1>2. calls[i] \in Calls
  OBVIOUS
<1> PICK call \in Calls : call = calls[i]
  BY <1>2
<1>3. /\ call.element \in {"node", "edge"} /\ call.source \in Ids /\ call.destination \in Ids
      /\ call.payload \in Documents
  BY CallsAssumption
<1> PICK id : id = PlannedId(calls, i)
  OBVIOUS
<1>4. id = (IF call.element = "node" THEN nodes_next_id ELSE edges_next_id) + n /\ id \in Nat
  BY <1>1 DEF PlannedId, Elements
<1> PICK o : o = Planned(calls, i)
  OBVIOUS
<1>5. o = [kind |-> IF call.element = "node" THEN "insert_node" ELSE "insert_edge", id |-> id,
           source |-> call.source, destination |-> call.destination, detach |-> FALSE,
           doc |-> call.payload]
  BY DEF Planned, Insertion, Operation, InsertKind
<1>6. o \in FrameOperations
  <2>1. o \in Operations
    BY <1>3, <1>4, <1>5 DEF Operations
  <2> QED BY <1>3, <1>5, <2>1 DEF FrameOperations
<1>7. IsInsert(o) /\ o.id = id /\ o.kind = InsertKind(calls[i]) /\ NextIdOf(o, Issued) + n = id
  BY <1>3, <1>4, <1>5 DEF IsInsert, InsertKind, NextIdOf, Issued
<1>8. NextIdOf(o, Issued) \in Nat
  BY DEF NextIdOf, Issued, Elements
<1>9. o \in Resolved
  BY <1>1, <1>6, <1>7, <1>8 DEF Resolved
<1> QED BY <1>4, <1>7, <1>9

\* A SET or a DELETE changes what its pattern matches.
LEMMA MutationsResolved ==
  ASSUME Elements, NEW call \in Calls, call.code # "insert"
  PROVE  /\ Mutations(call) \in Seq(Resolved)
         /\ \A p \in DOMAIN Mutations(call) : ~IsInsert(Mutations(call)[p])
<1> DEFINE k == SIZE_MAX - 1
           kind == IF ResultKind(call.match) = "node"
                     THEN IF call.code = "update" THEN "update_node" ELSE "delete_node"
                     ELSE IF call.code = "update" THEN "update_edge" ELSE "delete_edge"
           made(id) == Operation(kind, id, 0, 0, call.code = "delete" /\ call.detach,
                                 IF call.code = "update" THEN call.payload ELSE Absent)
           Live == {id \in 0 .. k : IF ResultKind(call.match) = "edge" THEN edges[id] # Absent
                                                                      ELSE nodes[id] # Absent}
<1>1. /\ call.code \in {"update", "delete"}
      /\ call.code = "update" => call.payload \in Documents
      /\ call.code = "delete" => call.detach \in BOOLEAN
      /\ call.match.is_edge_pattern \in BOOLEAN
      /\ call.match.is_edge_pattern => call.match.binding \in {"source", "edge", "destination"}
  BY CallsAssumption
<1>2. k \in Nat /\ DOMAIN nodes = 0 .. k /\ DOMAIN edges = 0 .. k
  BY DEF Elements
<1> PICK ids : ids = Matches(call)
  OBVIOUS
<1>3. ids \in Seq(Live)
  <2> HIDE DEF k
  <2> QED BY <1>1, <1>2, MatchesExist DEF Matches
<1>4. Mutations(call) = [i \in DOMAIN ids |-> made(ids[i])]
  BY DEF Mutations
<1>5. ASSUME NEW id \in Live
      PROVE  made(id) \in Resolved /\ ~IsInsert(made(id))
  <2> PICK o : o = made(id)
    OBVIOUS
  <2>1. o = [kind |-> kind, id |-> id, source |-> 0, destination |-> 0,
             detach |-> (call.code = "delete" /\ call.detach),
             doc |-> IF call.code = "update" THEN call.payload ELSE Absent]
    BY DEF Operation
  <2>2. ResultKind(call.match) \in {"node", "edge"}
    BY DEF ResultKind
  <2>3. 0 \in Ids /\ id \in Ids /\ id \in Nat
    OBVIOUS
  <2>4. kind \in {"update_node", "update_edge", "delete_node", "delete_edge"}
    OBVIOUS
  <2>5. (call.code = "delete" /\ call.detach) \in BOOLEAN
    BY <1>1
  <2>6. (IF call.code = "update" THEN call.payload ELSE Absent) \in Documents \cup {Absent}
    BY <1>1
  <2>7. o \in Operations
    <3> PICK K, b, d : /\ K = kind /\ b = (call.code = "delete" /\ call.detach)
                       /\ d = IF call.code = "update" THEN call.payload ELSE Absent
      OBVIOUS
    <3>1. o = [kind |-> K, id |-> id, source |-> 0, destination |-> 0, detach |-> b, doc |-> d]
      BY <2>1
    <3>2. K \in {"insert_node", "insert_edge", "update_node", "update_edge", "delete_node",
                 "delete_edge"}
      BY <2>4
    <3>3. b \in BOOLEAN /\ d \in Documents \cup {Absent}
      BY <2>5, <2>6
    <3> HIDE DEF kind
    <3> HIDE StoreAssumption
    <3>4. [kind |-> K, id |-> id, source |-> 0, destination |-> 0, detach |-> b,
           doc |-> d] \in Operations
      BY <2>3, <3>2, <3>3 DEF Operations
    <3> QED BY <3>1, <3>4
  <2>8. o.kind = kind /\ o.id = id /\ (call.code = "update" => o.doc \in Documents)
    BY <1>1, <2>1
  <2>9. o.kind \in {"update_node", "update_edge"} => call.code = "update"
    BY <2>8
  <2>10. o \in FrameOperations
    BY <2>4, <2>7, <2>8, <2>9 DEF FrameOperations
  <2>11. ~IsInsert(o)
    BY <2>4, <2>8 DEF IsInsert
  <2>12. Target(o)
    BY <2>2, <2>3, <2>8 DEF Target
  <2> QED BY <2>10, <2>11, <2>12 DEF Resolved
<1>6. Len(ids) \in Nat /\ DOMAIN ids = 1 .. Len(ids) /\ \A i \in DOMAIN ids : ids[i] \in Live
  <2> HIDE DEF Live
  <2> QED BY <1>3
<1> HIDE DEF made, Live
<1> QED BY <1>4, <1>5, <1>6

\* What the operations of the first m calls have in common.
Plan(f, calls, m) ==
  /\ \A p \in DOMAIN f : IsInsert(f[p]) =>
       \E i \in 1 .. m : calls[i].code = "insert" /\ f[p] = Planned(calls, i)
  /\ \A i \in 1 .. m : calls[i].code = "insert" => \E p \in DOMAIN f : f[p] = Planned(calls, i)
Ascends(f) ==
  \A p, q \in DOMAIN f : IsInsert(f[p]) /\ p < q /\ f[q].kind = f[p].kind => f[p].id < f[q].id

\* A commit writes a frame: its inserts follow the IDs the store has issued, and
\* its updates and deletes concern what was there before.
LEMMA CommitPlansFrame ==
  ASSUME Elements, Unissued, NEW calls \in Seq(Calls)
  PROVE  /\ Frame(ResolvedOperations(calls))
         /\ Anchored(ResolvedOperations(calls), Issued)
         /\ Ahead(ResolvedOperations(calls), 1, Issued)
<1> DEFINE n == Len(calls)
           seqs == [i \in DOMAIN calls |->
                      IF calls[i].code = "insert" THEN <<Planned(calls, i)>> ELSE Mutations(calls[i])]
<1>0. n \in Nat /\ DOMAIN calls = 1 .. n /\ \A i \in 1 .. n : calls[i] \in Calls
  OBVIOUS
<1>1. ResolvedOperations(calls) = FlattenSeq(seqs)
  BY DEF ResolvedOperations, Planned, PlannedId
<1>2. \A i \in 1 .. n : calls[i].code = "insert" => Planned(calls, i) \in Resolved
  BY <1>0, PlannedResolved
<1>3. \A i \in 1 .. n : calls[i].code # "insert" =>
        /\ Mutations(calls[i]) \in Seq(Resolved)
        /\ \A p \in DOMAIN Mutations(calls[i]) : ~IsInsert(Mutations(calls[i])[p])
  BY <1>0, MutationsResolved
<1>4. seqs \in Seq(Seq(Resolved)) /\ Len(seqs) = n
  <2>1. \A i \in 1 .. n : seqs[i] \in Seq(Resolved)
    <3> TAKE i \in 1 .. n
    <3>1. CASE calls[i].code = "insert"
      BY <1>0, <1>2, <3>1
    <3>2. CASE calls[i].code # "insert"
      BY <1>0, <1>3, <3>2
    <3> QED BY <3>1, <3>2
  <2>2. seqs = [i \in 1 .. n |-> seqs[i]]
    BY <1>0
  <2> HIDE DEF seqs, n
  <2> QED BY <1>0, <2>1, <2>2, SMTT(30)
<1>5. PICK flat \in [0 .. n -> Seq(Resolved)] :
        /\ flat[0] = <<>>
        /\ \A i \in 1 .. n : flat[i] = flat[i - 1] \o seqs[i]
        /\ flat[n] = ResolvedOperations(calls)
  <2> HIDE DEF seqs, n
  <2> QED BY <1>1, <1>4, FlattenSteps
<1> DEFINE Chain(f) == Anchored(f, Issued)
           H == {m \in 0 .. n : Plan(flat[m], calls, m) /\ Ascends(flat[m]) /\ Chain(flat[m])}
<1>6. 0 \in H
  BY <1>5 DEF Plan, Ascends, Anchored
<1>7. \A m \in 0 .. n - 1 : m \in H => m + 1 \in H
  <2> SUFFICES ASSUME NEW m \in 0 .. n - 1, Plan(flat[m], calls, m), Ascends(flat[m]), Chain(flat[m])
               PROVE  Plan(flat[m + 1], calls, m + 1) /\ Ascends(flat[m + 1]) /\ Chain(flat[m + 1])
    <3>1. \A m \in 0 .. n - 1 : m \in 0 .. n /\ m + 1 \in 0 .. n
      BY <1>0
    <3> HIDE DEF n, Chain
    <3> QED BY <3>1
  <2> PICK k \in 1 .. n : k = m + 1
    BY <1>0
  <2>0. /\ m \in 0 .. n /\ k \in DOMAIN calls /\ k - 1 = m /\ m \in Nat /\ k \in Nat
        /\ \A i \in 1 .. k : i \in 1 .. m \/ i = k
        /\ \A i \in 1 .. m : i \in 1 .. k /\ i \in DOMAIN calls
    <3>1. k \in Nat /\ m \in Nat /\ k <= n /\ n \in Nat /\ k = m + 1
      BY <1>0
    <3> HIDE DEF n, Chain, seqs
    <3>2. m \in 0 .. n /\ k \in DOMAIN calls /\ k - 1 = m
      BY <1>0, <3>1
    <3>3. \A i \in 1 .. k : i \in 1 .. m \/ i = k
      BY <3>1
    <3>4. \A i \in 1 .. m : i \in 1 .. k /\ i \in DOMAIN calls
      BY <1>0, <3>1
    <3> QED BY <3>1, <3>2, <3>3, <3>4
  <2> PICK f, s, r : f = flat[m] /\ s = seqs[k] /\ r = flat[k]
    OBVIOUS
  <2>b. f \in Seq(Resolved)
    <3> HIDE DEF n, seqs
    <3> QED BY <2>0
  <2>1. r = f \o s
    <3> HIDE DEF n, seqs
    <3> QED BY <1>5, <2>0
  <2>a. Plan(f, calls, m) /\ Ascends(f) /\ Anchored(f, Issued)
    OBVIOUS
  <2>2. CASE calls[k].code # "insert"
    <3>1. s \in Seq(Resolved) /\ \A p \in DOMAIN s : ~IsInsert(s[p])
      <4>1. s = Mutations(calls[k])
        BY <2>0, <2>2
      <4> QED BY <1>3, <2>2, <4>1
    <3> HIDE DEF n, seqs
    <3>2. /\ \A p \in DOMAIN f : p \in DOMAIN r /\ r[p] = f[p]
          /\ \A p \in DOMAIN r : p \in DOMAIN f \/ ~IsInsert(r[p])
          /\ \A p \in DOMAIN f : p \in Nat /\ 1 .. p - 1 \subseteq DOMAIN f
      <4>1. /\ \A p \in DOMAIN f : /\ p \in DOMAIN r /\ r[p] = f[p]
                                    /\ p \in Nat /\ 1 .. p - 1 \subseteq DOMAIN f
            /\ \A p \in DOMAIN r : p \in DOMAIN f \/ \E q \in DOMAIN s : r[p] = s[q]
        <5>1. Concatenates(f \o s, f, s)
          BY <2>b, <3>1, Concatenation
        <5>2. Concatenates(r, f, s)
          BY <2>1, <5>1
        <5> QED BY <5>2 DEF Concatenates
      <4> QED BY <3>1, <4>1
    <3>3. \A p \in DOMAIN r : IsInsert(r[p]) => p \in DOMAIN f /\ r[p] = f[p]
      BY <3>2
    <3>4. Plan(r, calls, k)
      <4>1. ASSUME NEW p \in DOMAIN r, IsInsert(r[p])
            PROVE  \E i \in 1 .. k : calls[i].code = "insert" /\ r[p] = Planned(calls, i)
        BY <2>0, <2>a, <3>3, <4>1 DEF Plan
      <4>2. ASSUME NEW i \in 1 .. k, calls[i].code = "insert"
            PROVE  \E p \in DOMAIN r : r[p] = Planned(calls, i)
        <5>1. i \in 1 .. m
          BY <2>0, <2>2, <4>2
        <5> QED BY <2>a, <3>2, <4>2, <5>1 DEF Plan
      <4> QED BY <4>1, <4>2 DEF Plan
    <3>5. Ascends(r)
      <4> SUFFICES ASSUME NEW p \in DOMAIN r, NEW q \in DOMAIN r, IsInsert(r[p]), p < q,
                          r[q].kind = r[p].kind
                   PROVE  r[p].id < r[q].id
        BY SMTT(30) DEF Ascends
      <4>1. IsInsert(r[q])
        BY DEF IsInsert
      <4> QED BY <2>a, <3>3, <4>1, ZenonT(30) DEF Ascends
    <3>6. Anchored(r, Issued)
      <4> SUFFICES ASSUME NEW q \in DOMAIN r, IsInsert(r[q])
                   PROVE  \/ r[q].id <= NextIdOf(r[q], Issued)
                          \/ \E p \in 1 .. q - 1 : r[p].kind = r[q].kind /\ r[p].id + 1 = r[q].id
        BY DEF Anchored
      <4>1. q \in DOMAIN f /\ r[q] = f[q]
        BY <3>3
      <4>2. \A p \in 1 .. q - 1 : r[p] = f[p]
        BY <3>2, <4>1
      <4>3. \/ f[q].id <= NextIdOf(f[q], Issued)
            \/ \E p \in 1 .. q - 1 : f[p].kind = f[q].kind /\ f[p].id + 1 = f[q].id
        <5>1. Anchored(f, Issued) /\ IsInsert(f[q])
          BY <2>a, <4>1
        <5> QED BY <4>1, <5>1 DEF Anchored
      <4> QED BY <4>1, <4>2, <4>3
    <3> QED BY <3>4, <3>5, <3>6
  <2>3. CASE calls[k].code = "insert"
    <3> PICK o : o = Planned(calls, k)
      OBVIOUS
    <3>1. s = <<o>>
      BY <2>0, <2>3
    <3> HIDE DEF n, seqs
    <3>2. /\ o \in Resolved /\ IsInsert(o) /\ o.id = PlannedId(calls, k)
          /\ o.kind = InsertKind(calls[k])
          /\ NextIdOf(o, Issued) + InsertsBefore(calls, k) = PlannedId(calls, k)
          /\ PlannedId(calls, k) \in Nat
      BY <2>0, <2>3, PlannedResolved
    <3>3. /\ Len(f) \in Nat /\ DOMAIN f = 1 .. Len(f) /\ DOMAIN r = 1 .. Len(f) + 1
          /\ \A p \in DOMAIN f : r[p] = f[p]
          /\ r[Len(f) + 1] = o
      BY <2>1, <2>b, <3>1, <3>2
    <3>4. \A p \in DOMAIN r : p \in DOMAIN f \/ p = Len(f) + 1
      BY <3>3
    <3>5. \A p \in DOMAIN f : p \in DOMAIN r /\ p \in Nat /\ 1 .. p - 1 \subseteq DOMAIN f
      BY <3>3, SMTT(30)
    \* The inserts of the kind of call k that come before it.
    <3>6. ASSUME NEW i \in 1 .. m, calls[i].code = "insert", Planned(calls, i).kind = o.kind
          PROVE  /\ Inserts(calls, i, k)
                 /\ Planned(calls, i).id = NextIdOf(o, Issued) + InsertsBefore(calls, i)
      <4>1. /\ Planned(calls, i).id = PlannedId(calls, i)
            /\ Planned(calls, i).kind = InsertKind(calls[i])
            /\ NextIdOf(Planned(calls, i), Issued) + InsertsBefore(calls, i) = PlannedId(calls, i)
        BY <2>0, <3>6, PlannedResolved
      <4>2. calls[i].element \in {"node", "edge"} /\ calls[k].element \in {"node", "edge"}
        BY <1>0, <2>0, <2>3, <3>6, CallsAssumption
      <4>3. calls[i].element = calls[k].element
        BY <3>2, <3>6, <4>1, <4>2 DEF InsertKind
      <4>4. NextIdOf(Planned(calls, i), Issued) = NextIdOf(o, Issued)
        BY <3>6 DEF NextIdOf
      <4> QED BY <3>6, <4>1, <4>3, <4>4 DEF Inserts
    <3>7. NextIdOf(o, Issued) \in Nat
      BY DEF NextIdOf, Issued, Elements
    <3>8. Plan(r, calls, k)
      <4>1. ASSUME NEW p \in DOMAIN r, IsInsert(r[p])
            PROVE  \E i \in 1 .. k : calls[i].code = "insert" /\ r[p] = Planned(calls, i)
        <5>1. CASE p \in DOMAIN f
          BY <2>0, <2>a, <3>3, <4>1, <5>1, SMTT(30) DEF Plan
        <5>2. CASE p = Len(f) + 1
          <6>1. k \in 1 .. k
            BY <2>0
          <6> QED BY <2>3, <3>3, <5>2, <6>1
        <5> QED BY <3>4, <5>1, <5>2
      <4>2. ASSUME NEW i \in 1 .. k, calls[i].code = "insert"
            PROVE  \E p \in DOMAIN r : r[p] = Planned(calls, i)
        <5>1. CASE i \in 1 .. m
          <6>1. PICK p \in DOMAIN f : f[p] = Planned(calls, i)
            BY <2>a, <4>2, <5>1 DEF Plan
          <6> QED BY <3>3, <3>5, <6>1
        <5>2. CASE i = k
          <6>1. Len(f) + 1 \in DOMAIN r
            BY <3>3
          <6> QED BY <3>3, <5>2, <6>1
        <5> QED BY <2>0, <5>1, <5>2
      <4> QED BY <4>1, <4>2 DEF Plan
    <3>9. Ascends(r)
      <4> SUFFICES ASSUME NEW p \in DOMAIN r, NEW q \in DOMAIN r, IsInsert(r[p]), p < q,
                          r[q].kind = r[p].kind
                   PROVE  r[p].id < r[q].id
        BY DEF Ascends
      <4>1. p \in DOMAIN f
        BY <3>3, <3>4
      <4>2. CASE q \in DOMAIN f
        BY <2>a, <3>3, <4>1, <4>2, ZenonT(30) DEF Ascends
      <4>3. CASE q = Len(f) + 1
        <5>1. PICK i \in 1 .. m : calls[i].code = "insert" /\ f[p] = Planned(calls, i)
          BY <2>a, <3>3, <4>1 DEF Plan
        <5>2. /\ Inserts(calls, i, k)
              /\ r[p].id = NextIdOf(o, Issued) + InsertsBefore(calls, i)
          BY <3>3, <3>6, <4>1, <4>3, <5>1
        <5>3. /\ InsertsBefore(calls, i) < InsertsBefore(calls, k)
              /\ InsertsBefore(calls, i) \in Nat /\ InsertsBefore(calls, k) \in Nat
          <6>1. i < k
            BY <2>0, SMTT(30)
          <6> QED BY <2>0, <5>2, <6>1, InsertsCounted
        <5>4. r[q].id = NextIdOf(o, Issued) + InsertsBefore(calls, k)
          BY <3>2, <3>3, <4>3
        <5> QED BY <3>7, <5>2, <5>3, <5>4
      <4> QED BY <3>4, <4>2, <4>3
    <3>10. Anchored(r, Issued)
      <4> SUFFICES ASSUME NEW q \in DOMAIN r, IsInsert(r[q])
                   PROVE  \/ r[q].id <= NextIdOf(r[q], Issued)
                          \/ \E p \in 1 .. q - 1 : r[p].kind = r[q].kind /\ r[p].id + 1 = r[q].id
        BY DEF Anchored
      <4>1. CASE q \in DOMAIN f
        <5>1. \A p \in 1 .. q - 1 : r[p] = f[p]
          BY <3>3, <3>5, <4>1
        <5>2. r[q] = f[q]
          BY <3>3, <4>1
        <5>3. \/ f[q].id <= NextIdOf(f[q], Issued)
              \/ \E p \in 1 .. q - 1 : f[p].kind = f[q].kind /\ f[p].id + 1 = f[q].id
          BY <2>a, <4>1, <5>2 DEF Anchored
        <5> QED BY <5>1, <5>2, <5>3
      <4>2. CASE q = Len(f) + 1
        <5>1. CASE InsertsBefore(calls, k) = 0
          <6>1. r[q].id = NextIdOf(r[q], Issued)
            BY <3>2, <3>3, <3>7, <4>2, <5>1, SMTT(30)
          <6> QED BY <3>3, <3>7, <4>2, <6>1
        <5>2. CASE InsertsBefore(calls, k) # 0
          <6>1. PICK i \in 1 .. k - 1 :
                  Inserts(calls, i, k) /\ InsertsBefore(calls, i) + 1 = InsertsBefore(calls, k)
            BY <2>0, <5>2, InsertsCounted
          <6>2. i \in 1 .. m /\ calls[i].code = "insert"
            BY <2>0, <6>1 DEF Inserts
          <6>3. PICK p \in DOMAIN f : f[p] = Planned(calls, i)
            BY <2>a, <6>2 DEF Plan
          <6>4. Planned(calls, i).kind = o.kind
            <7>1. Planned(calls, i).kind = InsertKind(calls[i])
              BY <2>0, <6>2, PlannedResolved
            <7> QED BY <3>2, <6>1, <7>1 DEF Inserts, InsertKind
          <6>5. Planned(calls, i).id = NextIdOf(o, Issued) + InsertsBefore(calls, i)
            BY <3>6, <6>2, <6>4
          <6>6. InsertsBefore(calls, i) \in Nat /\ InsertsBefore(calls, k) \in Nat
            BY <2>0, <6>2, InsertsCounted
          <6>7. p \in 1 .. q - 1 /\ r[p] = f[p] /\ r[q] = o
            BY <3>3, <4>2, <6>3, SMTT(30)
          <6>8. r[p].kind = r[q].kind
            BY <6>3, <6>4, <6>7
          <6>9. r[p].id + 1 = r[q].id
            <7>1. r[p].id = NextIdOf(o, Issued) + InsertsBefore(calls, i)
              BY <6>3, <6>5, <6>7
            <7>2. r[q].id = NextIdOf(o, Issued) + InsertsBefore(calls, k)
              BY <3>2, <6>7
            <7> QED BY <3>7, <6>1, <6>6, <7>1, <7>2
          <6> QED BY <6>7, <6>8, <6>9
        <5> QED BY <5>1, <5>2
      <4> QED BY <3>4, <4>1, <4>2
    <3> QED BY <3>8, <3>9, <3>10
  <2> QED BY <2>2, <2>3
<1>8. n \in H
  <2>1. H \in SUBSET Nat /\ n \in 0 .. n
    BY <1>0
  <2> HIDE DEF H, n
  <2>2. 0 .. n \subseteq H
    BY <1>0, <1>6, <1>7, <2>1, UpTo
  <2> QED BY <2>1, <2>2
<1> PICK ops : ops = ResolvedOperations(calls)
  OBVIOUS
<1>9. ops \in Seq(Resolved) /\ Ascends(ops) /\ Anchored(ops, Issued)
  <2>1. n \in 0 .. n
    BY <1>0
  <2> HIDE DEF n, seqs
  <2> QED BY <1>5, <1>8, <2>1
<1> HIDE DEF n, seqs, H
<1>10. Len(ops) \in Nat /\ DOMAIN ops = 1 .. Len(ops) /\ \A i \in DOMAIN ops : ops[i] \in Resolved
  BY <1>9
<1>11. ops \in Seq(FrameOperations)
  <2>1. Resolved \subseteq FrameOperations
    BY DEF Resolved
  <2> QED BY <1>9, <1>10, <2>1
<1>12. Ahead(ops, 1, Issued)
  BY <1>10 DEF Ahead, Resolved
<1>13. Frame(ops)
  <2> SUFFICES ASSUME NEW i \in DOMAIN ops, NEW j \in DOMAIN ops, IsInsert(ops[i]),
                      ops[j].kind = UpdatedKind(ops[i])
               PROVE  ops[i].id # ops[j].id
    BY <1>9, <1>11 DEF Frame, Ascends
  <2>1. ops[i].id >= NextIdOf(ops[i], Issued)
    BY <1>10 DEF Resolved
  <2>2. ~IsInsert(ops[j]) /\ Target(ops[j])
    BY <1>10 DEF Resolved, IsInsert, UpdatedKind
  <2>3. CASE ops[i].kind = "insert_node"
    <3>1. ops[j].id \in Ids /\ nodes[ops[j].id] # Absent
      BY <2>2, <2>3 DEF Target, UpdatedKind
    <3>2. ~(ops[j].id >= nodes_next_id)
      BY <3>1 DEF Unissued
    <3> QED BY <2>1, <2>3, <3>2 DEF NextIdOf, Issued
  <2>4. CASE ops[i].kind = "insert_edge"
    <3>1. ops[j].id \in Ids /\ edges[ops[j].id] # Absent
      BY <2>2, <2>4 DEF Target, UpdatedKind
    <3>2. ~(ops[j].id >= edges_next_id)
      BY <3>1 DEF Unissued
    <3> QED BY <2>1, <2>4, <3>2 DEF NextIdOf, Issued
  <2> QED BY <2>3, <2>4 DEF IsInsert
<1> QED BY <1>9, <1>12, <1>13

-----------------------------------------------------------------------------
(* The graph store under the database, without failing I/O.  Its proofs are those  *)
(* of GraphStoreProofs; both instances expand to the same formulas.                *)
StoreProofs == INSTANCE GraphStoreProofs WITH MAX_FAULTS <- 0, faults <- 0

\* The assumptions of the graph store, from those of the database.
LEMMA StoreSizes == StoreProofs!SizesAssumption /\ StoreProofs!AbsentAssumption
BY DEF StoreProofs!SizesAssumption, StoreProofs!AbsentAssumption

\* Both instances of the graph store expand to the same formula.
LEMMA SameInvariant == (Store!IInv <=> StoreProofs!IInv) /\ (Store!IInv' <=> StoreProofs!IInv')
BY DEF
  StoreProofs!Ids, Store!IInv, StoreProofs!IInv, Store!TypeOK, StoreProofs!TypeOK,
  Store!Operations, StoreProofs!Operations, Store!CooEdge, StoreProofs!CooEdge,
  Store!ReferentialIntegrity, StoreProofs!ReferentialIntegrity, Store!RecordsInsideFile,
  StoreProofs!RecordsInsideFile, Store!OperationProgress, StoreProofs!OperationProgress,
  Store!FilesAgree, StoreProofs!FilesAgree, Store!Idle, StoreProofs!Idle,
  Store!GrownCapacity, StoreProofs!GrownCapacity, Store!NodeExists, StoreProofs!NodeExists,
  Store!EdgeExists, StoreProofs!EdgeExists, Store!linklet_coo_edge_is_deleted,
  StoreProofs!linklet_coo_edge_is_deleted, Store!Tombstone, StoreProofs!Tombstone

\* Both instances of the graph store expand to the same formula.
LEMMA SameNext == Store!Next <=> StoreProofs!Next
BY DEF
  StoreProofs!Ids, Store!Idle, StoreProofs!Idle, Store!Ready, StoreProofs!Ready,
  Store!NodeExists, StoreProofs!NodeExists, Store!EdgeExists, StoreProofs!EdgeExists,
  Store!IdAvailable, StoreProofs!IdAvailable, Store!objectVars, StoreProofs!objectVars,
  Store!mappingVars, StoreProofs!mappingVars, Store!EndpointsExist,
  StoreProofs!EndpointsExist, Store!ArrayFull, StoreProofs!ArrayFull, Store!GrownCapacity,
  StoreProofs!GrownCapacity, Store!InsertStep, StoreProofs!InsertStep,
  Store!IncidentRecords, StoreProofs!IncidentRecords, Store!linklet_coo_edge_is_deleted,
  StoreProofs!linklet_coo_edge_is_deleted, Store!Tombstone, StoreProofs!Tombstone,
  Store!Tombstoned, StoreProofs!Tombstoned, Store!DeleteEdgeObject,
  StoreProofs!DeleteEdgeObject, Store!StampedVertices, StoreProofs!StampedVertices,
  Store!ObjectStepNext, StoreProofs!ObjectStepNext, Store!OpenSucceeds,
  StoreProofs!OpenSucceeds, Store!validate_graph_files, StoreProofs!validate_graph_files,
  Store!ZeroEdge, StoreProofs!ZeroEdge, Store!CreatedCapacity, StoreProofs!CreatedCapacity,
  Store!InsertNode, StoreProofs!InsertNode, Store!UpdateNode, StoreProofs!UpdateNode,
  Store!DeleteNode, StoreProofs!DeleteNode, Store!DetachDeleteNode,
  StoreProofs!DetachDeleteNode, Store!InsertEdge, StoreProofs!InsertEdge, Store!UpdateEdge,
  StoreProofs!UpdateEdge, Store!DeleteEdge, StoreProofs!DeleteEdge, Store!StampVertices,
  StoreProofs!StampVertices, Store!GrowResize, StoreProofs!GrowResize, Store!StampCapacity,
  StoreProofs!StampCapacity, Store!InsertEdgeObject, StoreProofs!InsertEdgeObject,
  Store!StoreEdgeRecord, StoreProofs!StoreEdgeRecord, Store!StampEdges,
  StoreProofs!StampEdges, Store!StoreTombstone, StoreProofs!StoreTombstone, Store!Detach,
  StoreProofs!Detach, Store!OperationFails, StoreProofs!OperationFails, Store!GrowFails,
  StoreProofs!GrowFails, Store!Crash, StoreProofs!Crash, Store!linklet_graph_store_close,
  StoreProofs!linklet_graph_store_close, Store!linklet_graph_store_open,
  StoreProofs!linklet_graph_store_open, Store!Continue, StoreProofs!Continue, Store!Next,
  StoreProofs!Next

\* Both instances of the graph store expand to the same formula.
LEMMA SameGraph == StoreProofs!Edges = Graph.edges /\ StoreProofs!Edges' = Graph'.edges
BY DEF Graph, StoreProofs!Ids,
  Store!Edges, StoreProofs!Edges, Store!EdgeExists, StoreProofs!EdgeExists,
  Store!linklet_coo_edge_is_deleted, StoreProofs!linklet_coo_edge_is_deleted,
  Store!Tombstone, StoreProofs!Tombstone

\* The steps of the store preserve its invariant.
LEMMA StorePreserves ==
  ASSUME Store!IInv, Store!Next \/ UNCHANGED storeVars
  PROVE  Store!IInv'
<1>1. [StoreProofs!Next]_(StoreProofs!vars)
  BY SameNext DEF storeVars, StoreProofs!vars
<1> QED BY <1>1, StoreSizes, SameInvariant, StoreProofs!NextPreserves

\* The graph of the store: nodes, and edges between nodes.
LEMMA GraphType == Store!IInv => Graph \in Graphs /\ Elements /\ Issued \in [nodes : Nat, edges : Nat]
<1> SUFFICES ASSUME Store!IInv
             PROVE  Graph \in Graphs /\ Elements /\ Issued \in [nodes : Nat, edges : Nat]
  OBVIOUS
<1>1. Store!TypeOK /\ Store!ReferentialIntegrity
  BY DEF Store!IInv
<1>2. Elements /\ Issued \in [nodes : Nat, edges : Nat]
  BY <1>1 DEF Elements, Issued, Store!TypeOK
<1>3. ASSUME NEW e \in Ids
      PROVE  Store!Edges[e] \in EdgeRecords \cup {Absent}
  <2>1. CASE e < edge_count /\ Store!EdgeExists(e) /\ ~Store!linklet_coo_edge_is_deleted(coo[e])
    <3>1. coo[e].source \in Ids /\ coo[e].destination \in Ids /\ edges[e] \in Documents
      BY <1>1, <2>1 DEF Store!ReferentialIntegrity, Store!NodeExists, Store!EdgeExists, Store!TypeOK
    <3> QED BY <2>1, <3>1 DEF Store!Edges, EdgeRecords
  <2>2. CASE ~(e < edge_count /\ Store!EdgeExists(e) /\ ~Store!linklet_coo_edge_is_deleted(coo[e]))
    BY <2>2 DEF Store!Edges
  <2> QED BY <2>1, <2>2
<1>4. Store!Edges \in [Ids -> EdgeRecords \cup {Absent}]
  BY <1>3 DEF Store!Edges
<1> QED BY <1>1, <1>2, <1>4 DEF Graph, Graphs, Store!TypeOK

\* The same of the next state.
LEMMA GraphTypeNext ==
  (Store!IInv => Graph \in Graphs /\ Elements /\ Issued \in [nodes : Nat, edges : Nat])'
BY GraphType, PTL

\* A step leaves the objects of a file alone, adds one under the next ID, or changes
\* one: an object that is gone is not there again.
ObjectStep(objects, next, objects2, next2) ==
  \/ objects2 = objects /\ next2 = next
  \/ next2 = next + 1 /\ \E d : objects2 = [objects EXCEPT ![next] = d]
  \/ next2 = next /\ \E id \in Ids : \E d :
       (objects[id] # Absent \/ d = Absent) /\ objects2 = [objects EXCEPT ![id] = d]

\* Each step of the store is such a step of nodes.ll and of edges.ll.
LEMMA ObjectSteps ==
  ASSUME Store!IInv, Store!Next
  PROVE  /\ ObjectStep(nodes, nodes_next_id, nodes', nodes_next_id')
         /\ ObjectStep(edges, edges_next_id, edges', edges_next_id')
<1> USE DEF ObjectStep, Store!objectVars, Store!mappingVars, Store!NodeExists, Store!EdgeExists
<1>1. ASSUME NEW d \in Documents, Store!InsertNode(d)
      PROVE  /\ ObjectStep(nodes, nodes_next_id, nodes', nodes_next_id')
             /\ ObjectStep(edges, edges_next_id, edges', edges_next_id')
  BY <1>1 DEF Store!InsertNode
<1>2. ASSUME NEW n \in Ids, NEW d \in Documents, Store!UpdateNode(n, d)
      PROVE  /\ ObjectStep(nodes, nodes_next_id, nodes', nodes_next_id')
             /\ ObjectStep(edges, edges_next_id, edges', edges_next_id')
  BY <1>2 DEF Store!UpdateNode
<1>3. ASSUME NEW n \in Ids, Store!DeleteNode(n) \/ Store!DetachDeleteNode(n)
      PROVE  /\ ObjectStep(nodes, nodes_next_id, nodes', nodes_next_id')
             /\ ObjectStep(edges, edges_next_id, edges', edges_next_id')
  BY <1>3 DEF Store!DeleteNode, Store!DetachDeleteNode
<1>4. ASSUME NEW s \in Ids, NEW t \in Ids, NEW d \in Documents, Store!InsertEdge(s, t, d)
      PROVE  /\ ObjectStep(nodes, nodes_next_id, nodes', nodes_next_id')
             /\ ObjectStep(edges, edges_next_id, edges', edges_next_id')
  BY <1>4 DEF Store!InsertEdge
<1>5. ASSUME NEW e \in Ids, NEW d \in Documents, Store!UpdateEdge(e, d)
      PROVE  /\ ObjectStep(nodes, nodes_next_id, nodes', nodes_next_id')
             /\ ObjectStep(edges, edges_next_id, edges', edges_next_id')
  BY <1>5 DEF Store!UpdateEdge
<1>6. ASSUME NEW e \in Ids, Store!DeleteEdge(e)
      PROVE  /\ ObjectStep(nodes, nodes_next_id, nodes', nodes_next_id')
             /\ ObjectStep(edges, edges_next_id, edges', edges_next_id')
  BY <1>6 DEF Store!DeleteEdge, Store!DeleteEdgeObject
<1>7. CASE Store!InsertEdgeObject
  BY <1>7 DEF Store!InsertEdgeObject
<1>8. CASE Store!Detach
  <2>1. op.node \in Ids
    BY <1>8 DEF Store!Detach, Store!OperationProgress, Store!IInv
  <2> QED BY <1>8, <2>1 DEF Store!Detach, Store!DeleteEdgeObject, Store!IncidentRecords
<1>9. CASE \/ Store!StampVertices \/ Store!GrowResize \/ Store!StampCapacity
           \/ Store!StoreEdgeRecord \/ Store!StampEdges \/ Store!StoreTombstone
           \/ Store!OperationFails \/ Store!GrowFails \/ Store!Crash
           \/ Store!linklet_graph_store_close \/ Store!linklet_graph_store_open
  BY <1>9
  DEF Store!StampVertices, Store!GrowResize, Store!StampCapacity, Store!StoreEdgeRecord,
      Store!StampEdges, Store!StoreTombstone, Store!OperationFails, Store!GrowFails,
      Store!Crash, Store!linklet_graph_store_close, Store!linklet_graph_store_open
<1> HIDE DEF ObjectStep
<1> QED BY <1>1, <1>2, <1>3, <1>4, <1>5, <1>6, <1>7, <1>8, <1>9 DEF Store!Next, Store!Continue

\* The IDs in use are issued, and an element that is gone stays away.
LEMMA StoreLater ==
  ASSUME Store!IInv, Unissued, Store!Next
  PROVE  Unissued' /\ Later(Issued, Stored, Issued', Stored')
<1> DEFINE Grows(f, k, f2, k2) ==
             /\ k <= k2 /\ \A n \in Ids : n >= k2 => f2[n] = Absent
             /\ \A n \in Ids : n < k /\ f[n] = Absent => f2[n] = Absent
           Fits(f, k) == f \in [Ids -> Documents \cup {Absent}] /\ k \in 0 .. SIZE_MAX
<1>1. Elements /\ Issued \in [nodes : Nat, edges : Nat]
  BY GraphType
<1>2. Elements' /\ Issued' \in [nodes : Nat, edges : Nat]
  BY StorePreserves, GraphTypeNext
<1>3. ASSUME NEW f, NEW k, NEW f2, NEW k2, Fits(f, k), Fits(f2, k2),
             ObjectStep(f, k, f2, k2), \A n \in Ids : n >= k => f[n] = Absent
      PROVE  Grows(f, k, f2, k2)
  <2>1. CASE f2 = f /\ k2 = k
    BY <1>3, <2>1
  <2>2. ASSUME k2 = k + 1, NEW d, f2 = [f EXCEPT ![k] = d]
        PROVE  Grows(f, k, f2, k2)
    BY <1>3, <2>2
  <2>3. ASSUME k2 = k, NEW id \in Ids, NEW d, f[id] # Absent \/ d = Absent,
               f2 = [f EXCEPT ![id] = d]
        PROVE  Grows(f, k, f2, k2)
    BY <1>3, <2>3
  <2> HIDE DEF Grows, Fits
  <2> QED BY <1>3, <2>1, <2>2, <2>3 DEF ObjectStep
<1>a. /\ Fits(nodes, nodes_next_id) /\ Fits(nodes', nodes_next_id')
      /\ Fits(edges, edges_next_id) /\ Fits(edges', edges_next_id')
  BY <1>1, <1>2 DEF Elements
<1>b. /\ ObjectStep(nodes, nodes_next_id, nodes', nodes_next_id')
      /\ ObjectStep(edges, edges_next_id, edges', edges_next_id')
  BY ObjectSteps
<1>c. /\ \A n \in Ids : n >= nodes_next_id => nodes[n] = Absent
      /\ \A n \in Ids : n >= edges_next_id => edges[n] = Absent
  BY DEF Unissued
<1>4. Grows(nodes, nodes_next_id, nodes', nodes_next_id')
  <2> HIDE DEF Grows, Fits
  <2> QED BY <1>3, <1>a, <1>b, <1>c
<1>5. Grows(edges, edges_next_id, edges', edges_next_id')
  <2> HIDE DEF Grows, Fits
  <2> QED BY <1>3, <1>a, <1>b, <1>c
<1>6. Unissued'
  BY <1>4, <1>5 DEF Unissued
<1>7. Later(Issued, Stored, Issued', Stored')
  BY <1>1, <1>2, <1>4, <1>5 DEF Later, Issued, Stored
<1> QED BY <1>6, <1>7

\* Both instances of the graph store expand to the same formula.
LEMMA SameSteps ==
  /\ Store!StampVertices <=> StoreProofs!StampVertices
  /\ Store!GrowResize <=> StoreProofs!GrowResize
  /\ Store!StampCapacity <=> StoreProofs!StampCapacity
  /\ Store!InsertEdgeObject <=> StoreProofs!InsertEdgeObject
  /\ Store!StoreEdgeRecord <=> StoreProofs!StoreEdgeRecord
  /\ Store!StampEdges <=> StoreProofs!StampEdges
  /\ Store!StoreTombstone <=> StoreProofs!StoreTombstone
  /\ \A n, d : Store!UpdateNode(n, d) <=> StoreProofs!UpdateNode(n, d)
  /\ \A e, d : Store!UpdateEdge(e, d) <=> StoreProofs!UpdateEdge(e, d)
  /\ \A e, n : Store!DeleteEdgeObject(e, n) <=> StoreProofs!DeleteEdgeObject(e, n)
  /\ \A s, t, d : Store!InsertEdge(s, t, d) <=> StoreProofs!InsertEdge(s, t, d)
  /\ \A n : Store!DetachDeleteNode(n) <=> StoreProofs!DetachDeleteNode(n)
BY DEF
  StoreProofs!Ids, Store!Idle, StoreProofs!Idle, Store!Ready, StoreProofs!Ready,
  Store!NodeExists, StoreProofs!NodeExists, Store!EdgeExists, StoreProofs!EdgeExists,
  Store!IdAvailable, StoreProofs!IdAvailable, Store!objectVars, StoreProofs!objectVars,
  Store!mappingVars, StoreProofs!mappingVars, Store!EndpointsExist,
  StoreProofs!EndpointsExist, Store!ArrayFull, StoreProofs!ArrayFull, Store!GrownCapacity,
  StoreProofs!GrownCapacity, Store!InsertStep, StoreProofs!InsertStep,
  Store!IncidentRecords, StoreProofs!IncidentRecords, Store!linklet_coo_edge_is_deleted,
  StoreProofs!linklet_coo_edge_is_deleted, Store!Tombstone, StoreProofs!Tombstone,
  Store!Tombstoned, StoreProofs!Tombstoned, Store!StampedVertices,
  StoreProofs!StampedVertices, Store!DeleteEdgeObject, StoreProofs!DeleteEdgeObject,
  Store!UpdateNode, StoreProofs!UpdateNode, Store!DetachDeleteNode,
  StoreProofs!DetachDeleteNode, Store!InsertEdge, StoreProofs!InsertEdge, Store!UpdateEdge,
  StoreProofs!UpdateEdge, Store!StampVertices, StoreProofs!StampVertices, Store!GrowResize,
  StoreProofs!GrowResize, Store!StampCapacity, StoreProofs!StampCapacity,
  Store!InsertEdgeObject, StoreProofs!InsertEdgeObject, Store!StoreEdgeRecord,
  StoreProofs!StoreEdgeRecord, Store!StampEdges, StoreProofs!StampEdges,
  Store!StoreTombstone, StoreProofs!StoreTombstone

\* Steps that leave the graph as it is.
LEMMA QuietSteps ==
  ASSUME Store!IInv,
         \/ Store!StampVertices \/ Store!GrowResize \/ Store!StampCapacity
         \/ Store!InsertEdgeObject \/ Store!StoreEdgeRecord \/ Store!StoreTombstone
         \/ (\E s, t \in Ids, d \in Documents : Store!InsertEdge(s, t, d))
         \/ (\E n \in Ids : Store!DetachDeleteNode(n))
  PROVE  Graph' = Graph
<1>1. UNCHANGED StoreProofs!Abstract!graphVars
  BY StoreSizes, SameInvariant, SameSteps, StoreProofs!RefineQuietSteps DEF StoreProofs!Ids
<1> QED BY <1>1, SameGraph DEF StoreProofs!Abstract!graphVars, Graph

\* The step that adds an edge to the graph.
LEMMA StampEdgesStep ==
  ASSUME Store!IInv, Store!StampEdges
  PROVE  /\ nodes' = nodes
         /\ Graph'.edges = [Graph.edges EXCEPT ![edge_count] =
              [source |-> op.source, destination |-> op.destination, doc |-> edges[edge_count]]]
<1>1. StoreProofs!Abstract!InsertEdge(op.source, op.destination, edges[edge_count])
  BY StoreSizes, SameInvariant, SameSteps, StoreProofs!RefineStampEdges
<1> QED BY <1>1, SameGraph DEF StoreProofs!Abstract!InsertEdge

\* A new document of a node, or of an edge.
LEMMA UpdateNodeStep ==
  ASSUME Store!IInv, NEW n \in Ids, NEW d \in Documents, Store!UpdateNode(n, d)
  PROVE  nodes' = [nodes EXCEPT ![n] = d] /\ nodes[n] # Absent /\ Graph'.edges = Graph.edges
<1>1. StoreProofs!Abstract!UpdateNode(n, d)
  BY StoreSizes, SameInvariant, SameSteps, StoreProofs!RefineUpdateNode DEF StoreProofs!Ids
<1> QED BY <1>1, SameGraph DEF StoreProofs!Abstract!UpdateNode

\* A new document of an edge, unless its record is missing.
LEMMA UpdateEdgeStep ==
  ASSUME Store!IInv, NEW e \in Ids, NEW d \in Documents, Store!UpdateEdge(e, d)
  PROVE  /\ nodes' = nodes
         /\ \/ Graph'.edges = Graph.edges
            \/ Graph.edges[e] # Absent /\ Graph'.edges = [Graph.edges EXCEPT ![e].doc = d]
<1>1. StoreProofs!Abstract!UpdateEdge(e, d) \/ UNCHANGED StoreProofs!Abstract!graphVars
  BY StoreSizes, SameInvariant, SameSteps, StoreProofs!RefineUpdateEdge DEF StoreProofs!Ids
<1> QED BY <1>1, SameGraph DEF StoreProofs!Abstract!UpdateEdge, StoreProofs!Abstract!graphVars

\* An edge goes with its object.
LEMMA DeleteEdgeStep ==
  ASSUME Store!IInv, NEW e \in Ids, NEW n \in 0 .. SIZE_MAX, Store!DeleteEdgeObject(e, n)
  PROVE  /\ nodes' = nodes
         /\ \/ Graph'.edges = Graph.edges
            \/ Graph'.edges = [Graph.edges EXCEPT ![e] = Absent]
<1>1. StoreProofs!Abstract!DeleteEdge(e) \/ UNCHANGED StoreProofs!Abstract!graphVars
  BY StoreSizes, SameInvariant, SameSteps, StoreProofs!RefineEdgeDelete DEF StoreProofs!Ids
<1> QED BY <1>1, SameGraph DEF StoreProofs!Abstract!DeleteEdge, StoreProofs!Abstract!graphVars

\* A node alone.
LEMMA NodeStep ==
  ASSUME UNCHANGED <<edges, edge_count, coo>>
  PROVE  Graph'.edges = Graph.edges
BY DEF Graph, Store!Edges, Store!EdgeExists

\* The nodes of the graph are those of the store.
LEMMA GraphNodes == Graph.nodes = nodes /\ Graph'.nodes = nodes'
BY DEF Graph

\* The edges of the graph, from the files.
LEMMA GraphEdges ==
  \A e \in Ids :
    Graph.edges[e] = IF e < edge_count /\ edges[e] # Absent /\ coo[e] # Store!Tombstone
                       THEN [source |-> coo[e].source, destination |-> coo[e].destination,
                             doc |-> edges[e]]
                       ELSE Absent
BY DEF Graph, Store!Edges, Store!EdgeExists, Store!linklet_coo_edge_is_deleted

\* Unless an edge is being added or removed, the stored edges are the graph's.
LEMMA SettledEdges ==
  ASSUME Store!IInv, Unissued, up,
         op.pc \in {"idle", "stamp_vertices", "grow", "stamp_capacity", "edge_object", "detach"}
  PROVE  \A e \in Ids : /\ Graph.edges[e] # Absent <=> edges[e] # Absent
                        /\ Graph.edges[e] # Absent => Graph.edges[e].doc = edges[e]
<1> TAKE e \in Ids
<1>1. edge_count = edges_next_id
  BY DEF Store!IInv, Store!FilesAgree
<1>2. e < edge_count => (edges[e] # Absent <=> coo[e] # Store!Tombstone)
  BY DEF Store!IInv, Store!FilesAgree, Store!EdgeExists, Store!linklet_coo_edge_is_deleted
<1>3. ~(e < edge_count) => edges[e] = Absent
  BY <1>1 DEF Unissued, Store!IInv, Store!TypeOK
<1>4. Graph \in Graphs
  BY GraphType
<1>5. Graph.edges[e] \in EdgeRecords \cup {Absent}
  BY <1>4 DEF Graphs
<1>6. CASE e < edge_count /\ edges[e] # Absent
  <2> PICK r : r = [source |-> coo[e].source, destination |-> coo[e].destination, doc |-> edges[e]]
    OBVIOUS
  <2>1. Graph.edges[e] = r
    BY <1>2, <1>6, GraphEdges
  <2>2. r \in EdgeRecords
    <3>1. coo[e].source \in Ids /\ coo[e].destination \in Ids /\ edges[e] \in Documents
      BY <1>2, <1>6 DEF Store!IInv, Store!ReferentialIntegrity, Store!NodeExists,
         Store!EdgeExists, Store!TypeOK, Store!linklet_coo_edge_is_deleted
    <3> QED BY <3>1 DEF EdgeRecords
  <2>3. r # Absent /\ r.doc = edges[e]
    BY <2>2 DEF EdgeRecords
  <2> QED BY <1>6, <2>1, <2>3
<1>7. CASE ~(e < edge_count /\ edges[e] # Absent)
  <2>1. edges[e] = Absent
    BY <1>3, <1>7
  <2>2. Graph.edges[e] = Absent
    BY <2>1, GraphEdges
  <2> QED BY <2>1, <2>2
<1> QED BY <1>6, <1>7

\* No edge is left at a node that is gone.
LEMMA GoneNodesAlone ==
  ASSUME Store!IInv, NEW e \in Ids, Graph.edges[e] # Absent
  PROVE  /\ Graph.edges[e].source \in Ids /\ nodes[Graph.edges[e].source] # Absent
         /\ Graph.edges[e].destination \in Ids /\ nodes[Graph.edges[e].destination] # Absent
<1>1. /\ e < edge_count /\ edges[e] # Absent /\ coo[e] # Store!Tombstone
      /\ Graph.edges[e] = [source |-> coo[e].source, destination |-> coo[e].destination,
                           doc |-> edges[e]]
  BY GraphEdges
<1>2. /\ coo[e].source \in Ids /\ nodes[coo[e].source] # Absent
      /\ coo[e].destination \in Ids /\ nodes[coo[e].destination] # Absent
  BY <1>1 DEF Store!IInv, Store!ReferentialIntegrity, Store!NodeExists, Store!EdgeExists,
     Store!linklet_coo_edge_is_deleted
<1> QED BY <1>1, <1>2

-----------------------------------------------------------------------------
(* What the store does with an operation of a frame *)

\* The operation would not change the graph: its changes are all there, or have been
\* made useless.
Settles(g, o) ==
  /\ o.id \in Ids =>
       /\ o.kind = "insert_node" => g.nodes[o.id] = o.doc
       /\ o.kind = "insert_edge" => g.edges[o.id] = EdgeOf(o)
       /\ o.kind = "update_node" => g.nodes[o.id] \in {Absent, o.doc}
       /\ o.kind = "update_edge" => g.edges[o.id] = Absent \/ g.edges[o.id].doc = o.doc
       /\ o.kind = "delete_edge" => g.edges[o.id] = Absent
       /\ o.kind = "delete_node" => g.nodes[o.id] = Absent
  /\ \A e \in Ids : ~Detaches(o, g.edges[e])

\* An operation that is settled is applied without effect.
LEMMA SettledApplied ==
  ASSUME NEW g \in Graphs, NEW o \in FrameOperations, Settles(g, o)
  PROVE  AppliedOp(g, o) = g
<1>1. ASSUME NEW n \in Ids PROVE AppliedToNode(g.nodes[n], n, o) = g.nodes[n]
  BY <1>1 DEF Settles, AppliedToNode
<1>2. ASSUME NEW e \in Ids PROVE AppliedToEdge(g.edges[e], e, o) = g.edges[e]
  <2>1. ~Detaches(o, g.edges[e])
    BY DEF Settles
  <2>2. g.edges[e] \in EdgeRecords \cup {Absent}
    BY DEF Graphs
  <2>3. CASE o.id = e /\ o.kind = "update_edge" /\ g.edges[e] # Absent
    <3>1. g.edges[e].doc = o.doc
      BY <2>3 DEF Settles
    <3>2. [g.edges[e] EXCEPT !.doc = o.doc] = g.edges[e]
      BY <2>2, <2>3, <3>1 DEF EdgeRecords
    <3> QED BY <2>1, <2>3, <3>2 DEF AppliedToEdge
  <2>4. CASE ~(o.id = e /\ o.kind = "update_edge" /\ g.edges[e] # Absent)
    BY <2>1, <2>4 DEF Settles, AppliedToEdge
  <2> QED BY <2>3, <2>4
<1>3. /\ g = [nodes |-> g.nodes, edges |-> g.edges]
      /\ g.nodes = [n \in Ids |-> g.nodes[n]] /\ g.edges = [e \in Ids |-> g.edges[e]]
  BY DEF Graphs
<1>4. /\ [n \in Ids |-> AppliedToNode(g.nodes[n], n, o)] = [n \in Ids |-> g.nodes[n]]
      /\ [e \in Ids |-> AppliedToEdge(g.edges[e], e, o)] = [e \in Ids |-> g.edges[e]]
  BY <1>1, <1>2
<1>5. AppliedOp(g, o) = [nodes |-> [n \in Ids |-> g.nodes[n]], edges |-> [e \in Ids |-> g.edges[e]]]
  BY <1>4, AppliedElementwise
<1>6. AppliedOp(g, o) = [nodes |-> g.nodes, edges |-> g.edges]
  BY <1>3, <1>5
<1> QED BY <1>3, <1>6

\* linklet_wal_apply skips an insert whose element is there, and a change of an element
\* that is not there.
LEMMA SkippedSettles ==
  ASSUME Store!IInv, Unissued, up, op = Store!Idle, NEW ops, Frame(ops), NEW k \in DOMAIN ops,
         Kept(ops, Graph), IsInsert(ops[k]) <=> Exists(ops[k])
  PROVE  Settles(Graph, ops[k])
<1> PICK o : o = ops[k]
  OBVIOUS
<1>1. o.kind \in {"insert_node", "insert_edge", "update_node", "update_edge", "delete_node",
                  "delete_edge"}
  BY SMTT(30) DEF Frame, FrameOperations, Operations
<1>2. \A e \in Ids : Graph.edges[e] # Absent <=> edges[e] # Absent
  BY SettledEdges DEF Store!Idle
<1>3. Graph.nodes = nodes
  BY GraphNodes
<1>4. \A e \in Ids : ~Detaches(o, Graph.edges[e])
  <2> SUFFICES ASSUME NEW e \in Ids, Detaches(o, Graph.edges[e]) PROVE FALSE
    OBVIOUS
  <2>1. o.kind = "delete_node" /\ o.id \in {Graph.edges[e].source, Graph.edges[e].destination}
    BY DEF Detaches
  <2>2. o.id \in Ids /\ nodes[o.id] # Absent
    BY <2>1, GoneNodesAlone DEF Detaches
  <2> QED BY <2>1, <2>2 DEF Exists, IsInsert, Store!NodeExists
<1>5. ASSUME o.id \in Ids
      PROVE  /\ o.kind = "insert_node" => Graph.nodes[o.id] = o.doc
             /\ o.kind = "insert_edge" => Graph.edges[o.id] = EdgeOf(o)
  BY <1>2, <1>3, <1>5 DEF Kept, Exists, IsInsert, Store!NodeExists, Store!EdgeExists
<1>6. ASSUME o.id \in Ids
      PROVE  /\ o.kind \in {"update_node", "delete_node"} => Graph.nodes[o.id] = Absent
             /\ o.kind \in {"update_edge", "delete_edge"} => Graph.edges[o.id] = Absent
  BY <1>2, <1>3, <1>6 DEF Exists, IsInsert, Store!NodeExists, Store!EdgeExists
<1>7. Settles(Graph, o)
  BY <1>4, <1>5, <1>6 DEF Settles
<1> QED BY <1>7

\* The call for an operation has returned true, with the ID of the frame.
LEMMA ReturnedSettles ==
  ASSUME Store!IInv, Unissued, up, op = Store!Idle, NEW o \in FrameOperations, NEW before,
         Progress(o, before),
         IsInsert(o) => before = o.id /\ NextId(o) = before + 1
  PROVE  /\ Settles(Graph, o)
         /\ IsInsert(o) => o.id < NextIdOf(o, Issued) /\ Holds(o, Stored)
<1>1. o.kind \in {"insert_node", "insert_edge", "update_node", "update_edge", "delete_node",
                  "delete_edge"}
  BY DEF FrameOperations, Operations
<1>2. op.pc = "idle"
  BY DEF Store!Idle
<1>3. \A e \in Ids : /\ Graph.edges[e] # Absent <=> edges[e] # Absent
                     /\ Graph.edges[e] # Absent => Graph.edges[e].doc = edges[e]
  BY <1>2, SettledEdges
<1>4. Graph.nodes = nodes
  BY GraphNodes
<1>5. \A e \in Ids : ~Detaches(o, Graph.edges[e])
  <2> SUFFICES ASSUME NEW e \in Ids, Detaches(o, Graph.edges[e]) PROVE FALSE
    OBVIOUS
  <2>1. o.kind = "delete_node" /\ o.id \in {Graph.edges[e].source, Graph.edges[e].destination}
    BY DEF Detaches
  <2>2. o.id \in Ids /\ nodes[o.id] # Absent
    BY <2>1, GoneNodesAlone DEF Detaches
  <2> QED BY <1>2, <2>1, <2>2 DEF Progress
<1>6. CASE o.kind = "insert_node"
  <2>1. o.id \in Ids /\ nodes_next_id = o.id + 1 /\ nodes[o.id] = o.doc
    BY <1>6 DEF Progress, IsInsert
  <2>2. o.doc # Absent
    BY <1>6 DEF FrameOperations
  <2>3. Settles(Graph, o)
    BY <1>4, <1>5, <1>6, <2>1 DEF Settles
  <2> QED BY <1>6, <2>1, <2>2, <2>3 DEF NextIdOf, Issued, Holds, Stored
<1>7. CASE o.kind = "insert_edge"
  <2>1. edges_next_id = o.id + 1 /\ before = o.id
    BY <1>7 DEF IsInsert, NextId
  <2>a. o.id \in Nat
    BY DEF FrameOperations, Operations
  <2>2. o.id \in Ids /\ Graph.edges[o.id] = EdgeOf(o)
    BY <1>2, <1>7, <2>1, <2>a DEF Progress
  <2>3. EdgeOf(o) # Absent
    <3>1. EdgeOf(o) \in EdgeRecords
      BY <1>7 DEF FrameOperations, Operations, EdgeOf, EdgeRecords
    <3> QED BY <3>1 DEF EdgeRecords
  <2>4. Settles(Graph, o)
    BY <1>5, <1>7, <2>2 DEF Settles
  <2> QED BY <1>3, <1>7, <2>1, <2>2, <2>3, <2>4, <2>a DEF NextIdOf, Issued, Holds, Stored
<1>8. CASE ~IsInsert(o)
  <2>1. Settles(Graph, o)
    BY <1>1, <1>2, <1>3, <1>4, <1>5, <1>8 DEF Settles, Progress, IsInsert
  <2> QED BY <1>8, <2>1
<1> QED BY <1>1, <1>6, <1>7, <1>8 DEF IsInsert

\* A step of the store while it works on operation o of a frame, having been called
\* with `before` as the next ID: it issues that ID, if any, and the graph after it is
\* the graph before it with some of the changes of o.
Moves(o, before) ==
  /\ Progress(o, before)'
  /\ Partly(Graph, Graph', o) \/ (IsInsert(o) /\ before # o.id)
  /\ \/ Issued' = Issued
     \/ /\ o.kind = "insert_node" /\ nodes_next_id = before
        /\ Issued' = [Issued EXCEPT !.nodes = before + 1]
     \/ /\ o.kind = "insert_edge" /\ edges_next_id = before
        /\ Issued' = [Issued EXCEPT !.edges = before + 1]

\* A step without effect is a part of any operation.
LEMMA PartlyQuiet ==
  ASSUME NEW o, Graph' = Graph
  PROVE  Partly(Graph, Graph', o)
BY DEF Partly

\* A step that changes one node, as the operation does.
LEMMA PartlyNode ==
  ASSUME NEW o, Graph \in Graphs, Graph'.edges = Graph.edges, NEW d,
         nodes' = [nodes EXCEPT ![o.id] = d],
         o.id \in Ids => d = AppliedToNode(nodes[o.id], o.id, o)
  PROVE  Partly(Graph, Graph', o)
<1>1. Graph.nodes = nodes /\ Graph'.nodes = nodes' /\ nodes \in [Ids -> Documents \cup {Absent}]
  BY GraphNodes DEF Graphs
<1>2. ASSUME NEW n \in Ids PROVE nodes'[n] \in {nodes[n], AppliedToNode(nodes[n], n, o)}
  BY <1>1
<1> QED BY <1>1, <1>2 DEF Partly

\* A step that changes at most one edge, as the operation does.
LEMMA PartlyEdge ==
  ASSUME NEW o, Graph \in Graphs, nodes' = nodes, NEW e \in Ids, NEW d,
         Graph'.edges = Graph.edges \/ Graph'.edges = [Graph.edges EXCEPT ![e] = d],
         d \in {Graph.edges[e], AppliedToEdge(Graph.edges[e], e, o)}
  PROVE  Partly(Graph, Graph', o)
<1>1. Graph'.nodes = Graph.nodes
  BY GraphNodes
<1>2. Graph.edges \in [Ids -> EdgeRecords \cup {Absent}]
  BY DEF Graphs
<1>3. ASSUME NEW f \in Ids
      PROVE  Graph'.edges[f] \in {Graph.edges[f], AppliedToEdge(Graph.edges[f], f, o)}
  BY <1>2
<1> QED BY <1>1, <1>3 DEF Partly

\* The calls that carry out an operation are calls of the store.
LEMMA StoreCalled ==
  ASSUME Store!IInv, NEW o \in FrameOperations, StoreCall(o)
  PROVE  Store!Next
<1>1. o.kind \in {"insert_node", "insert_edge", "update_node", "update_edge"} => o.doc \in Documents
  BY DEF FrameOperations
<1>2. o.source \in Ids /\ o.destination \in Ids
  BY DEF FrameOperations, Operations
<1>3. Elements
  BY GraphType
<1>4. CASE o.kind = "insert_node" /\ Store!InsertNode(o.doc)
  BY <1>1, <1>4 DEF Store!Next
<1>5. CASE o.kind = "insert_edge" /\ Store!InsertEdge(o.source, o.destination, o.doc)
  BY <1>1, <1>2, <1>5 DEF Store!Next
<1>6. CASE o.kind = "update_node" /\ Store!UpdateNode(o.id, NewDocument(o, nodes[o.id]))
  <2>1. o.id \in Ids /\ nodes[o.id] \in Documents
    BY <1>3, <1>6 DEF Store!UpdateNode, Store!NodeExists, Elements
  <2>2. NewDocument(o, nodes[o.id]) \in Documents
    BY <1>1, <1>6, <2>1, DocumentsAssumption DEF NewDocument
  <2> QED BY <1>6, <2>1, <2>2 DEF Store!Next
<1>7. CASE o.kind = "update_edge" /\ Store!UpdateEdge(o.id, NewDocument(o, edges[o.id]))
  <2>1. o.id \in Ids /\ edges[o.id] \in Documents
    BY <1>3, <1>7 DEF Store!UpdateEdge, Store!EdgeExists, Elements
  <2>2. NewDocument(o, edges[o.id]) \in Documents
    BY <1>1, <1>7, <2>1, DocumentsAssumption DEF NewDocument
  <2> QED BY <1>7, <2>1, <2>2 DEF Store!Next
<1>8. CASE o.kind = "delete_node" /\ (Store!DeleteNode(o.id) \/ Store!DetachDeleteNode(o.id))
  <2>1. o.id \in Ids
    BY <1>8 DEF Store!DeleteNode, Store!DetachDeleteNode, Store!NodeExists
  <2> QED BY <1>8, <2>1 DEF Store!Next
<1>9. CASE o.kind = "delete_edge" /\ Store!DeleteEdge(o.id)
  <2>1. o.id \in Ids
    BY <1>9 DEF Store!DeleteEdge, Store!EdgeExists
  <2> QED BY <1>9, <2>1 DEF Store!Next
<1> QED BY <1>4, <1>5, <1>6, <1>7, <1>8, <1>9 DEF StoreCall

\* The first step of the call.
LEMMA CallMoves ==
  ASSUME Store!IInv, NEW o \in FrameOperations, work.mode # "execute", StoreCall(o),
         NEW before, before = NextId(o)
  PROVE  Moves(o, before)
<1> USE DEF Store!objectVars, Store!mappingVars
<1>1. Graph \in Graphs /\ Elements
  BY GraphType
<1>2. o.doc \in Documents \/ o.kind \notin {"insert_node", "insert_edge", "update_node", "update_edge"}
  BY DEF FrameOperations
<1>3. o.source \in Ids /\ o.destination \in Ids /\ o.id \in Nat
  BY DEF FrameOperations, Operations
<1>4. CASE o.kind = "insert_node" /\ Store!InsertNode(o.doc)
  <2>1. before = nodes_next_id /\ before \in Ids
    BY <1>1, <1>4 DEF NextId, Store!InsertNode, Store!IdAvailable, Elements
  <2>2. nodes'[before] = o.doc
    BY <1>1, <1>4, <2>1 DEF Store!InsertNode, Elements
  <2>3. Progress(o, before)'
    BY <1>4, <2>1, <2>2 DEF Progress, Store!InsertNode
  <2>4. Partly(Graph, Graph', o) \/ before # o.id
    <3> SUFFICES ASSUME before = o.id PROVE Partly(Graph, Graph', o)
      OBVIOUS
    <3>1. nodes' = [nodes EXCEPT ![o.id] = o.doc] /\ Graph'.edges = Graph.edges
      BY <1>4, <2>1, NodeStep DEF Store!InsertNode
    <3>2. o.doc = AppliedToNode(nodes[o.id], o.id, o)
      BY <1>4 DEF AppliedToNode
    <3> QED BY <1>1, <3>1, <3>2, PartlyNode
  <2>5. Issued' = [Issued EXCEPT !.nodes = before + 1]
    BY <1>4, <2>1 DEF Issued, Store!InsertNode
  <2> QED BY <1>4, <2>1, <2>3, <2>4, <2>5 DEF Moves, IsInsert
<1>5. CASE o.kind = "insert_edge" /\ Store!InsertEdge(o.source, o.destination, o.doc)
  <2>1. Graph' = Graph
    BY <1>2, <1>3, <1>5, QuietSteps
  <2>2. Progress(o, before)'
    BY <1>5 DEF Progress, InsertPcs, Store!InsertEdge, NextId
  <2>3. Issued' = Issued
    BY <1>5 DEF Issued, Store!InsertEdge
  <2> QED BY <2>1, <2>2, <2>3, PartlyQuiet DEF Moves
<1>6. CASE o.kind = "update_node" /\ Store!UpdateNode(o.id, o.doc)
  <2>1. o.id \in Ids
    BY <1>6 DEF Store!UpdateNode, Store!NodeExists
  <2>2. nodes' = [nodes EXCEPT ![o.id] = o.doc] /\ nodes[o.id] # Absent /\ Graph'.edges = Graph.edges
    BY <1>2, <1>6, <2>1, UpdateNodeStep
  <2>3. o.doc = AppliedToNode(nodes[o.id], o.id, o)
    BY <1>6, <2>2 DEF AppliedToNode
  <2>4. Partly(Graph, Graph', o)
    BY <1>1, <2>2, <2>3, PartlyNode
  <2>5. Progress(o, before)'
    BY <1>1, <1>6, <2>1, <2>2 DEF Progress, Store!UpdateNode, Store!Ready, Store!Idle, Elements
  <2>6. Issued' = Issued
    BY <1>6 DEF Issued, Store!UpdateNode
  <2> QED BY <2>4, <2>5, <2>6 DEF Moves
<1>7. CASE o.kind = "update_edge" /\ Store!UpdateEdge(o.id, o.doc)
  <2>1. o.id \in Ids
    BY <1>7 DEF Store!UpdateEdge, Store!EdgeExists
  <2>2. /\ nodes' = nodes
        /\ \/ Graph'.edges = Graph.edges
           \/ /\ Graph.edges[o.id] # Absent
              /\ Graph'.edges = [Graph.edges EXCEPT ![o.id].doc = o.doc]
    BY <1>2, <1>7, <2>1, UpdateEdgeStep
  <2>3. Partly(Graph, Graph', o)
    <3>1. CASE Graph'.edges = Graph.edges
      BY <2>2, <3>1, GraphNodes DEF Partly
    <3>2. CASE Graph.edges[o.id] # Absent /\ Graph'.edges = [Graph.edges EXCEPT ![o.id].doc = o.doc]
      <4> PICK d : d = [Graph.edges[o.id] EXCEPT !.doc = o.doc]
        OBVIOUS
      <4>1. d = AppliedToEdge(Graph.edges[o.id], o.id, o)
        BY <1>7, <3>2 DEF AppliedToEdge, Detaches
      <4>2. Graph'.edges = [Graph.edges EXCEPT ![o.id] = d]
        BY <3>2
      <4> QED BY <1>1, <2>1, <2>2, <4>1, <4>2, PartlyEdge
    <3> QED BY <2>2, <3>1, <3>2
  <2>4. Progress(o, before)'
    BY <1>1, <1>7, <2>1 DEF Progress, Store!UpdateEdge, Store!Ready, Store!Idle, Elements
  <2>5. Issued' = Issued
    BY <1>7 DEF Issued, Store!UpdateEdge
  <2> QED BY <2>3, <2>4, <2>5 DEF Moves
<1>8. CASE o.kind = "delete_node" /\ ~o.detach /\ Store!DeleteNode(o.id)
  <2>1. o.id \in Ids
    BY <1>8 DEF Store!DeleteNode, Store!NodeExists
  <2>2. nodes' = [nodes EXCEPT ![o.id] = Absent] /\ Graph'.edges = Graph.edges
    BY <1>8, NodeStep DEF Store!DeleteNode
  <2>3. Absent = AppliedToNode(nodes[o.id], o.id, o)
    BY <1>8 DEF AppliedToNode
  <2>4. Partly(Graph, Graph', o)
    BY <1>1, <2>2, <2>3, PartlyNode
  <2>5. Progress(o, before)'
    BY <1>1, <1>8, <2>1, <2>2 DEF Progress, Store!DeleteNode, Store!Ready, Store!Idle, Elements
  <2>6. Issued' = Issued
    BY <1>8 DEF Issued, Store!DeleteNode
  <2> QED BY <2>4, <2>5, <2>6 DEF Moves
<1>9. CASE o.kind = "delete_node" /\ o.detach /\ Store!DetachDeleteNode(o.id)
  <2>1. o.id \in Ids
    BY <1>9 DEF Store!DetachDeleteNode, Store!NodeExists
  <2>2. Graph' = Graph
    BY <1>9, <2>1, QuietSteps
  <2>3. Progress(o, before)'
    BY <1>9, <2>1 DEF Progress, Store!DetachDeleteNode
  <2>4. Issued' = Issued
    BY <1>9 DEF Issued, Store!DetachDeleteNode
  <2> QED BY <2>2, <2>3, <2>4, PartlyQuiet DEF Moves
<1>10. CASE o.kind = "delete_edge" /\ Store!DeleteEdge(o.id)
  <2>1. o.id \in Ids /\ Store!DeleteEdgeObject(o.id, SIZE_MAX) /\ SIZE_MAX \in 0 .. SIZE_MAX
    BY <1>10 DEF Store!DeleteEdge, Store!EdgeExists
  <2>2. /\ nodes' = nodes
        /\ \/ Graph'.edges = Graph.edges
           \/ Graph'.edges = [Graph.edges EXCEPT ![o.id] = Absent]
    BY <2>1, DeleteEdgeStep
  <2>3. Absent = AppliedToEdge(Graph.edges[o.id], o.id, o)
    BY <1>10 DEF AppliedToEdge
  <2>4. Partly(Graph, Graph', o)
    BY <1>1, <2>1, <2>2, <2>3, PartlyEdge
  <2>5. Progress(o, before)'
    BY <1>1, <1>10, <2>1 DEF Progress, Store!DeleteEdgeObject, Elements
  <2>6. Issued' = Issued
    BY <2>1 DEF Issued, Store!DeleteEdgeObject
  <2> QED BY <2>4, <2>5, <2>6 DEF Moves
<1> QED BY <1>4, <1>5, <1>6, <1>7, <1>8, <1>9, <1>10 DEF StoreCall, NewDocument

\* The steps of the store after the first.
LEMMA StepMoves ==
  ASSUME Store!IInv, NEW o \in FrameOperations, NEW before \in 0 .. SIZE_MAX,
         Progress(o, before), Store!Continue
  PROVE  Moves(o, before)
<1> USE DEF Store!objectVars, Store!mappingVars
<1>1. Graph \in Graphs /\ Elements
  BY GraphType
<1>2. o.kind \in {"insert_node", "insert_edge", "update_node", "update_edge", "delete_node",
                  "delete_edge"} /\ o.id \in Nat
  BY DEF FrameOperations, Operations
<1>3. op.pc # "idle"
  BY DEF Store!Continue, Store!StampVertices, Store!GrowResize, Store!StampCapacity,
     Store!InsertEdgeObject, Store!StoreEdgeRecord, Store!StampEdges, Store!StoreTombstone,
     Store!Detach
<1>4. CASE Store!StampVertices
  <2>1. o.kind = "insert_node"
    BY <1>2, <1>4 DEF Progress, InsertPcs, Store!StampVertices
  <2>2. Graph' = Graph
    BY <1>4, QuietSteps
  <2>3. Progress(o, before)'
    BY <1>4, <2>1 DEF Progress, Store!StampVertices, Store!Idle
  <2>4. Issued' = Issued
    BY <1>4 DEF Issued, Store!StampVertices
  <2> QED BY <2>2, <2>3, <2>4, PartlyQuiet DEF Moves
<1>5. CASE Store!GrowResize \/ Store!StampCapacity
  <2>1. o.kind = "insert_edge"
    BY <1>2, <1>5 DEF Progress, Store!GrowResize, Store!StampCapacity
  <2>2. Graph' = Graph
    BY <1>5, QuietSteps
  <2>3. Progress(o, before)'
    BY <1>5, <2>1 DEF Progress, InsertPcs, Store!GrowResize, Store!StampCapacity, Store!InsertStep
  <2>4. Issued' = Issued
    BY <1>5 DEF Issued, Store!GrowResize, Store!StampCapacity
  <2> QED BY <2>2, <2>3, <2>4, PartlyQuiet DEF Moves
<1>6. CASE Store!InsertEdgeObject
  <2>1. o.kind = "insert_edge" /\ edges_next_id = before /\ op.doc = o.doc
    BY <1>2, <1>6 DEF Progress, InsertPcs, Store!InsertEdgeObject
  <2>2. Graph' = Graph
    BY <1>6, QuietSteps
  <2>3. edges_next_id = edge_count
    BY <1>6 DEF Store!InsertEdgeObject, Store!IInv, Store!OperationProgress, Store!FilesAgree
  <2>4. CASE Store!IdAvailable(edges_next_id)
    <3>1. before \in Ids
      BY <2>1, <2>4 DEF Store!IdAvailable
    <3>2. edges' = [edges EXCEPT ![before] = o.doc] /\ edges_next_id' = before + 1
          /\ op' = Store!InsertStep("edge_record") /\ nodes_next_id' = nodes_next_id
      BY <1>6, <2>1, <2>3, <2>4 DEF Store!InsertEdgeObject
    <3>3. edges'[before] = o.doc
      BY <1>1, <3>1, <3>2 DEF Elements
    <3>4. Progress(o, before)'
      BY <2>1, <3>1, <3>2, <3>3, <1>6
      DEF Progress, InsertPcs, Store!InsertStep, Store!InsertEdgeObject
    <3>5. Issued' = [Issued EXCEPT !.edges = before + 1]
      BY <3>2 DEF Issued
    <3> QED BY <2>1, <2>2, <3>4, <3>5, PartlyQuiet DEF Moves
  <2>5. CASE ~Store!IdAvailable(edges_next_id)
    <3>1. Progress(o, before)'
      BY <1>6, <2>1, <2>5 DEF Progress, InsertPcs, Store!InsertEdgeObject, Store!Idle
    <3>2. Issued' = Issued
      BY <1>6, <2>5 DEF Issued, Store!InsertEdgeObject
    <3> QED BY <2>2, <3>1, <3>2, PartlyQuiet DEF Moves
  <2> QED BY <2>4, <2>5
<1>7. CASE Store!StoreEdgeRecord
  <2>1. o.kind = "insert_edge"
    BY <1>2, <1>7 DEF Progress, InsertPcs, Store!StoreEdgeRecord
  <2>2. Graph' = Graph
    BY <1>7, QuietSteps
  <2>3. Progress(o, before)'
    BY <1>7, <2>1 DEF Progress, InsertPcs, Store!StoreEdgeRecord, Store!InsertStep
  <2>4. Issued' = Issued
    BY <1>7 DEF Issued, Store!StoreEdgeRecord
  <2> QED BY <2>2, <2>3, <2>4, PartlyQuiet DEF Moves
<1>8. CASE Store!StampEdges
  <2>1. /\ o.kind = "insert_edge" /\ before \in Ids /\ edges_next_id = before + 1
        /\ edges[before] = o.doc
        /\ op.source = o.source /\ op.destination = o.destination
    BY <1>2, <1>8 DEF Progress, InsertPcs, Store!StampEdges
  <2>2. edge_count = before
    <3>1. edges_next_id = edge_count + 1 /\ edge_count \in Nat
      BY <1>8 DEF Store!StampEdges, Store!IInv, Store!OperationProgress, Store!TypeOK
    <3> QED BY <2>1, <3>1
  <2>3. /\ nodes' = nodes
        /\ Graph'.edges = [Graph.edges EXCEPT ![before] = EdgeOf(o)]
    BY <1>8, <2>1, <2>2, StampEdgesStep DEF EdgeOf
  <2>4. Partly(Graph, Graph', o) \/ before # o.id
    <3> SUFFICES ASSUME before = o.id PROVE Partly(Graph, Graph', o)
      OBVIOUS
    <3>1. EdgeOf(o) = AppliedToEdge(Graph.edges[before], before, o)
      BY <2>1 DEF AppliedToEdge, Detaches
    <3> QED BY <1>1, <2>1, <2>3, <3>1, PartlyEdge
  <2>5. Progress(o, before)'
    <3>1. Graph'.edges[before] = EdgeOf(o)
      BY <1>1, <2>1, <2>3 DEF Graphs
    <3>2. edges_next_id' = before + 1 /\ op'.pc = "idle"
      BY <1>8, <2>1 DEF Store!StampEdges, Store!Idle
    <3> QED BY <2>1, <3>1, <3>2 DEF Progress, InsertPcs
  <2>6. Issued' = Issued
    BY <1>8 DEF Issued, Store!StampEdges
  <2> QED BY <2>1, <2>4, <2>5, <2>6 DEF Moves, IsInsert
<1>9. CASE Store!StoreTombstone
  <2>1. o.kind \in {"delete_edge", "delete_node"} /\ op.pc = "tombstone"
    BY <1>2, <1>9 DEF Progress, InsertPcs, Store!StoreTombstone
  <2>2. Graph' = Graph
    BY <1>9, QuietSteps
  <2>3. op' = (IF op.node = SIZE_MAX THEN Store!Idle ELSE [pc |-> "detach", node |-> op.node])
        /\ nodes' = nodes /\ edges' = edges
    BY <1>9 DEF Store!StoreTombstone
  <2>4. Progress(o, before)'
    <3>1. CASE o.kind = "delete_edge"
      BY <2>1, <2>3, <3>1 DEF Progress, Store!Idle
    <3>2. CASE o.kind = "delete_node"
      <4>1. op.node = o.id /\ o.detach /\ o.id \in Ids
        BY <2>1, <3>2 DEF Progress
      <4>2. op' = [pc |-> "detach", node |-> o.id]
        BY <2>3, <4>1
      <4> QED BY <3>2, <4>1, <4>2 DEF Progress
    <3> QED BY <2>1, <3>1, <3>2
  <2>5. Issued' = Issued
    BY <1>9 DEF Issued, Store!StoreTombstone
  <2> QED BY <2>2, <2>4, <2>5, PartlyQuiet DEF Moves
<1>10. CASE Store!Detach
  <2>1. o.kind = "delete_node" /\ op.pc = "detach" /\ op.node = o.id /\ o.detach /\ o.id \in Ids
    BY <1>2, <1>10 DEF Progress, InsertPcs, Store!Detach
  <2>2. Issued' = Issued
    BY <1>10 DEF Issued, Store!Detach, Store!DeleteEdgeObject
  <2>3. ASSUME NEW e \in Store!IncidentRecords(o.id), Store!EdgeExists(e),
               Store!DeleteEdgeObject(e, o.id)
        PROVE  Moves(o, before)
    <3>1. e \in Ids /\ e < edge_count /\ coo[e] # Store!Tombstone /\ edges[e] # Absent
          /\ (coo[e].source = o.id \/ coo[e].destination = o.id)
      BY <2>3 DEF Store!IncidentRecords, Store!linklet_coo_edge_is_deleted, Store!EdgeExists
    <3>2. /\ nodes' = nodes
          /\ \/ Graph'.edges = Graph.edges
             \/ Graph'.edges = [Graph.edges EXCEPT ![e] = Absent]
      BY <2>1, <2>3, <3>1, DeleteEdgeStep
    <3>3. Graph.edges[e] = [source |-> coo[e].source, destination |-> coo[e].destination,
                            doc |-> edges[e]]
      BY <3>1, GraphEdges
    <3>4. Graph.edges[e] # Absent
      <4>1. Graph.edges[e] \in EdgeRecords \cup {Absent} /\ coo[e].source \in Ids
            /\ coo[e].destination \in Ids /\ edges[e] \in Documents
        BY <1>1, <3>1 DEF Graphs, Elements, Store!IInv, Store!ReferentialIntegrity,
           Store!NodeExists, Store!EdgeExists, Store!linklet_coo_edge_is_deleted
      <4>2. Graph.edges[e] \in EdgeRecords
        BY <3>3, <4>1 DEF EdgeRecords
      <4> QED BY <4>2 DEF EdgeRecords
    <3>5. Detaches(o, Graph.edges[e])
      <4>1. Graph.edges[e].source = coo[e].source /\ Graph.edges[e].destination = coo[e].destination
        BY <3>3
      <4> QED BY <2>1, <3>1, <3>4, <4>1 DEF Detaches
    <3>6. Absent = AppliedToEdge(Graph.edges[e], e, o)
      BY <3>5 DEF AppliedToEdge
    <3>7. Partly(Graph, Graph', o)
      BY <1>1, <3>1, <3>2, <3>6, PartlyEdge
    <3>8. Progress(o, before)'
      BY <2>1, <2>3 DEF Progress, Store!DeleteEdgeObject
    <3> QED BY <2>2, <3>7, <3>8 DEF Moves
  <2>4. ASSUME NEW e \in Store!IncidentRecords(o.id), ~Store!EdgeExists(e)
        PROVE  FALSE
    BY <1>10, <2>1, <2>4 DEF Store!IncidentRecords, Store!Detach, Store!IInv, Store!FilesAgree
  <2>5. CASE /\ nodes' = [nodes EXCEPT ![o.id] = Absent] /\ op' = Store!Idle
             /\ UNCHANGED <<edges, edge_count, coo>>
    <3>1. Graph'.edges = Graph.edges
      BY <2>5, NodeStep
    <3>2. Absent = AppliedToNode(nodes[o.id], o.id, o)
      BY <2>1 DEF AppliedToNode
    <3>3. Partly(Graph, Graph', o)
      BY <1>1, <2>5, <3>1, <3>2, PartlyNode
    <3>4. Progress(o, before)'
      BY <1>1, <2>1, <2>5 DEF Progress, Store!Idle, Elements
    <3> QED BY <2>2, <3>3, <3>4 DEF Moves
  <2> QED BY <1>10, <2>1, <2>3, <2>4, <2>5 DEF Store!Detach
<1> QED BY <1>4, <1>5, <1>6, <1>7, <1>8, <1>9, <1>10 DEF Store!Continue

-----------------------------------------------------------------------------
(* Every step preserves the invariant: steps that leave the store alone *)

\* The fields of the call in progress, by the point it has got to.
LEMMA WorkFields ==
  ASSUME Shape
  PROVE  /\ work # NoWork <=> work.pc # "idle"
         /\ work.pc \in {"resize", "write", "apply", "clear"} =>
              work \in [mode : {"execute", "commit", "replay"}, ops : Frames, at : Nat \ {0},
                        pc : {"resize", "write", "apply", "clear"}]
         /\ work.pc = "running" =>
              work \in [mode : {"execute", "commit", "replay"}, ops : Frames, at : Nat \ {0},
                        pc : {"running"}, before : 0 .. SIZE_MAX]
         /\ work.pc \in {"idle", "resize", "write", "apply", "clear", "running"}
BY DEF Shape, Works, NoWork

\* What the invariant says of the store.
StoreInv == Store!IInv /\ Unissued

\* Steps that leave the store alone keep the graph.
LEMMA StoreAlone ==
  ASSUME StoreInv, UNCHANGED storeVars
  PROVE  /\ StoreInv'
         /\ Graph' = Graph /\ Issued' = Issued /\ Stored' = Stored /\ up' = up /\ op' = op
<1>1. Store!IInv'
  BY StorePreserves DEF StoreInv
<1> QED BY <1>1 DEF StoreInv, storeVars, Unissued, Graph, Store!Edges, Store!EdgeExists, Issued, Stored

\* A statement outside a transaction.
LEMMA ExecutePreserves ==
  ASSUME DInv, NEW call \in Calls, linklet_database_execute(call)
  PROVE  DInv'
<1> PICK ops : ops = IF call.code = "insert" THEN <<Insertion(call, 0)>> ELSE Mutations(call)
  OBVIOUS
<1>1. /\ up /\ work = NoWork /\ work' = Begin("execute", ops, "apply")
      /\ UNCHANGED <<wal, transaction, auxVars>>
  BY DEF linklet_database_execute, Idle
<1>2. StoreInv' /\ Graph' = Graph /\ Issued' = Issued /\ Stored' = Stored /\ up' /\ op' = op
  BY StoreAlone DEF linklet_database_execute, Idle, DInv, StoreInv
<1>3. ops \in Frames /\ Len(ops) \in Nat
  <2>1. CASE call.code = "insert"
    <3>1. Insertion(call, 0) \in FrameOperations
      BY <2>1, CallsAssumption
      DEF Insertion, Operation, InsertKind, FrameOperations, Operations
    <3> QED BY <2>1, <3>1 DEF Frames
  <2>2. CASE call.code # "insert"
    <3>1. Elements
      BY GraphType DEF DInv
    <3>2. Mutations(call) \in Seq(Resolved)
      BY <2>2, <3>1, MutationsResolved
    <3> QED BY <2>2, <3>2 DEF Frames, Resolved
  <2> QED BY <2>1, <2>2
<1>4. Shape'
  BY <1>1, <1>2, <1>3 DEF Shape, DInv, Begin, Works, auxVars, NoWork
<1>5. DownInv' /\ QuietInv'
  BY <1>1, <1>2 DEF DInv, DownInv, QuietInv, Pending, auxVars, Begin
<1>6. PlanInv' /\ ApplyInv' /\ CommitInv' /\ MissedInv' /\ RunningInv'
  BY <1>1 DEF Begin, PlanInv, ApplyInv, CommitInv, MissedInv, RunningInv, Doing
<1> QED BY <1>2, <1>4, <1>5, <1>6 DEF DInv, StoreInv

\* Statements of a transaction are buffered.
LEMMA BufferPreserves ==
  ASSUME DInv,
         \/ \E call \in Calls : linklet_transaction_execute(call)
         \/ linklet_database_begin \/ linklet_transaction_abort
  PROVE  DInv'
<1>1. work = NoWork /\ up /\ UNCHANGED <<storeVars, wal, work, auxVars>>
  BY DEF linklet_transaction_execute, linklet_database_begin, linklet_transaction_abort, Idle
<1>2. StoreInv' /\ Graph' = Graph /\ Issued' = Issued /\ Stored' = Stored /\ up' /\ op' = op
  BY <1>1, StoreAlone DEF DInv, StoreInv
<1>3. /\ transaction' \in [active : BOOLEAN, calls : Seq(Calls)]
      /\ ~transaction'.active => transaction'.calls = <<>>
  <2>1. transaction \in [active : BOOLEAN, calls : Seq(Calls)]
    BY DEF DInv, Shape
  <2>2. ASSUME NEW call \in Calls, linklet_transaction_execute(call)
        PROVE  /\ transaction' \in [active : BOOLEAN, calls : Seq(Calls)]
               /\ transaction'.active
    <3> PICK calls \in Seq(Calls) : calls = transaction.calls
      BY <2>1
    <3>1. Append(calls, call) \in Seq(Calls)
      OBVIOUS
    <3>2. transaction = [active |-> TRUE, calls |-> calls]
      BY <2>1, <2>2 DEF linklet_transaction_execute
    <3>3. transaction' = [active |-> TRUE, calls |-> Append(calls, call)]
      BY <2>2, <3>2 DEF linklet_transaction_execute
    <3> QED BY <3>1, <3>3
  <2>3. CASE linklet_database_begin \/ linklet_transaction_abort
    <3>1. <<>> \in Seq(Calls)
      OBVIOUS
    <3>2. \E a \in BOOLEAN : transaction' = [active |-> a, calls |-> <<>>]
      BY <2>3
      DEF linklet_database_begin, linklet_transaction_abort, ClearedTransaction, NoTransaction
    <3> QED BY <3>1, <3>2
  <2> QED BY <2>2, <2>3
<1>4. Shape'
  BY <1>1, <1>2, <1>3 DEF Shape, DInv, auxVars, NoWork, Current
<1>5. DownInv' /\ QuietInv'
  BY <1>1, <1>2 DEF DInv, DownInv, QuietInv, Pending, auxVars
<1>6. PlanInv' /\ ApplyInv' /\ CommitInv' /\ MissedInv' /\ RunningInv'
  BY <1>1 DEF NoWork, PlanInv, ApplyInv, CommitInv, MissedInv, RunningInv, Doing
<1> QED BY <1>2, <1>4, <1>5, <1>6 DEF DInv, StoreInv

\* COMMIT resolves the buffered calls.
LEMMA CommitPreserves ==
  ASSUME DInv, linklet_transaction_commit
  PROVE  DInv'
<1> PICK ops : ops = ResolvedOperations(transaction.calls)
  OBVIOUS
<1>1. /\ work = NoWork /\ work' = Begin("commit", ops, "resize")
      /\ UNCHANGED <<wal, transaction, auxVars>>
  BY DEF linklet_transaction_commit, Idle
<1>2. StoreInv' /\ Graph' = Graph /\ Issued' = Issued /\ Stored' = Stored /\ up' /\ op' = op
  BY StoreAlone DEF linklet_transaction_commit, Idle, DInv, StoreInv
<1>3. Frame(ops) /\ Anchored(ops, Issued) /\ Ahead(ops, 1, Issued)
  <2>1. Elements
    BY GraphType DEF DInv
  <2>2. transaction.calls \in Seq(Calls)
    BY DEF DInv, Shape
  <2> QED BY <2>1, <2>2, CommitPlansFrame DEF DInv
<1>4. ops \in Frames /\ Len(ops) \in Nat
  BY <1>3 DEF Frame, Frames
<1>5. Shape'
  BY <1>1, <1>2, <1>4 DEF Shape, DInv, Begin, Works, auxVars, NoWork
<1>6. DownInv' /\ QuietInv'
  BY <1>1, <1>2 DEF DownInv, QuietInv, Begin, NoWork
<1>7. PlanInv'
  <2>1. up /\ (wal = NoFrame \/ aux_frame = "failed")
    BY <1>1 DEF DInv, QuietInv, linklet_transaction_commit, Idle
  <2> QED BY <1>1, <1>2, <1>3, <2>1 DEF PlanInv, Begin, auxVars
<1>8. ApplyInv' /\ CommitInv' /\ MissedInv' /\ RunningInv'
  BY <1>1 DEF Begin, ApplyInv, CommitInv, MissedInv, RunningInv, Doing
<1> QED BY <1>2, <1>5, <1>6, <1>7, <1>8 DEF DInv, StoreInv

\* wal.ll is made to fit the frame.
LEMMA ResizePreserves ==
  ASSUME DInv, WalResize
  PROVE  DInv'
<1> PICK mode, ops, at : mode = work.mode /\ ops = work.ops /\ at = work.at
  OBVIOUS
<1>1. /\ up /\ work = [mode |-> mode, ops |-> ops, at |-> at, pc |-> "resize"]
      /\ work' = [mode |-> mode, ops |-> ops, at |-> at, pc |-> "write"]
      /\ mode = "commit" /\ at = 1 /\ ops \in Frames /\ Len(ops) \in Nat
      /\ wal' = Resized /\ UNCHANGED <<transaction, auxVars>>
  <2>1. Shape
    BY DEF DInv
  <2>2. work = [mode |-> mode, ops |-> ops, at |-> at, pc |-> "resize"] /\ ops \in Frames
    BY <2>1, WorkFields DEF WalResize
  <2>3. work' = [mode |-> mode, ops |-> ops, at |-> at, pc |-> "write"]
    BY <2>2 DEF WalResize
  <2>4. mode = "commit" /\ at = 1
    BY <2>1, <2>2 DEF Shape
  <2> QED BY <2>2, <2>3, <2>4 DEF WalResize, Frames
<1>2. StoreInv' /\ Graph' = Graph /\ Issued' = Issued /\ Stored' = Stored /\ up' /\ op' = op
  BY StoreAlone DEF WalResize, DInv, StoreInv
<1>3. wal' \in Frames /\ (wal \in {NoFrame, <<>>} => wal' = <<>>)
  <2>1. wal = NoFrame \/ wal \in Frames
    BY DEF DInv, Shape
  <2>2. CASE wal = NoFrame
    BY <1>1, <2>2 DEF Resized, Frames
  <2>3. CASE wal # NoFrame
    <3> PICK f \in Frames : f = wal
      BY <2>1, <2>3
    <3>1. wal' = [i \in 1 .. Len(f) |-> IF i <= Len(ops) THEN f[i] ELSE Garbage] /\ Len(f) \in Nat
      BY <1>1, <2>3 DEF Resized, Frames
    <3>2. wal' \in Frames
      BY <3>1 DEF Frames
    <3>3. wal = <<>> => wal' = <<>>
      BY <3>1, <3>2 DEF Frames
    <3> QED BY <2>3, <3>2, <3>3
  <2> QED BY <2>2, <2>3
<1>4. Shape'
  BY <1>1, <1>2, <1>3 DEF Shape, DInv, Works, auxVars, NoWork
<1>5. DownInv' /\ QuietInv'
  BY <1>1, <1>2 DEF DownInv, QuietInv, NoWork
<1>6. PlanInv'
  BY <1>1, <1>2, <1>3 DEF DInv, PlanInv, auxVars
<1>7. ApplyInv' /\ CommitInv' /\ MissedInv' /\ RunningInv'
  BY <1>1 DEF ApplyInv, CommitInv, MissedInv, RunningInv, Doing
<1> QED BY <1>2, <1>4, <1>5, <1>6, <1>7 DEF DInv, StoreInv

\* The commit point.
LEMMA WritePreserves ==
  ASSUME DInv, WalWrite
  PROVE  DInv'
<1> PICK mode, ops, at : mode = work.mode /\ ops = work.ops /\ at = work.at
  OBVIOUS
<1>1. /\ up /\ work = [mode |-> mode, ops |-> ops, at |-> at, pc |-> "write"]
      /\ work' = [mode |-> mode, ops |-> ops, at |-> at, pc |-> "apply"]
      /\ mode = "commit" /\ at = 1 /\ ops \in Frames /\ Len(ops) \in Nat
      /\ wal' = ops /\ aux_promised' = FoldLeft(AppliedOp, Graph, ops)
      /\ aux_frame' = "pending" /\ transaction' = transaction
  <2>1. Shape
    BY DEF DInv
  <2>2. work = [mode |-> mode, ops |-> ops, at |-> at, pc |-> "write"] /\ ops \in Frames
    BY <2>1, WorkFields DEF WalWrite
  <2>3. work' = [mode |-> mode, ops |-> ops, at |-> at, pc |-> "apply"]
    BY <2>2 DEF WalWrite
  <2>4. mode = "commit" /\ at = 1
    BY <2>1, <2>2 DEF Shape
  <2> QED BY <2>2, <2>3, <2>4 DEF WalWrite, Frames
<1>2. StoreInv' /\ Graph' = Graph /\ Issued' = Issued /\ Stored' = Stored /\ up' /\ op' = op
  BY StoreAlone DEF WalWrite, DInv, StoreInv
<1>3. Frame(ops) /\ Anchored(ops, Issued) /\ Ahead(ops, 1, Issued)
  BY <1>1 DEF DInv, PlanInv
<1>4. Applying(ops, 1, Issued, Stored, Graph, FoldLeft(AppliedOp, Graph, ops))
  <2>1. Graph \in Graphs /\ Issued \in [nodes : Nat, edges : Nat]
    BY GraphType DEF DInv
  <2>2. \A n \in Ids : n >= Issued.nodes => Graph.nodes[n] = Absent
    BY GraphNodes DEF DInv, Unissued, Issued
  <2>3. \A e \in Ids : e >= Issued.edges => Graph.edges[e] = Absent
    BY GraphEdges DEF DInv, Unissued, Issued
  <2> QED BY <1>3, <2>1, <2>2, <2>3, ApplyingBegins
<1>5. Shape'
  BY <1>1, <1>2 DEF Shape, DInv, Works, NoWork, FrameStates
<1>6. DownInv' /\ QuietInv'
  BY <1>1, <1>2 DEF DownInv, QuietInv, NoWork
<1>7. PlanInv' /\ MissedInv' /\ RunningInv'
  BY <1>1 DEF PlanInv, MissedInv, RunningInv
<1>8. ApplyInv' /\ CommitInv'
  BY <1>1, <1>2, <1>3, <1>4 DEF ApplyInv, CommitInv
<1> QED BY <1>2, <1>5, <1>6, <1>7, <1>8 DEF DInv, StoreInv

\* The frame leaves the log.
LEMMA ClearPreserves ==
  ASSUME DInv, WalClear
  PROVE  DInv'
<1>1. up /\ work.pc = "clear" /\ work' = NoWork /\ wal' = NoFrame /\ transaction' = NoTransaction
      /\ aux_frame' = "pending"
  BY DEF WalClear, ClearedTransaction
<1>2. StoreInv' /\ Graph' = Graph /\ Issued' = Issued /\ Stored' = Stored /\ up' /\ op' = op
  BY StoreAlone DEF WalClear, DInv, StoreInv
<1>3. Shape'
  <2>1. op = Store!Idle
    BY <1>1 DEF DInv, Shape
  <2>2. <<>> \in Seq(Calls)
    OBVIOUS
  <2> QED BY <1>1, <1>2, <2>1, <2>2 DEF Shape, NoTransaction, NoWork, FrameStates
<1>4. DownInv' /\ QuietInv'
  BY <1>1, <1>2 DEF DownInv, QuietInv
<1>5. PlanInv' /\ ApplyInv' /\ CommitInv' /\ MissedInv' /\ RunningInv'
  BY <1>1 DEF NoWork, PlanInv, ApplyInv, CommitInv, MissedInv, RunningInv, Doing
<1> QED BY <1>2, <1>3, <1>4, <1>5 DEF DInv, StoreInv

\* The steps between operations keep the graph; what is left to show is that the frame
\* still leads where it led.
LEMMA AdvancePreserves ==
  ASSUME DInv, UNCHANGED <<storeVars, wal, transaction, auxVars>>, up, op = Store!Idle,
         NEW mode, NEW ops, NEW at,
         work.mode = mode, work.ops = ops, work.at = at, work.pc \in {"apply", "running"},
         at <= Len(ops), work' = [mode |-> mode, ops |-> ops, at |-> at + 1, pc |-> "apply"],
         Doing =>
           /\ Kept(ops, Graph) => Settles(Graph, ops[at])
           /\ IsInsert(ops[at]) => ops[at].id < NextIdOf(ops[at], Issued) /\ Holds(ops[at], Stored)
  PROVE  DInv'
<1>1. mode \in {"execute", "commit", "replay"} /\ ops \in Frames /\ at \in Nat \ {0} /\ Len(ops) \in Nat
  <2>1. mode \in {"execute", "commit", "replay"} /\ ops \in Frames /\ at \in Nat \ {0}
    BY WorkFields DEF DInv
  <2> QED BY <2>1 DEF Frames
<1>2. StoreInv' /\ Graph' = Graph /\ Issued' = Issued /\ Stored' = Stored /\ up' /\ op' = op
  BY StoreAlone DEF DInv, StoreInv
<1>3. Shape'
  BY <1>1, <1>2 DEF Shape, DInv, Works, NoWork, auxVars
<1>4. DownInv' /\ QuietInv'
  <2>1. work # NoWork
    BY WorkFields DEF DInv
  <2> QED BY <1>2, <2>1 DEF DInv, DownInv, QuietInv, NoWork, auxVars
<1>5. PlanInv' /\ MissedInv' /\ RunningInv'
  BY DEF PlanInv, MissedInv, RunningInv
<1>6. ApplyInv'
  <2> SUFFICES ASSUME Doing'
               PROVE  wal' = ops /\ Applying(ops, at + 1, Issued, Stored, Graph, aux_promised)
    BY <1>2 DEF ApplyInv, auxVars
  <2>1. Doing
    BY DEF Doing, Pending, auxVars
  <2>2. wal = ops /\ Applying(ops, at, Issued, Stored, Graph, aux_promised)
    BY <2>1 DEF DInv, ApplyInv
  <2>3. at \in DOMAIN ops /\ ops \in Seq(FrameOperations)
    BY <1>1, <2>2 DEF Applying, Frame
  <2>4. Graph \in Graphs
    BY GraphType DEF DInv
  <2>5. ASSUME Kept(ops, Graph) PROVE AppliedOp(Graph, ops[at]) = Graph
    <3>1. ops[at] \in FrameOperations /\ Settles(Graph, ops[at])
      BY <2>1, <2>3, <2>5
    <3> QED BY <2>4, <3>1, SettledApplied
  <2>6. IsInsert(ops[at]) => ops[at].id < NextIdOf(ops[at], Issued) /\ Holds(ops[at], Stored)
    BY <2>1
  <2>7. Applying(ops, at + 1, Issued, Stored, Graph, aux_promised)
    BY <2>2, <2>3, <2>4, <2>5, <2>6, ApplyingAdvances
  <2> QED BY <2>2, <2>7
<1>7. CommitInv'
  <2> SUFFICES ASSUME mode = "commit"
               PROVE  aux_frame = "pending" /\ Ahead(ops, at + 1, Issued)
    BY <1>2 DEF CommitInv, auxVars
  <2>1. /\ aux_frame = "pending"
        /\ Ahead(ops, at, Issued) \/ Ahead(ops, at + 1, Issued)
    BY DEF DInv, CommitInv
  <2>2. Ahead(ops, at, Issued) => Ahead(ops, at + 1, Issued)
    BY <1>1 DEF Ahead
  <2> QED BY <2>1, <2>2
<1> QED BY <1>2, <1>3, <1>4, <1>5, <1>6, <1>7 DEF DInv, StoreInv

\* There is nothing to do.
LEMMA SkipPreserves ==
  ASSUME DInv, ApplySkip
  PROVE  DInv'
<1> PICK mode, ops, at : mode = work.mode /\ ops = work.ops /\ at = work.at
  OBVIOUS
<1>1. /\ work = [mode |-> mode, ops |-> ops, at |-> at, pc |-> "apply"]
      /\ work' = [mode |-> mode, ops |-> ops, at |-> at + 1, pc |-> "apply"]
      /\ ops \in Frames /\ at \in Nat \ {0} /\ at <= Len(ops) /\ up
  <2>1. /\ work = [mode |-> mode, ops |-> ops, at |-> at, pc |-> "apply"]
        /\ ops \in Frames /\ at \in Nat \ {0}
    BY WorkFields DEF ApplySkip, DInv
  <2> QED BY <2>1 DEF ApplySkip, Advance
<1>2. op = Store!Idle
  BY <1>1 DEF DInv, Shape
<1>3. ASSUME Doing
      PROVE  /\ Kept(ops, Graph) => Settles(Graph, ops[at])
             /\ IsInsert(ops[at]) => ops[at].id < NextIdOf(ops[at], Issued) /\ Holds(ops[at], Stored)
  <2>1. IsInsert(ops[at]) <=> Exists(ops[at])
    BY <1>1, <1>3 DEF ApplySkip, Skipped, Current, Doing
  <2>2. Frame(ops)
    BY <1>1, <1>3 DEF DInv, ApplyInv, Applying
  <2>3. at \in DOMAIN ops
    BY <1>1, <2>2 DEF Frame
  <2>4. Kept(ops, Graph) => Settles(Graph, ops[at])
    BY <1>1, <1>2, <2>1, <2>2, <2>3, SkippedSettles DEF DInv
  <2>5. IsInsert(ops[at]) => ops[at].id < NextIdOf(ops[at], Issued) /\ Holds(ops[at], Stored)
    <3> SUFFICES ASSUME IsInsert(ops[at])
                 PROVE  ops[at].id < NextIdOf(ops[at], Issued) /\ Holds(ops[at], Stored)
      OBVIOUS
    <3>1. Exists(ops[at])
      BY <2>1
    <3>2. Elements
      BY GraphType DEF DInv
    <3> QED BY <3>1, <3>2 DEF IsInsert, Exists, NextIdOf, Issued, Holds, Stored, Store!NodeExists,
            Store!EdgeExists, DInv, Unissued, Elements
  <2> QED BY <2>4, <2>5
<1> QED BY <1>1, <1>2, <1>3, AdvancePreserves DEF ApplySkip

\* The call returned true.
LEMMA ReturnPreserves ==
  ASSUME DInv, ApplyReturns
  PROVE  DInv'
<1> PICK mode, ops, at, before :
      mode = work.mode /\ ops = work.ops /\ at = work.at /\ before = work.before
  OBVIOUS
<1>1. /\ work = [mode |-> mode, ops |-> ops, at |-> at, pc |-> "running", before |-> before]
      /\ work' = [mode |-> mode, ops |-> ops, at |-> at + 1, pc |-> "apply"]
      /\ ops \in Frames /\ at \in Nat \ {0} /\ at <= Len(ops) /\ up /\ op = Store!Idle
  <2>1. /\ work = [mode |-> mode, ops |-> ops, at |-> at, pc |-> "running", before |-> before]
        /\ ops \in Frames /\ at \in Nat \ {0}
    BY WorkFields DEF ApplyReturns, DInv
  <2> QED BY <2>1 DEF ApplyReturns, Returned, DInv, Shape
<1>3. ASSUME Doing
      PROVE  /\ Kept(ops, Graph) => Settles(Graph, ops[at])
             /\ IsInsert(ops[at]) => ops[at].id < NextIdOf(ops[at], Issued) /\ Holds(ops[at], Stored)
  <2>1. mode # "execute"
    BY <1>1, <1>3 DEF Doing
  <2>2. Frame(ops)
    BY <1>1, <1>3 DEF DInv, ApplyInv, Applying
  <2>3. ops[at] \in FrameOperations
    BY <1>1, <2>2 DEF Frame
  <2>4. Progress(ops[at], before)
    BY <1>1, <2>1 DEF DInv, RunningInv, Current
  <2>5. IsInsert(ops[at]) => before = ops[at].id /\ NextId(ops[at]) = before + 1
    BY <1>1, <2>1 DEF ApplyReturns, Succeeded, Current
  <2> QED BY <1>1, <2>3, <2>4, <2>5, ReturnedSettles DEF DInv
<1> QED BY <1>1, <1>3, AdvancePreserves DEF ApplyReturns

\* The end of the operations: the frame goes next.
LEMMA DonePreserves ==
  ASSUME DInv, ApplyDone
  PROVE  DInv'
<1> PICK mode, ops, at : mode = work.mode /\ ops = work.ops /\ at = work.at
  OBVIOUS
<1>1. /\ work = [mode |-> mode, ops |-> ops, at |-> at, pc |-> "apply"]
      /\ work' = IF mode = "execute" THEN NoWork
                 ELSE [mode |-> mode, ops |-> ops, at |-> at, pc |-> "clear"]
      /\ mode \in {"execute", "commit", "replay"}
      /\ ops \in Frames /\ at \in Nat \ {0} /\ Len(ops) \in Nat /\ at = Len(ops) + 1 /\ up
  <2>1. /\ work = [mode |-> mode, ops |-> ops, at |-> at, pc |-> "apply"] /\ ops \in Frames
        /\ at \in Nat \ {0} /\ mode \in {"execute", "commit", "replay"}
    BY WorkFields DEF ApplyDone, DInv
  <2>2. Len(ops) \in Nat
    BY <2>1 DEF Frames
  <2>3. at <= Len(ops) + 1 /\ at > Len(ops)
    BY <2>1 DEF ApplyDone, DInv, Shape, NoWork
  <2> QED BY <2>1, <2>2, <2>3 DEF ApplyDone
<1>2. StoreInv' /\ Graph' = Graph /\ Issued' = Issued /\ Stored' = Stored /\ up' /\ op' = op
  BY StoreAlone DEF ApplyDone, DInv, StoreInv
<1>3. /\ aux_frame' = (IF mode = "commit" THEN "applied" ELSE aux_frame)
      /\ UNCHANGED <<wal, transaction, aux_promised>>
  BY <1>1 DEF ApplyDone
<1>4. Shape'
  BY <1>1, <1>2, <1>3 DEF Shape, DInv, Works, NoWork, FrameStates
<1>5. DownInv' /\ QuietInv'
  BY <1>1, <1>2, <1>3 DEF DInv, DownInv, QuietInv, NoWork
<1>6. PlanInv' /\ MissedInv' /\ RunningInv'
  BY <1>1 DEF PlanInv, MissedInv, RunningInv, NoWork
<1>7. ApplyInv'
  <2> SUFFICES ASSUME Doing'
               PROVE  ApplyInv'
    BY DEF ApplyInv
  <2>1. mode # "execute" /\ work' = [mode |-> mode, ops |-> ops, at |-> at, pc |-> "clear"]
    BY <1>1 DEF Doing, NoWork
  <2>2. Doing
    BY <1>1, <1>3, <2>1 DEF Doing, Pending
  <2> QED BY <1>1, <1>2, <1>3, <2>1, <2>2 DEF DInv, ApplyInv
<1>8. CommitInv'
  BY <1>1, <1>2, <1>3 DEF DInv, CommitInv, NoWork
<1> QED BY <1>2, <1>4, <1>5, <1>6, <1>7, <1>8 DEF DInv, StoreInv

\* Closing the store keeps what it stores; so does a crash, and so does opening it.
LEMMA StoreSwitches ==
  ASSUME StoreInv, Store!linklet_graph_store_close \/ Store!linklet_graph_store_open \/ Store!Crash
  PROVE  StoreInv' /\ Graph' = Graph /\ Issued' = Issued /\ Stored' = Stored
<1>1. Store!Next
  BY DEF Store!Next
<1>2. StoreInv'
  BY <1>1, StorePreserves, StoreLater DEF StoreInv
<1> QED BY <1>2 DEF Graph, Store!Edges, Store!EdgeExists, Issued, Stored, Store!objectVars,
        Store!linklet_graph_store_close, Store!linklet_graph_store_open, Store!Crash

\* The points of a call at which its frame is in wal.ll.
LEMMA PendingWork ==
  ASSUME DInv, up, Pending
  PROVE  Doing /\ Applying(wal, 1, Issued, Stored, Graph, aux_promised)
<1>1. Doing
  <2>1. work # NoWork /\ work.mode # "execute"
    BY DEF DInv, QuietInv, Pending
  <2>2. work.pc \in {"resize", "write", "apply", "running", "clear"}
    BY <2>1, WorkFields DEF DInv
  <2>3. work.pc \notin {"resize", "write"}
    BY DEF DInv, PlanInv, Pending
  <2>4. work.mode \in {"execute", "commit", "replay"}
    BY <2>2, WorkFields DEF DInv
  <2> QED BY <2>1, <2>2, <2>3, <2>4 DEF Doing
<1>2. wal = work.ops /\ Applying(work.ops, work.at, Issued, Stored, Graph, aux_promised)
  BY <1>1 DEF DInv, ApplyInv
<1> QED BY <1>1, <1>2, ApplyingAgain

\* The call failed.
LEMMA FailPreserves ==
  ASSUME DInv, ApplyFails
  PROVE  DInv'
<1>1. /\ up /\ work' = NoWork /\ transaction' = NoTransaction /\ wal' = wal
      /\ work.pc \in {"apply", "running"} /\ work.mode \in {"execute", "commit", "replay"}
  <2>1. work.pc \in {"apply", "running"}
    BY DEF ApplyFails, CallFails
  <2> QED BY <2>1, WorkFields DEF ApplyFails, Fails, ClearedTransaction, DInv
<1>2. op = Store!Idle
  BY DEF ApplyFails, CallFails, DInv, Shape
<1>3. <<>> \in Seq(Calls)
  OBVIOUS
<1>4. PlanInv' /\ ApplyInv' /\ CommitInv' /\ MissedInv' /\ RunningInv'
  BY <1>1 DEF NoWork, PlanInv, ApplyInv, CommitInv, MissedInv, RunningInv, Doing
<1>5. CASE work.mode = "replay"
  <2>1. StoreInv' /\ Graph' = Graph /\ Issued' = Issued /\ Stored' = Stored
    BY <1>5, StoreSwitches DEF ApplyFails, Fails, DInv, StoreInv
  <2>2. ~up' /\ op' = op /\ UNCHANGED auxVars
    BY <1>5 DEF ApplyFails, Fails, Store!linklet_graph_store_close, auxVars
  <2>3. Shape'
    BY <1>1, <1>2, <1>3, <2>2 DEF Shape, DInv, NoTransaction, NoWork, auxVars
  <2>4. DownInv' /\ QuietInv'
    <3>1. Pending' => Pending
      BY <1>1, <2>2 DEF Pending, auxVars
    <3>2. Pending' => Applying(wal, 1, Issued, Stored, Graph, aux_promised)
      BY <1>1, <3>1, PendingWork
    <3> QED BY <1>1, <2>1, <2>2, <3>2 DEF DownInv, QuietInv, auxVars
  <2> QED BY <1>4, <2>1, <2>3, <2>4 DEF DInv, StoreInv
<1>6. CASE work.mode \in {"execute", "commit"}
  <2>1. StoreInv' /\ up' /\ op' = op
    BY <1>1, <1>6, StoreAlone DEF ApplyFails, Fails, DInv, StoreInv
  <2>2. aux_frame' = IF work.mode = "commit" THEN "failed" ELSE aux_frame
    BY DEF ApplyFails, Fails
  <2>3. Shape'
    BY <1>1, <1>2, <1>3, <2>1, <2>2 DEF Shape, DInv, NoTransaction, NoWork, FrameStates
  <2>4. DownInv' /\ QuietInv'
    BY <1>1, <1>6, <2>1, <2>2 DEF DInv, DownInv, QuietInv
  <2> QED BY <1>4, <2>1, <2>3, <2>4 DEF DInv, StoreInv
<1> QED BY <1>1, <1>5, <1>6

\* The database is opened: its frame is replayed.
LEMMA OpenPreserves ==
  ASSUME DInv, linklet_database_open
  PROVE  DInv'
<1>1. /\ ~up /\ work' = (IF wal = NoFrame THEN NoWork ELSE Begin("replay", wal, "apply"))
      /\ UNCHANGED <<wal, transaction, auxVars>> /\ up' /\ op' = op
  BY DEF linklet_database_open, Store!linklet_graph_store_open
<1>2. StoreInv' /\ Graph' = Graph /\ Issued' = Issued /\ Stored' = Stored
  BY StoreSwitches DEF linklet_database_open, DInv, StoreInv
<1>3. wal = NoFrame \/ wal \in Frames
  BY DEF DInv, Shape
<1>4. Shape'
  <2>1. op = Store!Idle /\ work = NoWork
    BY <1>1 DEF DInv, Shape, NoWork
  <2>2. wal # NoFrame => wal \in Frames /\ Len(wal) \in Nat
    BY <1>3 DEF Frames
  <2> QED BY <1>1, <2>1, <2>2 DEF Shape, DInv, Begin, Works, NoWork, auxVars
<1>5. DownInv' /\ QuietInv'
  <2>1. wal # NoFrame => work'.pc = "apply" /\ work'.mode = "replay"
    BY <1>1 DEF Begin
  <2> QED BY <1>1, <2>1 DEF DownInv, QuietInv, NoWork
<1>6. PlanInv' /\ CommitInv' /\ MissedInv' /\ RunningInv'
  BY <1>1 DEF PlanInv, CommitInv, MissedInv, RunningInv, NoWork, Begin
<1>7. ApplyInv'
  <2> SUFFICES ASSUME Doing' PROVE ApplyInv'
    BY DEF ApplyInv
  <2>1. work' = Begin("replay", wal, "apply")
    BY <1>1 DEF Doing, NoWork
  <2>2. Pending
    BY <1>1, <2>1 DEF Doing, Begin, Pending, auxVars
  <2>3. Applying(wal, 1, Issued, Stored, Graph, aux_promised)
    BY <1>1, <2>2 DEF DInv, DownInv
  <2> QED BY <1>1, <1>2, <2>1, <2>3 DEF ApplyInv, Begin, auxVars
<1> QED BY <1>2, <1>4, <1>5, <1>6, <1>7 DEF DInv, StoreInv

\* The database is closed between calls.
LEMMA ClosePreserves ==
  ASSUME DInv, linklet_database_close
  PROVE  DInv'
<1>1. /\ up /\ work = NoWork /\ ~up' /\ op' = op
      /\ UNCHANGED <<wal, transaction, work, auxVars>>
  BY DEF linklet_database_close, Idle, Store!linklet_graph_store_close
<1>2. StoreInv' /\ Graph' = Graph /\ Issued' = Issued /\ Stored' = Stored
  BY StoreSwitches DEF linklet_database_close, DInv, StoreInv
<1>3. Shape'
  BY <1>1 DEF Shape, DInv, NoWork, auxVars
<1>4. DownInv' /\ QuietInv'
  BY <1>1 DEF DInv, DownInv, QuietInv, Pending, auxVars
<1>5. PlanInv' /\ ApplyInv' /\ CommitInv' /\ MissedInv' /\ RunningInv'
  BY <1>1 DEF NoWork, PlanInv, ApplyInv, CommitInv, MissedInv, RunningInv, Doing
<1> QED BY <1>2, <1>3, <1>4, <1>5 DEF DInv, StoreInv

\* The process dies.
LEMMA CrashPreserves ==
  ASSUME DInv, Crash
  PROVE  DInv'
<1>1. /\ up /\ ~up' /\ op' = Store!Idle /\ work' = NoWork /\ transaction' = NoTransaction
      /\ UNCHANGED <<wal, auxVars>>
  BY DEF Crash, Store!Crash
<1>2. StoreInv' /\ Graph' = Graph /\ Issued' = Issued /\ Stored' = Stored
  BY StoreSwitches DEF Crash, DInv, StoreInv
<1>3. Shape'
  <2>1. <<>> \in Seq(Calls)
    OBVIOUS
  <2> QED BY <1>1, <2>1 DEF Shape, DInv, NoTransaction, NoWork, auxVars
<1>4. DownInv' /\ QuietInv'
  <2>1. Pending' => Pending
    BY <1>1 DEF Pending, auxVars
  <2>2. Pending' => Applying(wal, 1, Issued, Stored, Graph, aux_promised)
    BY <1>1, <2>1, PendingWork
  <2> QED BY <1>1, <1>2, <2>2 DEF DownInv, QuietInv, auxVars
<1>5. PlanInv' /\ ApplyInv' /\ CommitInv' /\ MissedInv' /\ RunningInv'
  BY <1>1 DEF NoWork, PlanInv, ApplyInv, CommitInv, MissedInv, RunningInv, Doing
<1> QED BY <1>2, <1>3, <1>4, <1>5 DEF DInv, StoreInv

-----------------------------------------------------------------------------
(* Every step preserves the invariant: steps of the store *)

\* An insert gets the next ID, which no insert still to come is waiting for.
LEMMA AheadMoves ==
  ASSUME StoreInv, NEW ops, Frame(ops), NEW at \in DOMAIN ops, NEW before,
         Moves(ops[at], before), IsInsert(ops[at]) => before = ops[at].id,
         Ahead(ops, at + 1, Issued)
  PROVE  Ahead(ops, at + 1, Issued')
<1>1. ops \in Seq(FrameOperations) /\ at \in 1 .. Len(ops) /\ Len(ops) \in Nat
  BY DEF Frame
<1>2. Issued \in [nodes : Nat, edges : Nat]
  BY GraphType DEF StoreInv
<1>3. CASE Issued' = Issued
  BY <1>3
<1>4. ASSUME NEW i \in at + 1 .. Len(ops), IsInsert(ops[i]), IsInsert(ops[at]),
             \/ ops[at].kind = "insert_node" /\ Issued' = [Issued EXCEPT !.nodes = ops[at].id + 1]
             \/ ops[at].kind = "insert_edge" /\ Issued' = [Issued EXCEPT !.edges = ops[at].id + 1]
      PROVE  ops[i].id >= NextIdOf(ops[i], Issued')
  <2>1. i \in DOMAIN ops /\ at < i
    BY <1>1
  <2>2. ops[i].id \in Nat /\ ops[at].id \in Nat
    <3>1. ops[i] \in FrameOperations /\ ops[at] \in FrameOperations
      BY <1>1, <2>1
    <3> QED BY <3>1 DEF FrameOperations, Operations
  <2>3. ops[i].id >= NextIdOf(ops[i], Issued)
    BY <1>4 DEF Ahead
  <2>4. ops[i].kind = ops[at].kind => ops[at].id < ops[i].id
    BY <1>4, <2>1 DEF Frame
  <2>5. CASE ops[i].kind = ops[at].kind
    <3>1. NextIdOf(ops[i], Issued') = ops[at].id + 1
      BY <1>2, <1>4, <2>5 DEF NextIdOf
    <3> QED BY <2>2, <2>4, <2>5, <3>1
  <2>6. CASE ops[i].kind # ops[at].kind
    <3>1. NextIdOf(ops[i], Issued') = NextIdOf(ops[i], Issued)
      BY <1>2, <1>4, <2>6 DEF NextIdOf, IsInsert
    <3> QED BY <2>3, <3>1
  <2> QED BY <2>5, <2>6
<1>5. CASE Issued' # Issued
  <2>1. IsInsert(ops[at]) /\ before = ops[at].id
    BY <1>5 DEF Moves, IsInsert
  <2>2. \/ ops[at].kind = "insert_node" /\ Issued' = [Issued EXCEPT !.nodes = ops[at].id + 1]
        \/ ops[at].kind = "insert_edge" /\ Issued' = [Issued EXCEPT !.edges = ops[at].id + 1]
    BY <1>5, <2>1 DEF Moves
  <2> QED BY <1>4, <2>1, <2>2 DEF Ahead
<1> QED BY <1>3, <1>5

\* A step of the store in a call of the database.
LEMMA MovesPreserve ==
  ASSUME DInv, Store!Next, UNCHANGED <<wal, transaction, auxVars>>, up, up',
         work.pc \in {"apply", "running"},
         NEW mode, NEW ops, NEW at, NEW before \in 0 .. SIZE_MAX,
         work.mode = mode, work.ops = ops, work.at = at, at <= Len(ops), ops[at] \in FrameOperations,
         work' = [mode |-> mode, ops |-> ops, at |-> at, pc |-> "running", before |-> before],
         mode # "execute" => Moves(ops[at], before),
         mode = "commit" => aux_frame = "pending" /\ Ahead(ops, at + 1, Issued),
         Doing /\ IsInsert(ops[at]) /\ before # ops[at].id =>
           mode = "replay" /\ Stuck(ops, at, Issued, Stored)
  PROVE  DInv'
<1>1. /\ mode \in {"execute", "commit", "replay"} /\ ops \in Frames /\ at \in Nat \ {0}
      /\ work # NoWork
  BY WorkFields DEF DInv
<1>2. StoreInv' /\ Later(Issued, Stored, Issued', Stored')
  BY StorePreserves, StoreLater DEF DInv, StoreInv
<1>3. Graph \in Graphs /\ Graph' \in Graphs
  BY <1>2, GraphType, GraphTypeNext DEF DInv, StoreInv
<1>4. Doing' <=> Doing
  BY DEF Doing, Pending, auxVars
<1>5. ASSUME Doing PROVE wal = ops /\ Applying(ops, at, Issued, Stored, Graph, aux_promised)
  BY <1>5 DEF DInv, ApplyInv
<1>6. Shape'
  <2>1. Garbage.kind = "garbage" /\ ops[at].kind # "garbage"
    BY DEF Garbage, Operation, FrameOperations, Operations
  <2>2. at <= Len(ops) + 1
    BY <1>1 DEF Frames
  <2> QED BY <1>1, <2>1, <2>2 DEF Shape, DInv, Works, NoWork, auxVars, Current
<1>7. DownInv' /\ QuietInv'
  BY <1>1 DEF DInv, DownInv, QuietInv, NoWork, auxVars
<1>8. PlanInv'
  BY DEF PlanInv
<1>9. RunningInv'
  BY DEF RunningInv, Current, Moves
<1>10. ApplyInv'
  <2> SUFFICES ASSUME Doing
               PROVE  wal' = ops /\ Applying(ops, at, Issued', Stored', Graph', aux_promised)
    BY <1>4 DEF ApplyInv, auxVars
  <2>1. wal = ops /\ Applying(ops, at, Issued, Stored, Graph, aux_promised)
    BY <1>5
  <2>2. at \in DOMAIN ops
    BY <1>1, <2>1 DEF Applying, Frame
  <2>3. Partly(Graph, Graph', ops[at]) \/ Stuck(ops, at, Issued, Stored)
    BY DEF Moves, Doing
  <2>4. Applying(ops, at, Issued', Stored', Graph', aux_promised)
    BY <1>2, <1>3, <2>1, <2>2, <2>3, ApplyingMoves
  <2> QED BY <2>1, <2>4 DEF auxVars
<1>11. CommitInv'
  <2> SUFFICES ASSUME mode = "commit"
               PROVE  aux_frame = "pending" /\ Ahead(ops, at + 1, Issued')
    BY DEF CommitInv, auxVars
  <2>1. Doing
    BY DEF Doing
  <2>2. Frame(ops) /\ at \in DOMAIN ops
    BY <1>1, <1>5, <2>1 DEF Applying, Frame
  <2>3. IsInsert(ops[at]) => before = ops[at].id
    BY <2>1
  <2>4. Moves(ops[at], before) /\ Ahead(ops, at + 1, Issued)
    OBVIOUS
  <2>5. Ahead(ops, at + 1, Issued')
    BY <2>2, <2>3, <2>4, AheadMoves DEF DInv, StoreInv
  <2> QED BY <2>5
<1>12. MissedInv'
  <2> SUFFICES ASSUME Doing, IsInsert(ops[at]), before # ops[at].id
               PROVE  mode = "replay" /\ Stuck(ops, at, Issued', Stored')
    BY <1>4 DEF MissedInv, Current
  <2>1. mode = "replay" /\ Stuck(ops, at, Issued, Stored)
    OBVIOUS
  <2>2. ops \in Seq(FrameOperations)
    BY <1>5 DEF Applying, Frame
  <2> QED BY <1>1, <1>2, <2>1, <2>2, StuckLater
<1> QED BY <1>2, <1>6, <1>7, <1>8, <1>9, <1>10, <1>11, <1>12 DEF DInv, StoreInv

\* The call for an operation begins.
LEMMA CallPreserves ==
  ASSUME DInv, ApplyCall
  PROVE  DInv'
<1> PICK mode, ops, at, o, before :
      mode = work.mode /\ ops = work.ops /\ at = work.at /\ o = work.ops[work.at] /\ before = NextId(o)
  OBVIOUS
<1>1. /\ work = [mode |-> mode, ops |-> ops, at |-> at, pc |-> "apply"]
      /\ work' = [mode |-> mode, ops |-> ops, at |-> at, pc |-> "running", before |-> before]
      /\ ops \in Frames /\ at \in Nat \ {0} /\ at <= Len(ops) /\ up /\ o = ops[at]
      /\ ~Skipped(o) /\ StoreCall(o) /\ UNCHANGED <<wal, transaction, auxVars>>
  <2>1. /\ work = [mode |-> mode, ops |-> ops, at |-> at, pc |-> "apply"]
        /\ ops \in Frames /\ at \in Nat \ {0}
    BY WorkFields DEF ApplyCall, DInv
  <2> QED BY <2>1 DEF ApplyCall, Current
<1>2. o \in FrameOperations
  <2>1. ops[at] \in FrameOperations \cup {Garbage}
    <3>1. at \in 1 .. Len(ops)
      BY <1>1 DEF Frames
    <3> QED BY <1>1, <3>1 DEF Frames
  <2>2. Garbage.kind = "garbage"
    BY DEF Garbage, Operation
  <2> QED BY <1>1, <2>1, <2>2 DEF StoreCall
<1>3. Elements /\ before \in 0 .. SIZE_MAX
  <2>1. Elements
    BY GraphType DEF DInv
  <2> QED BY <2>1 DEF NextId, Elements
<1>4. Store!Next
  BY <1>1, <1>2, StoreCalled DEF DInv
<1>5. mode # "execute" => Moves(o, before)
  BY <1>1, <1>2, CallMoves DEF DInv
<1>6. mode = "commit" => aux_frame = "pending" /\ Ahead(ops, at, Issued) /\ Ahead(ops, at + 1, Issued)
  <2> SUFFICES ASSUME mode = "commit"
               PROVE  aux_frame = "pending" /\ Ahead(ops, at, Issued) /\ Ahead(ops, at + 1, Issued)
    OBVIOUS
  <2>1. aux_frame = "pending" /\ Ahead(ops, at, Issued)
    BY <1>1 DEF DInv, CommitInv
  <2>2. Ahead(ops, at + 1, Issued)
    BY <1>1, <2>1 DEF Ahead, Frames
  <2> QED BY <2>1, <2>2
<1>7. ASSUME Doing, IsInsert(o), before # o.id
      PROVE  mode = "replay" /\ Stuck(ops, at, Issued, Stored)
  <2>1. Frame(ops) /\ Anchored(ops, Issued) /\ Behind(ops, at, Issued) /\ at \in DOMAIN ops
    BY <1>1, <1>7 DEF DInv, ApplyInv, Applying, Frame
  <2>2. o.id \in Nat /\ before = NextIdOf(o, Issued) /\ before \in Nat
    BY <1>2, <1>3 DEF FrameOperations, Operations, NextId, NextIdOf, Issued
  <2>3. o.id < before
    <3>1. CASE o.id <= NextIdOf(o, Issued)
      BY <1>7, <2>2, <3>1
    <3>2. ASSUME NEW i \in 1 .. at - 1, ops[i].kind = o.kind, ops[i].id + 1 = o.id
          PROVE  o.id <= before
      <4>1. IsInsert(ops[i])
        BY <1>7, <3>2 DEF IsInsert
      <4>2. ops[i].id < NextIdOf(ops[i], Issued)
        BY <2>1, <4>1 DEF Behind
      <4>3. NextIdOf(ops[i], Issued) = before
        BY <2>2, <3>2 DEF NextIdOf
      <4>4. ops[i].id \in Nat
        <5>1. i \in DOMAIN ops /\ ops \in Seq(FrameOperations)
          BY <2>1 DEF Frame
        <5> QED BY <5>1 DEF FrameOperations, Operations
      <4> QED BY <2>2, <3>2, <4>2, <4>3, <4>4
    <3> QED BY <1>1, <1>7, <2>1, <2>2, <3>1, <3>2, SMTT(30) DEF Anchored
  <2>4. mode \in {"commit", "replay"}
    BY <1>1, <1>7 DEF Doing
  <2>5. ~Exists(o)
    BY <1>1, <1>2, <1>7, <2>4 DEF Skipped, IsInsert
  <2>6. ~Holds(o, Stored)
    BY <1>7, <2>5 DEF Holds, Stored, Exists, IsInsert, Store!NodeExists, Store!EdgeExists
  <2>7. at \in at .. Len(ops)
    BY <1>1 DEF Frames
  <2>8. Stuck(ops, at, Issued, Stored)
    BY <1>1, <1>7, <2>2, <2>3, <2>6, <2>7 DEF Stuck
  <2>9. mode # "commit"
    BY <1>1, <1>6, <1>7, <2>2, <2>3, <2>7, SMTT(30) DEF Ahead
  <2> QED BY <2>4, <2>8, <2>9
<1>8. up'
  BY <1>1, <1>2 DEF StoreCall, Store!InsertNode, Store!InsertEdge, Store!UpdateNode, Store!UpdateEdge,
     Store!DeleteNode, Store!DetachDeleteNode, Store!DeleteEdge, Store!DeleteEdgeObject
<1> QED BY <1>1, <1>2, <1>3, <1>4, <1>5, <1>6, <1>7, <1>8, MovesPreserve

\* The call goes on.
LEMMA StorePreservesDatabase ==
  ASSUME DInv, StoreStep
  PROVE  DInv'
<1> PICK mode, ops, at, o, before :
      /\ mode = work.mode /\ ops = work.ops /\ at = work.at /\ o = work.ops[work.at]
      /\ before = work.before
  OBVIOUS
<1>1. /\ work = [mode |-> mode, ops |-> ops, at |-> at, pc |-> "running", before |-> before]
      /\ work' = work /\ before \in 0 .. SIZE_MAX
      /\ ops \in Frames /\ at \in Nat \ {0} /\ at <= Len(ops) /\ up /\ o = ops[at]
      /\ Store!Continue /\ UNCHANGED <<wal, transaction, auxVars>>
  <2>1. /\ work = [mode |-> mode, ops |-> ops, at |-> at, pc |-> "running", before |-> before]
        /\ ops \in Frames /\ at \in Nat \ {0} /\ before \in 0 .. SIZE_MAX
    BY WorkFields DEF StoreStep, DInv
  <2> QED BY <2>1 DEF StoreStep, DInv, Shape, NoWork
<1>2. o \in FrameOperations
  <2>1. ops[at] \in FrameOperations \cup {Garbage}
    <3>1. at \in 1 .. Len(ops)
      BY <1>1 DEF Frames
    <3> QED BY <1>1, <3>1 DEF Frames
  <2>2. Garbage.kind = "garbage"
    BY DEF Garbage, Operation
  <2> QED BY <1>1, <2>1, <2>2 DEF DInv, Shape, Current
<1>3. Store!Next
  BY <1>1 DEF Store!Next
<1>4. mode # "execute" => Moves(o, before)
  BY <1>1, <1>2, StepMoves DEF DInv, RunningInv, Current
<1>5. mode = "commit" => aux_frame = "pending" /\ Ahead(ops, at + 1, Issued)
  BY <1>1 DEF DInv, CommitInv
<1>6. Doing /\ IsInsert(o) /\ before # o.id => mode = "replay" /\ Stuck(ops, at, Issued, Stored)
  BY <1>1 DEF DInv, MissedInv, Current
<1>7. up'
  BY <1>1 DEF Store!Continue, Store!StampVertices, Store!GrowResize, Store!StampCapacity,
     Store!InsertEdgeObject, Store!StoreEdgeRecord, Store!StampEdges, Store!StoreTombstone,
     Store!Detach, Store!DeleteEdgeObject
<1> QED BY <1>1, <1>2, <1>3, <1>4, <1>5, <1>6, <1>7, MovesPreserve, SMTT(30)

-----------------------------------------------------------------------------
(* The theorems *)

\* A step that changes nothing.
LEMMA StutterPreserves ==
  ASSUME DInv, UNCHANGED vars
  PROVE  DInv'
<1>1. UNCHANGED <<storeVars, wal, transaction, work, auxVars>>
  BY DEF vars
<1>2. StoreInv' /\ Graph' = Graph /\ Issued' = Issued /\ Stored' = Stored /\ up' = up /\ op' = op
  BY <1>1, StoreAlone DEF DInv, StoreInv
<1>3. Shape' /\ DownInv' /\ QuietInv' /\ PlanInv'
  BY <1>1, <1>2 DEF DInv, Shape, DownInv, QuietInv, PlanInv, Pending, auxVars, Current
<1>4. ApplyInv' /\ CommitInv' /\ MissedInv'
  BY <1>1, <1>2 DEF DInv, ApplyInv, CommitInv, MissedInv, Doing, Pending, auxVars, Current
<1>5. RunningInv'
  <2>1. Current' = Current /\ work' = work
    BY <1>1 DEF Current
  <2>2. \A o, b : Progress(o, b)' <=> Progress(o, b)
    BY <1>1, <1>2 DEF Progress, storeVars
  <2> QED BY <2>1, <2>2 DEF DInv, RunningInv
<1> QED BY <1>2, <1>3, <1>4, <1>5 DEF DInv, StoreInv

\* Every step preserves the invariant.
LEMMA DatabaseNextPreserves ==
  ASSUME DInv, [Next]_vars
  PROVE  DInv'
<1>1. CASE UNCHANGED vars
  BY <1>1, StutterPreserves
<1>2. CASE \E call \in Calls : linklet_database_execute(call)
  BY <1>2, ExecutePreserves
<1>3. CASE \/ \E call \in Calls : linklet_transaction_execute(call)
           \/ linklet_database_begin \/ linklet_transaction_abort
  BY <1>3, BufferPreserves
<1>4. CASE linklet_transaction_commit
  BY <1>4, CommitPreserves
<1>5. CASE Continue
  BY <1>5, ResizePreserves, WritePreserves, ClearPreserves, SkipPreserves, CallPreserves,
     StorePreservesDatabase, ReturnPreserves, FailPreserves, DonePreserves DEF Continue
<1>6. CASE linklet_database_open \/ linklet_database_close \/ Crash
  BY <1>6, OpenPreserves, ClosePreserves, CrashPreserves
<1> QED BY <1>1, <1>2, <1>3, <1>4, <1>5, <1>6 DEF Next

\* Both instances of the graph store expand to the same formula.
LEMMA SameInit == Store!Init <=> StoreProofs!Init
BY DEF Store!Init, StoreProofs!Init, Store!ZeroEdge, StoreProofs!ZeroEdge, Store!CreatedCapacity,
  StoreProofs!CreatedCapacity, Store!Idle, StoreProofs!Idle, StoreProofs!Ids

\* linklet_database_create makes a database without a frame.
LEMMA DatabaseInit == Init => DInv
<1> SUFFICES ASSUME Init PROVE DInv
  OBVIOUS
<1>1. work = NoWork /\ wal = NoFrame /\ transaction = NoTransaction /\ aux_frame = "pending"
  BY DEF Init
<1>2. Store!IInv
  BY SameInit, SameInvariant, StoreSizes, StoreProofs!InitEstablishes DEF Init
<1>3. Unissued /\ op = Store!Idle
  BY DEF Init, Store!Init, Unissued
<1>4. Shape
  <2>1. <<>> \in Seq(Calls)
    OBVIOUS
  <2> QED BY <1>1, <1>3, <2>1 DEF Shape, NoTransaction, NoWork, FrameStates
<1>5. DownInv /\ QuietInv
  BY <1>1 DEF DownInv, QuietInv, Pending
<1>6. PlanInv /\ ApplyInv /\ CommitInv /\ MissedInv /\ RunningInv
  BY <1>1 DEF NoWork, PlanInv, ApplyInv, CommitInv, MissedInv, RunningInv, Doing
<1> QED BY <1>2, <1>3, <1>4, <1>5, <1>6 DEF DInv

\* The inductive invariant holds in every state of the database.
THEOREM DatabaseInvariance == Spec => []DInv
<1>1. DInv /\ [Next]_vars => DInv'
  BY DatabaseNextPreserves
<1> QED BY <1>1, DatabaseInit, PTL DEF Spec

\* The variables of the store, the log, the transaction and the call in progress keep
\* their types.
THEOREM DatabaseTypeCorrectness == Spec => []TypeOK
<1>1. DInv => TypeOK
  <2> SUFFICES ASSUME DInv PROVE TypeOK
    OBVIOUS
  <2>1. Store!TypeOK
    BY DEF DInv, Store!IInv
  <2>2. Frames \subseteq Seq(Operations \cup {Garbage})
    BY DEF Frames, FrameOperations
  <2>3. /\ wal = NoFrame \/ wal \in Seq(Operations \cup {Garbage})
        /\ transaction.active \in BOOLEAN /\ transaction.calls \in Seq(Calls)
        /\ ~transaction.active => transaction.calls = <<>>
        /\ aux_frame \in FrameStates
    BY <2>2 DEF DInv, Shape
  <2>4. work.pc \in {"idle", "resize", "write", "apply", "running", "clear"}
    BY WorkFields DEF DInv
  <2>5. work.pc # "idle" => /\ work.mode \in {"execute", "commit", "replay"}
                            /\ work.ops \in Seq(Operations \cup {Garbage})
                            /\ work.at \in 1 .. Len(work.ops) + 1
    <3> SUFFICES ASSUME work.pc # "idle"
                 PROVE  /\ work.mode \in {"execute", "commit", "replay"}
                        /\ work.ops \in Seq(Operations \cup {Garbage})
                        /\ work.at \in 1 .. Len(work.ops) + 1
      OBVIOUS
    <3>1. work.mode \in {"execute", "commit", "replay"} /\ work.ops \in Frames /\ work.at \in Nat \ {0}
      BY <2>4, WorkFields DEF DInv
    <3>2. work.at <= Len(work.ops) + 1
      BY DEF DInv, Shape, NoWork
    <3> QED BY <2>2, <3>1, <3>2
  <2>6. work.pc = "running" => work.before \in 0 .. SIZE_MAX
    BY WorkFields DEF DInv
  <2> QED BY <2>1, <2>3, <2>4, <2>5, <2>6 DEF TypeOK
<1> QED BY <1>1, DatabaseInvariance, PTL

\* Each insert of a commit gets the ID that the commit wrote to the log, whatever the
\* operations before it deleted and however many calls the transaction has.
THEOREM CommitPredictsIds == Spec => []PredictedIds
<1>1. DInv => PredictedIds
  <2> SUFFICES ASSUME DInv, work.pc = "apply", work.mode = "commit", work.at <= Len(work.ops),
                      IsInsert(Current)
               PROVE  Current.id = NextId(Current)
    BY DEF PredictedIds
  <2> PICK ops, at, o : ops = work.ops /\ at = work.at /\ o = ops[at] /\ o = Current
    BY DEF Current
  <2>1. Doing
    BY DEF Doing
  <2>2. Frame(ops) /\ Anchored(ops, Issued) /\ Behind(ops, at, Issued) /\ at \in 1 .. Len(ops) + 1
    BY <2>1 DEF DInv, ApplyInv, Applying
  <2>3. at \in 1 .. Len(ops) /\ ops \in Seq(FrameOperations)
    BY <2>2 DEF Frame
  <2>4. o.id \in Nat /\ \A i \in DOMAIN ops : ops[i].id \in Nat
    <3>1. \A p \in FrameOperations : p.id \in Nat
      BY DEF FrameOperations, Operations
    <3>2. \A i \in DOMAIN ops : ops[i] \in FrameOperations
      BY <2>3
    <3>3. at \in DOMAIN ops
      BY <2>3
    <3> QED BY <3>1, <3>2, <3>3
  <2>5. NextIdOf(o, Issued) \in Nat /\ NextId(o) = NextIdOf(o, Issued)
    <3>1. Issued \in [nodes : Nat, edges : Nat]
      BY GraphType DEF DInv
    <3> QED BY <3>1 DEF NextIdOf, NextId, Issued
  <2>6. o.id >= NextIdOf(o, Issued)
    <3>1. Ahead(ops, at, Issued)
      BY DEF DInv, CommitInv
    <3>2. at \in at .. Len(ops)
      BY <2>3
    <3> QED BY <3>1, <3>2 DEF Ahead
  <2>7. o.id <= NextIdOf(o, Issued)
    <3>1. ASSUME NEW i \in 1 .. at - 1, ops[i].kind = o.kind, ops[i].id + 1 = o.id
          PROVE  o.id <= NextIdOf(o, Issued)
      <4>1. ops[i].id < NextIdOf(ops[i], Issued)
        BY <2>2, <3>1 DEF Behind, IsInsert
      <4>2. NextIdOf(ops[i], Issued) = NextIdOf(o, Issued)
        BY <3>1 DEF NextIdOf
      <4>3. ops[i].id \in Nat
        BY <2>3, <2>4
      <4> QED BY <2>4, <2>5, <3>1, <4>1, <4>2, <4>3, SMTT(30)
    <3>2. at \in DOMAIN ops /\ IsInsert(ops[at])
      BY <2>3
    <3>3. \/ o.id <= NextIdOf(o, Issued)
          \/ \E i \in 1 .. at - 1 : ops[i].kind = o.kind /\ ops[i].id + 1 = o.id
      BY <2>2, <3>2, ZenonT(30) DEF Anchored
    <3> QED BY <3>1, <3>3
  <2> QED BY <2>4, <2>5, <2>6, <2>7
<1> QED BY <1>1, DatabaseInvariance, PTL

\* Atomicity of a commit: its frame leaves the log only when the graph is exactly the
\* one the commit promised, whatever died in between and however often the frame was
\* replayed.  Frames that stand for no graph, of a commit that failed or died before it
\* wrote its operations, are left aside.
THEOREM CommitsAreAtomic == Spec => ClearedMeansApplied
<1> DEFINE Cleared == wal # NoFrame /\ wal' = NoFrame /\ aux_frame # "failed" =>
                        wal = <<>> \/ Graph = aux_promised
<1>1. DInv /\ [Next]_vars => [Cleared]_vars
  <2> SUFFICES ASSUME DInv, Next, wal # NoFrame, wal' = NoFrame, aux_frame # "failed"
               PROVE  wal = <<>> \/ Graph = aux_promised
    BY DEF vars
  <2>1. wal' # wal
    OBVIOUS
  <2>2. WalResize \/ WalWrite \/ WalClear
    BY <2>1 DEF Next, Continue, linklet_database_execute, linklet_transaction_execute,
       linklet_database_begin, linklet_transaction_abort, linklet_transaction_commit,
       ApplySkip, ApplyCall, StoreStep, ApplyReturns, ApplyFails, Fails, ApplyDone,
       linklet_database_open, linklet_database_close, Crash
  <2>3. CASE WalResize \/ WalWrite
    BY <2>3 DEF WalResize, WalWrite, DInv, PlanInv
  <2>4. CASE WalClear /\ wal # <<>>
    <3>1. work.pc = "clear" /\ up
      BY <2>4 DEF WalClear
    <3>2. Pending /\ Doing
      BY <2>4, <3>1, PendingWork DEF Pending
    <3>3. Applying(work.ops, work.at, Issued, Stored, Graph, aux_promised)
      BY <3>2 DEF DInv, ApplyInv
    <3>4. work.at = Len(work.ops) + 1
      BY <3>1 DEF DInv, Shape
    <3> PICK ops : ops = work.ops
      OBVIOUS
    <3>5. Applying(ops, Len(ops) + 1, Issued, Stored, Graph, aux_promised)
      BY <3>3, <3>4
    <3> QED BY <3>5, ApplyingEnds
  <2> QED BY <2>2, <2>3, <2>4
<1> QED BY <1>1, DatabaseInvariance, PTL DEF Spec, ClearedMeansApplied

\* The database calls the store as its callers may: every step of the database is a step
\* of the graph store or leaves the store alone, ...
THEOREM DatabaseUsesStore == Spec => Store!Spec
<1>1. Init => Store!Init
  BY DEF Init
<1>2. DInv /\ [Next]_vars => [Store!Next]_(Store!vars)
  <2> SUFFICES ASSUME DInv, Next PROVE Store!Next \/ UNCHANGED storeVars
    BY DEF Store!vars, storeVars, vars
  <2>1. ASSUME ApplyCall PROVE Store!Next
    <3>1. /\ work.pc = "apply" /\ work.at <= Len(work.ops) /\ StoreCall(Current)
      BY <2>1 DEF ApplyCall
    <3>2. work.ops \in Frames /\ work.at \in Nat \ {0}
      BY <3>1, WorkFields DEF DInv
    <3> PICK ops, at, o : ops = work.ops /\ at = work.at /\ o = Current
      OBVIOUS
    <3>3. o \in FrameOperations
      <4>1. at \in 1 .. Len(ops) /\ o = ops[at]
        BY <3>1, <3>2 DEF Frames, Current
      <4>2. o \in FrameOperations \cup {Garbage}
        BY <3>2, <4>1 DEF Frames
      <4>3. Garbage.kind = "garbage"
        BY DEF Garbage, Operation
      <4> QED BY <3>1, <4>2, <4>3 DEF StoreCall
    <3> QED BY <3>1, <3>3, StoreCalled DEF DInv
  <2>2. CASE StoreStep \/ ApplyFails \/ linklet_database_open \/ linklet_database_close \/ Crash
    BY <2>2 DEF StoreStep, ApplyFails, Fails, linklet_database_open, linklet_database_close, Crash,
       Store!Next
  <2>3. CASE UNCHANGED storeVars
    BY <2>3
  <2> QED BY <2>1, <2>2, <2>3 DEF Next, Continue, linklet_database_execute,
          linklet_transaction_execute, linklet_database_begin, linklet_transaction_abort,
          linklet_transaction_commit, WalResize, WalWrite, WalClear, ApplySkip, ApplyReturns, ApplyDone
<1> QED BY <1>1, <1>2, DatabaseInvariance, PTL DEF Spec, Store!Spec

\* ... so the graph under a database is the property graph: statements, commits, crashes
\* and replays never leave an edge without its nodes, or issue an ID twice.
THEOREM DatabaseImplementsPropertyGraph == Spec => Store!ImplementsPropertyGraph
<1>1. Store!Spec <=> StoreProofs!Spec
  <2>1. [Store!Next]_(Store!vars) <=> [StoreProofs!Next]_(StoreProofs!vars)
    BY SameNext DEF Store!vars, StoreProofs!vars
  <2> QED BY <2>1, SameInit, PTL DEF Store!Spec, StoreProofs!Spec
<1>2. StoreProofs!Spec => StoreProofs!ImplementsPropertyGraph
  BY StoreSizes, StoreProofs!Refinement
<1>3. Store!Abstract!Init <=> StoreProofs!Abstract!Init
  BY DEF
    Store!Edges, StoreProofs!Edges, Store!EdgeExists, StoreProofs!EdgeExists,
    Store!linklet_coo_edge_is_deleted, StoreProofs!linklet_coo_edge_is_deleted,
    Store!Tombstone, StoreProofs!Tombstone, StoreProofs!Ids, Store!Abstract!Init,
    StoreProofs!Abstract!Init, Store!Abstract!Ids, StoreProofs!Abstract!Ids
<1>4. [Store!Abstract!Next]_(Store!Abstract!graphVars) <=>
        [StoreProofs!Abstract!Next]_(StoreProofs!Abstract!graphVars)
  BY DEF
    Store!Edges, StoreProofs!Edges, Store!EdgeExists, StoreProofs!EdgeExists,
    Store!linklet_coo_edge_is_deleted, StoreProofs!linklet_coo_edge_is_deleted,
    Store!Tombstone, StoreProofs!Tombstone, StoreProofs!Ids, Store!Abstract!InsertNode,
    StoreProofs!Abstract!InsertNode, Store!Abstract!InsertEdge,
    StoreProofs!Abstract!InsertEdge, Store!Abstract!UpdateNode,
    StoreProofs!Abstract!UpdateNode, Store!Abstract!UpdateEdge,
    StoreProofs!Abstract!UpdateEdge, Store!Abstract!DeleteEdge,
    StoreProofs!Abstract!DeleteEdge, Store!Abstract!DeleteNode,
    StoreProofs!Abstract!DeleteNode, Store!Abstract!Incident, StoreProofs!Abstract!Incident,
    Store!Abstract!Ids, StoreProofs!Abstract!Ids, Store!Abstract!Next,
    StoreProofs!Abstract!Next, Store!Abstract!graphVars, StoreProofs!Abstract!graphVars
<1>5. Store!ImplementsPropertyGraph <=> StoreProofs!ImplementsPropertyGraph
  BY <1>3, <1>4, PTL
  DEF Store!ImplementsPropertyGraph, StoreProofs!ImplementsPropertyGraph, Store!Abstract!Spec,
      StoreProofs!Abstract!Spec
<1> QED BY <1>1, <1>2, <1>5, DatabaseUsesStore, PTL
================================================================================
