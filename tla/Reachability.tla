------------------------------ MODULE Reachability ------------------------------
(* execution/operators.c: the bounded reachability operator behind                *)
(* MATCH (a {id: s})-[e]->{1,n}(b {id: t}) RETURN b, with the checks of           *)
(* execution/advisor.c and the scratch buffers of execute_reachability.           *)
(*                                                                                *)
(* One turn of the loop over the COO records is a step.  Inputs and connectivity  *)
(* are fixed when the call begins: the store has a single caller.  A frontier, a  *)
(* byte per vertex in the code, is the set of vertices whose byte is not zero;    *)
(* has_next_frontier says that next_frontier is not empty.  QueryProofs extends   *)
(* this module and Binder, so what both have is called search here.               *)
EXTENDS Naturals, Sequences

CONSTANTS
  MAX_VERTICES,   \* bound: vertex_id_capacity of the graphs
  MAX_EDGES,      \* bound: COO records of the graphs
  MAX_HOPS        \* bound: the upper bound of the quantifier

ASSUME BoundsAssumption == {MAX_VERTICES, MAX_EDGES, MAX_HOPS} \subseteq Nat

VARIABLES
  vertex_count,               \* coo->vertex_id_capacity
  edges,                      \* coo->edges, a record or Tombstone for each edge ID
  source_id, destination_id, max_hops, reverse,   \* the call
  hop, edge_index,            \* the loops
  frontier, next_frontier,
  pc,                         \* "advise", "scan" or "done"
  result                      \* the answer, or "error" when the advisor refuses

call == <<vertex_count, edges, source_id, destination_id, max_hops, reverse>>
search_vars == <<call, hop, edge_index, frontier, next_frontier, pc, result>>

Vertices == 0 .. vertex_count - 1
Tombstone == [source |-> MAX_VERTICES, destination |-> MAX_VERTICES]

\* Where the record leads from and to.
From(edge) == IF reverse THEN edge.destination ELSE edge.source
To(edge) == IF reverse THEN edge.source ELSE edge.destination

Return(value) ==
  /\ pc' = "done"
  /\ result' = value
  /\ UNCHANGED <<call, hop, edge_index, frontier, next_frontier>>

\* linklet_advise: the domain of the frontiers is the vertex ID domain.
\* Seeded bug: the first ID past the domain is let through.
OutsideDomain_OffByOne == vertex_count = 0 \/ source_id > vertex_count \/ destination_id > vertex_count
OutsideDomain == vertex_count = 0 \/ source_id >= vertex_count \/ destination_id >= vertex_count

Advise ==
  /\ pc = "advise"
  /\ OutsideDomain
  /\ Return("error")

Start ==
  /\ pc = "advise" /\ ~OutsideDomain
  /\ IF max_hops = 0
       THEN Return("false")
       ELSE /\ frontier' = {source_id}
            /\ next_frontier' = {}
            /\ hop' = 0
            /\ edge_index' = 1
            /\ pc' = "scan"
            /\ UNCHANGED <<call, result>>

\* Seeded bug: the edge is followed from a vertex reached in this hop, too.
Follows_NextFrontier(edge) == edge # Tombstone /\ From(edge) \in frontier \cup next_frontier
Follows(edge) == edge # Tombstone /\ From(edge) \in frontier

\* Seeded bug: a record that is not followed leaves the loop index where it is.
NextEdge_Stays == IF Follows(edges[edge_index]) THEN edge_index + 1 ELSE edge_index
NextEdge == edge_index + 1

ScanEdge ==
  /\ pc = "scan" /\ edge_index <= Len(edges)
  /\ next_frontier' = IF Follows(edges[edge_index])
                        THEN next_frontier \cup {To(edges[edge_index])}
                        ELSE next_frontier
  /\ edge_index' = NextEdge
  /\ UNCHANGED <<call, hop, frontier, pc, result>>

\* Seeded bugs: the vertices already reached are not cleared away for the next hop;
\* the loop ends one hop late; the source counts as reached.
NextFrontier_Kept == next_frontier
NextFrontier == {}
LastHop_Late == hop = max_hops
LastHop == hop + 1 = max_hops
Reached_AtSource == destination_id \in next_frontier \cup {source_id}
Reached == destination_id \in next_frontier

EndHop ==
  /\ pc = "scan" /\ edge_index > Len(edges)
  /\ IF Reached THEN Return("true")
     ELSE IF next_frontier = {} \/ LastHop THEN Return("false")
     ELSE /\ frontier' = next_frontier
          /\ next_frontier' = NextFrontier
          /\ hop' = hop + 1
          /\ edge_index' = 1
          /\ UNCHANGED <<call, pc, result>>

\* The records of live edges join vertices of the domain (ReferentialIntegrity of
\* GraphStore); the IDs of the call are whatever the statement says.
SearchInit ==
  /\ vertex_count \in 0 .. MAX_VERTICES
  /\ edges \in UNION {[1 .. n -> [source : Vertices, destination : Vertices] \cup {Tombstone}] :
                        n \in 0 .. MAX_EDGES}
  /\ source_id \in 0 .. MAX_VERTICES
  /\ destination_id \in 0 .. MAX_VERTICES
  /\ max_hops \in 0 .. MAX_HOPS
  /\ reverse \in BOOLEAN
  /\ hop = 0 /\ edge_index = 1
  /\ frontier = {} /\ next_frontier = {}
  /\ pc = "advise"
  /\ result = "none"

SearchNext == Advise \/ Start \/ ScanEdge \/ EndHop

SearchSpec == SearchInit /\ [][SearchNext]_search_vars

\* The call runs to its end.
FairSpec == SearchSpec /\ WF_search_vars(SearchNext)

-----------------------------------------------------------------------------
(* Properties *)

\* The types of the variables; the frontiers stay inside their buffers.
SearchTypeOK ==
  /\ vertex_count \in Nat /\ source_id \in Nat /\ destination_id \in Nat /\ max_hops \in Nat
  /\ edges \in Seq([source : Vertices, destination : Vertices] \cup {Tombstone})
  /\ reverse \in BOOLEAN
  /\ hop \in Nat /\ edge_index \in 1 .. Len(edges) + 1
  /\ frontier \subseteq Vertices /\ next_frontier \subseteq Vertices
  /\ pc \in {"advise", "scan", "done"}
  /\ result \in {"none", "true", "false", "error"}

\* A walk may pass a vertex or an edge more than once.
Step(u, v) ==
  \E i \in DOMAIN edges : edges[i] # Tombstone /\ From(edges[i]) = u /\ To(edges[i]) = v
IsWalk(w, length, v) ==
  /\ w[0] = source_id /\ w[length] = v
  /\ \A i \in 0 .. length - 1 : Step(w[i], w[i + 1])
WalkEnds(length) ==
  {v \in Vertices : \E w \in [0 .. length -> Vertices] : IsWalk(w, length, v)}

\* The answer is true exactly when a walk of 1 to max_hops edges leads from the
\* source to the destination.
AnswersReachability ==
  pc = "done" =>
    /\ result = "true" => \E k \in 1 .. max_hops : destination_id \in WalkEnds(k)
    /\ result = "false" => \A k \in 1 .. max_hops : destination_id \notin WalkEnds(k)
    /\ result # "none"

\* After hop hops the frontier holds the ends of the walks of exactly that length:
\* nothing of an earlier hop is left in the swapped buffers.
FrontierIsWalkEnds ==
  pc = "scan" => /\ frontier = WalkEnds(hop)
                 /\ hop < max_hops

\* The search ends also where walks can go round a cycle for ever.
SearchEnds == <>(pc = "done")
=================================================================================
