----------------------------- MODULE PropertyGraph -----------------------------
(* What the graph store promises the query executor: a directed multigraph whose *)
(* nodes and edges carry a document.  Edges never dangle, IDs are issued in      *)
(* ascending order and never again, the endpoints of an edge never change, and   *)
(* a node is removed only after every incident edge.  DETACH DELETE removes the  *)
(* incident edges one by one, so a crash may leave some of them removed.         *)
(* GraphStore implements this specification.                                     *)
EXTENDS Naturals

CONSTANTS Documents,  \* the documents of nodes and edges
          Absent,     \* no node, or no edge, under an ID
          SIZE_MAX    \* node and edge IDs range over 0 .. SIZE_MAX - 1

VARIABLES graph_nodes,   \* graph_nodes[n]: the document of node n, or Absent
          graph_edges,   \* graph_edges[e]: endpoints and document, or Absent
          issued_nodes,  \* node IDs issued so far
          issued_edges   \* edge IDs issued so far

graphVars == <<graph_nodes, graph_edges, issued_nodes, issued_edges>>

Ids == 0 .. SIZE_MAX - 1
Incident(n) ==
  {e \in Ids : /\ graph_edges[e] # Absent
               /\ n \in {graph_edges[e].source, graph_edges[e].destination}}

Init ==
  /\ graph_nodes = [n \in Ids |-> Absent]
  /\ graph_edges = [e \in Ids |-> Absent]
  /\ issued_nodes = 0
  /\ issued_edges = 0

InsertNode(d) ==
  /\ issued_nodes < SIZE_MAX
  /\ graph_nodes' = [graph_nodes EXCEPT ![issued_nodes] = d]
  /\ issued_nodes' = issued_nodes + 1
  /\ UNCHANGED <<graph_edges, issued_edges>>

InsertEdge(s, t, d) ==
  /\ issued_edges < SIZE_MAX
  /\ graph_nodes[s] # Absent /\ graph_nodes[t] # Absent
  /\ graph_edges' = [graph_edges EXCEPT ![issued_edges] =
                       [source |-> s, destination |-> t, doc |-> d]]
  /\ issued_edges' = issued_edges + 1
  /\ UNCHANGED <<graph_nodes, issued_nodes>>

UpdateNode(n, d) ==
  /\ graph_nodes[n] # Absent
  /\ graph_nodes' = [graph_nodes EXCEPT ![n] = d]
  /\ UNCHANGED <<graph_edges, issued_nodes, issued_edges>>

UpdateEdge(e, d) ==
  /\ graph_edges[e] # Absent
  /\ graph_edges' = [graph_edges EXCEPT ![e].doc = d]
  /\ UNCHANGED <<graph_nodes, issued_nodes, issued_edges>>

DeleteEdge(e) ==
  /\ graph_edges[e] # Absent
  /\ graph_edges' = [graph_edges EXCEPT ![e] = Absent]
  /\ UNCHANGED <<graph_nodes, issued_nodes, issued_edges>>

DeleteNode(n) ==
  /\ graph_nodes[n] # Absent
  /\ Incident(n) = {}
  /\ graph_nodes' = [graph_nodes EXCEPT ![n] = Absent]
  /\ UNCHANGED <<graph_edges, issued_nodes, issued_edges>>

Next ==
  \/ \E d \in Documents : InsertNode(d)
  \/ \E s, t \in Ids, d \in Documents : InsertEdge(s, t, d)
  \/ \E n \in Ids, d \in Documents : UpdateNode(n, d)
  \/ \E e \in Ids, d \in Documents : UpdateEdge(e, d)
  \/ \E e \in Ids : DeleteEdge(e)
  \/ \E n \in Ids : DeleteNode(n)

Spec == Init /\ [][Next]_graphVars
=================================================================================
