------------------------------- MODULE MCDatabase -------------------------------
(* Small instances of Database: two node and two edge IDs.  An element is stored   *)
(* with a name; SET assigns a bio, so that a merged document differs from both.    *)
EXTENDS Database

Named == [key \in {"name"} |-> 1]
Bio == [key \in {"bio"} |-> 1]
Documents_ == {Named, Bio, linklet_bson_merge(Named, Bio)}

AnyElement == [ids |-> 0 .. SIZE_MAX - 1, properties |-> <<>>]
Only(id) == [ids |-> {id}, properties |-> <<>>]
With(properties) == [ids |-> 0 .. SIZE_MAX - 1, properties |-> properties]

NodePattern(filter) == [is_edge_pattern |-> FALSE, source |-> filter]
EdgePattern(binding, direction, source) ==
  [is_edge_pattern |-> TRUE, binding |-> binding, direction |-> direction,
   source |-> source, edge |-> AnyElement, destination |-> AnyElement]

InsertNode == [code |-> "insert", element |-> "node", source |-> 0, destination |-> 0,
               payload |-> Named]
InsertEdge(s, t) == [code |-> "insert", element |-> "edge", source |-> s, destination |-> t,
                     payload |-> Named]
Update(pattern) == [code |-> "update", match |-> pattern, payload |-> Bio]
Delete(pattern, detach) == [code |-> "delete", match |-> pattern, detach |-> detach]

\* Nodes, an edge from node 0 to node 1, (n) DETACH DELETE n, (n) DELETE n,
\* (a)<-[e]-(b) DELETE e, SET on the sources, with a name, of edges and on edges.
MCCalls ==
  {InsertNode, InsertEdge(0, 1),
   Update(EdgePattern("source", "right", With(Named))),
   Update(EdgePattern("edge", "right", AnyElement)),
   Delete(NodePattern(Only(0)), TRUE), Delete(NodePattern(AnyElement), FALSE),
   Delete(EdgePattern("edge", "left", AnyElement), FALSE)}
=================================================================================
