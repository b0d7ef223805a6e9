--------------------------------- MODULE Match ---------------------------------
(* execution/executor.c: which elements a MATCH pattern selects.                  *)
(*                                                                                *)
(* A document is a function from keys to values; a label is the value of a key    *)
(* like any other.  A filter is a record: ids, the IDs it admits (one of them     *)
(* when has_id is set, else all), and properties, the keys it compares.           *)
EXTENDS Naturals, SequencesExt

CONSTANT Absent   \* the content of an ID that holds no object

matches_properties(doc, properties) ==
  \A key \in DOMAIN properties : key \in DOMAIN doc /\ doc[key] = properties[key]

Selected(objects, filter) ==
  {id \in DOMAIN objects \cap filter.ids :
     objects[id] # Absent /\ matches_properties(objects[id], filter.properties)}

\* The IDs of a set in ascending order: the order of the scan.
Ascending(ids) ==
  [i \in 1 .. Cardinality(ids) |->
     CHOOSE id \in ids : Cardinality({other \in ids : other < id}) = i - 1]
scan_elements(objects, filter) == Ascending(Selected(objects, filter))

\* coo[e] holds the endpoints of edge e.  A pattern that returns an endpoint lists
\* a node once for each edge it matches.
linklet_resolve_match(nodes, edges, coo, pattern) ==
  IF ~pattern.is_edge_pattern
    THEN scan_elements(nodes, pattern.source)
    ELSE LET source(e) == IF pattern.direction = "right"
                            THEN coo[e].source ELSE coo[e].destination
             destination(e) == IF pattern.direction = "right"
                                 THEN coo[e].destination ELSE coo[e].source
             matched == {e \in Selected(edges, pattern.edge) :
                           /\ source(e) \in Selected(nodes, pattern.source)
                           /\ destination(e) \in Selected(nodes, pattern.destination)}
             value(e) == CASE pattern.binding = "source" -> source(e)
                           [] pattern.binding = "edge" -> e
                           [] pattern.binding = "destination" -> destination(e)
             order == Ascending(matched)
         IN [i \in DOMAIN order |-> value(order[i])]

\* result_kind, as select_result of the binder sets it.
ResultKind(pattern) ==
  IF pattern.is_edge_pattern /\ pattern.binding = "edge" THEN "edge" ELSE "node"
=================================================================================
