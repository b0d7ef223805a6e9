---------------------------------- MODULE Binder ----------------------------------
(* planner/binder.c and planner/bson_ast.c: linklet_bind turns the AST of a statement *)
(* into one call of the execution engine, or rejects it.                              *)
(*                                                                                    *)
(* A statement is the sequence of its clauses.  A clause is a record with its kind:   *)
(*   "match"  paths, where (its graph pattern has one)      "insert"  paths           *)
(*   "set"    items: kind, target, key, value               "delete"  targets, detach *)
(*   "return" targets                                       "other"   any other kind  *)
(* A path is a sequence of elements: kind, direction, filler (it has one), name,      *)
(* labels, simple_labels, properties, where, quantifier.  A target is the name of a   *)
(* binding, or NoName when it is another expression.                                  *)
EXTENDS Match, Integers, FiniteSets, Functions

CONSTANTS
  Statements,     \* the statements that are bound
  NoName,
  Unbound, Rejected,
  INT32_MAX, INT64_MAX,
  Nodes, Edges,   \* a graph to run calls on: documents by ID,
  Coo             \* and the endpoints of its edges

Literals == [kind : STRING, value : Int]
Names == STRING \cup {NoName}
Elements ==
  [kind : {"node", "edge"}, direction : STRING, filler : BOOLEAN, name : Names,
   labels : Seq(STRING), simple_labels : BOOLEAN,
   properties : Seq([key : STRING, value : Literals]), where : BOOLEAN, quantifier : Seq(Nat)]
Items == [kind : STRING, target : Names, key : STRING, value : Literals]

\* What the parser makes of a statement, ...
ASSUME StatementsAssumption ==
  \A s \in Statements :
    /\ s \in Seq(Range(s))
    /\ \A clause \in Range(s) :
         /\ clause.kind \in {"match", "insert"} => clause.paths \in Seq(Seq(Elements))
         /\ clause.kind = "set" => clause.items \in Seq(Items)
         /\ clause.kind \in {"return", "delete"} => clause.targets \in Seq(Names)
\* ... and a graph whose edges have endpoints.
ASSUME GraphAssumption ==
  /\ DOMAIN Nodes \in SUBSET Nat /\ IsFiniteSet(DOMAIN Nodes)
  /\ DOMAIN Edges \in SUBSET Nat /\ IsFiniteSet(DOMAIN Edges)
  /\ \A e \in DOMAIN Edges : Coo[e] \in [source : Nat, destination : Nat]

VARIABLES statement, plan

vars == <<statement, plan>>

-----------------------------------------------------------------------------
(* Literals: a kind, and a value that says which literal of the kind it is. *)

\* Values are numbers; a boolean is FALSE, TRUE or unknown.
UNKNOWN == 2
Literal(kind, value) == [kind |-> kind, value |-> value]

\* linklet_bson_append_gql_literal.
Encodable(literal) ==
  \/ literal.kind \in {"float", "string", "boolean", "null"}
  \/ literal.kind = "integer" /\ literal.value <= INT64_MAX

Encoded(literal) ==
  CASE literal.kind = "integer" ->
         Literal(IF literal.value <= INT32_MAX THEN "int32" ELSE "int64", literal.value)
    [] literal.kind = "boolean" /\ literal.value = UNKNOWN -> Literal("null", 0)
    [] OTHER -> literal

-----------------------------------------------------------------------------
(* Elements *)

IdKeys == {"id", "_id"}

PropertyKeys(element) == [i \in DOMAIN element.properties |-> element.properties[i].key]

\* At most one ID predicate, an integer; every other key once, with a literal.
PropertiesReadable(element) ==
  /\ \A i \in DOMAIN element.properties :
       LET property == element.properties[i]
       IN  IF property.key \in IdKeys THEN property.value.kind = "integer"
           ELSE Encodable(property.value)
  /\ \A i, j \in DOMAIN element.properties :
       i # j => /\ PropertyKeys(element)[i] # PropertyKeys(element)[j]
                /\ ~({PropertyKeys(element)[i], PropertyKeys(element)[j]} \subseteq IdKeys)

\* What read_filter accepts.
FilterReadable(element) ==
  /\ element.filler /\ element.name # NoName
  /\ element.simple_labels /\ Len(element.labels) <= 1
  /\ PropertiesReadable(element)

\* The filter read_filter builds, in the form of Match: a label is the value of the key
\* "_labels".
Filter(element) ==
  LET ids == {p.value.value : p \in {p \in Range(element.properties) : p.key \in IdKeys}}
      compared == {p \in Range(element.properties) : p.key \notin IdKeys}
      labelled == {"_labels" : label \in Range(element.labels)}
  IN  [ids |-> IF ids # {} THEN ids ELSE DOMAIN Nodes \cup DOMAIN Edges,
       properties |->
         [key \in labelled \cup {p.key : p \in compared} |->
            IF key = "_labels" THEN Literal("label", Head(element.labels))
            ELSE Encoded((CHOOSE p \in compared : p.key = key).value)]]

\* linklet_encode_element_bson: ID and label keys cannot be given as properties.
\* Seeded bug: they can.
ElementEncodable_AnyKey(element) ==
  /\ element.filler /\ element.simple_labels
  /\ \A property \in Range(element.properties) : Encodable(property.value)
ElementEncodable(element) ==
  /\ element.filler /\ element.simple_labels
  /\ \A property \in Range(element.properties) :
       property.key \notin IdKeys \cup {"_labels"} /\ Encodable(property.value)

\* Of a key that is given twice, readers find the first.
EncodedElement(element) ==
  [key \in {"_labels"} \cup Range(PropertyKeys(element)) |->
     IF key = "_labels" THEN element.labels
     ELSE Encoded(element.properties[SelectInSeq(PropertyKeys(element), LAMBDA k : k = key)].value)]

-----------------------------------------------------------------------------
(* Clauses *)

Has(kind) == \E clause \in Range(statement) : clause.kind = kind

\* direct_child(statement, kind): later clauses of the kind are not looked at.
First(kind) == statement[SelectInSeq(statement, LAMBDA clause : clause.kind = kind)]

Directed(element) == element.kind = "edge" /\ element.direction \in {"right", "left"}

\* find_match_path: the elements of the only path of the MATCH; <<>> when it has more,
\* or a WHERE.
MatchPath ==
  IF Len(First("match").paths) = 1 /\ ~First("match").where THEN First("match").paths[1] ELSE <<>>

\* bind_match_filters.
PatternReadable(path) ==
  /\ Len(path) \in {1, 3}
  /\ path[1].kind = "node"
  /\ \A i \in DOMAIN path : FilterReadable(path[i])
  /\ Len(path) = 3 => Directed(path[2]) /\ path[3].kind = "node"

\* select_result: the binding of the pattern that a name refers to, the first if several
\* elements have it.
Binding(path, target) ==
  LET position == SelectInSeq(path, LAMBDA element : element.name = target)
  IN  <<"source", "edge", "destination">>[position]

\* The pattern whose result is bound to target.
NodePattern(path) ==
  [is_edge_pattern |-> FALSE, source |-> Filter(path[1]), binding |-> "source"]

\* Seeded bug: the direction is not kept.
EdgePattern_Rightwards(path, target) ==
  [is_edge_pattern |-> TRUE, source |-> Filter(path[1]), edge |-> Filter(path[2]),
   destination |-> Filter(path[3]), direction |-> "right", binding |-> Binding(path, target)]
EdgePattern(path, target) ==
  [is_edge_pattern |-> TRUE, source |-> Filter(path[1]), edge |-> Filter(path[2]),
   destination |-> Filter(path[3]), direction |-> path[2].direction,
   binding |-> Binding(path, target)]

Pattern(path, target) ==
  IF Len(path) = 1 THEN NodePattern(path) ELSE EdgePattern(path, target)

\* A single target that MATCH binds.
TargetBound(targets, path) ==
  /\ Len(targets) = 1 /\ targets[1] # NoName
  /\ \E element \in Range(path) : element.name = targets[1]
-----------------------------------------------------------------------------
(* Binding *)

\* read_named_node_with_id: (name {id: n}) and nothing else.
NamedNodeWithId(element) ==
  /\ element.filler /\ element.name # NoName /\ element.labels = <<>> /\ ~element.where
  /\ PropertyKeys(element) = <<"id">> /\ element.properties[1].value.kind = "integer"

IdOf(element) == element.properties[1].value.value

\* read_bounded_edge: -[name]->{1,max}.
BoundedEdge(element) ==
  /\ element.filler /\ element.name # NoName
  /\ element.labels = <<>> /\ element.properties = <<>> /\ ~element.where
  /\ Len(element.quantifier) = 2
  /\ element.quantifier[1] = 1 /\ element.quantifier[2] # 0

IsQuantified(path) == Len(path) = 3 /\ path[2].kind = "edge" /\ path[2].quantifier # <<>>

\* RETURN of one binding.
Returned == IF Has("return") THEN First("return").targets ELSE <<>>
ReturnsBinding == Len(Returned) = 1 /\ Returned[1] # NoName

bind_reachability(path) ==
  IF /\ ReturnsBinding /\ Directed(path[2])
     /\ NamedNodeWithId(path[1]) /\ BoundedEdge(path[2]) /\ NamedNodeWithId(path[3])
     /\ Returned[1] = path[3].name
  THEN [code |-> "reachability", direction |-> path[2].direction, source_id |-> IdOf(path[1]),
        destination_id |-> IdOf(path[3]), max_hops |-> path[2].quantifier[2]]
  ELSE Rejected

bind_match ==
  IF MatchPath # <<>> /\ MatchPath[1].kind = "node" /\ IsQuantified(MatchPath)
    THEN bind_reachability(MatchPath)
  ELSE IF PatternReadable(MatchPath) /\ ReturnsBinding /\ TargetBound(Returned, MatchPath)
    THEN [code |-> "match", pattern |-> Pattern(MatchPath, Returned[1])]
  ELSE Rejected

bind_insert_node(insert) ==
  IF /\ Len(insert.paths) = 1 /\ Len(insert.paths[1]) = 1
     /\ ElementEncodable(insert.paths[1][1])
  THEN [code |-> "insert_node", payload |-> EncodedElement(insert.paths[1][1])]
  ELSE Rejected

\* read_match_binding: (name {id: n}) or (name {_id: n}), and nothing else.
MatchBinding(path) ==
  /\ Len(path) = 1 /\ path[1].kind = "node"
  /\ path[1].filler /\ path[1].name # NoName /\ path[1].labels = <<>> /\ ~path[1].where
  /\ Len(path[1].properties) = 1
  /\ path[1].properties[1].key \in IdKeys /\ path[1].properties[1].value.kind = "integer"

\* An endpoint (name).
EndpointReference(element) ==
  /\ element.filler /\ element.name # NoName
  /\ element.labels = <<>> /\ element.properties = <<>> /\ ~element.where

\* Seeded bug: source and destination are those of an edge to the right.
Endpoints_Rightwards(direction, left, right) == [source |-> left, destination |-> right]
Endpoints(direction, left, right) ==
  IF direction = "right" THEN [source |-> left, destination |-> right]
  ELSE [source |-> right, destination |-> left]

Bound(match, name) == \E path \in Range(match.paths) : path[1].name = name

\* resolve_binding: the ID that MATCH gives a name.
resolve_binding(match, name) ==
  IdOf(match.paths[SelectInSeq(match.paths, LAMBDA path : path[1].name = name)][1])

EdgeInsertable(match, insert) ==
  LET path == insert.paths[1]
  IN  /\ Len(match.paths) = 2 /\ ~match.where
      /\ \A i \in 1 .. 2 : MatchBinding(match.paths[i])
      /\ match.paths[1][1].name # match.paths[2][1].name
      /\ Len(insert.paths) = 1 /\ Len(path) = 3
      /\ EndpointReference(path[1]) /\ EndpointReference(path[3])
      /\ Directed(path[2])
      /\ Bound(match, path[1].name) /\ Bound(match, path[3].name)
      /\ ElementEncodable(path[2])

bind_insert_edge(match, insert) ==
  LET path == insert.paths[1]
  IN  IF EdgeInsertable(match, insert)
      THEN [code |-> "insert_edge", payload |-> EncodedElement(path[2]),
            endpoints |-> Endpoints(path[2].direction, resolve_binding(match, path[1].name),
                                    resolve_binding(match, path[3].name))]
      ELSE Rejected

\* The assignments of a SET: properties of one target, each once, with a literal.
AssignedKeys(set) == [i \in DOMAIN set.items |-> set.items[i].key]
Assignable(set) ==
  /\ set.items # <<>>
  /\ \A item \in Range(set.items) :
       /\ item.kind = "property" /\ item.target = set.items[1].target
       /\ item.key \notin IdKeys \cup {"_labels"}
       /\ Encodable(item.value)
  /\ IsInjective(AssignedKeys(set))

AssignedValues(set) ==
  [key \in Range(AssignedKeys(set)) |->
     Encoded(set.items[SelectInSeq(AssignedKeys(set), LAMBDA k : k = key)].value)]

bind_update(set) ==
  LET target == set.items[1].target
  IN  IF PatternReadable(MatchPath) /\ Assignable(set) /\ TargetBound(<<target>>, MatchPath)
      THEN [code |-> "update", pattern |-> Pattern(MatchPath, target),
            payload |-> AssignedValues(set)]
      ELSE Rejected

bind_delete(delete) ==
  IF /\ PatternReadable(MatchPath)
     /\ TargetBound(delete.targets, MatchPath)
     /\ delete.detach => ResultKind(Pattern(MatchPath, delete.targets[1])) = "node"
  THEN [code |-> "delete", pattern |-> Pattern(MatchPath, delete.targets[1]),
        detach |-> delete.detach]
  ELSE Rejected

\* The first form that the clauses present allow.
linklet_bind ==
  IF Has("insert") /\ ~Has("match") THEN bind_insert_node(First("insert"))
  ELSE IF Has("insert") THEN bind_insert_edge(First("match"), First("insert"))
  ELSE IF ~Has("match") THEN Rejected
  ELSE IF Has("set") THEN bind_update(First("set"))
  ELSE IF Has("delete") THEN bind_delete(First("delete"))
  ELSE bind_match

-----------------------------------------------------------------------------
Init ==
  /\ statement \in Statements
  /\ plan = Unbound

Bind ==
  /\ plan = Unbound
  /\ plan' = linklet_bind
  /\ UNCHANGED statement

Next == Bind

Spec == Init /\ [][Next]_vars

IsCall == plan \notin {Unbound, Rejected}

-----------------------------------------------------------------------------
(* What a statement says, without the forms the binder knows. *)

Path == First("match").paths[1]
Position(path, name) == SelectInSeq(path, LAMBDA element : element.name = name)

\* The element describes an object with this ID and this content.
Describes(element, id, doc) ==
  /\ \A label \in Range(element.labels) :
       "_labels" \in DOMAIN doc /\ doc["_labels"] = Literal("label", label)
  /\ \A property \in Range(element.properties) :
       IF property.key \in IdKeys THEN id = property.value.value
       ELSE property.key \in DOMAIN doc /\ doc[property.key] = Encoded(property.value)

\* An edge with these endpoints lies between the nodes as the arrow points.
Joins(direction, left, endpoints, right) ==
  [source |-> left, destination |-> right] =
    IF direction = "right" THEN endpoints
    ELSE [source |-> endpoints.destination, destination |-> endpoints.source]

\* Every way to bind the elements of a path, as sequences of IDs.
Described(element, objects) ==
  {id \in DOMAIN objects : objects[id] # Absent /\ Describes(element, id, objects[id])}
Assignments(path) ==
  IF Len(path) = 1 THEN {<<n>> : n \in Described(path[1], Nodes)}
  ELSE {a \in Described(path[1], Nodes) \X Described(path[2], Edges) \X Described(path[3], Nodes) :
          Joins(path[2].direction, a[1], Coo[a[2]], a[3])}

\* The binder leaves clauses, conditions and quantifiers it does not know aside, and a
\* name used twice is no constraint: a statement without any of these.
InFull ==
  /\ \A i, j \in DOMAIN statement : statement[i].kind = statement[j].kind => i = j
  /\ ~Has("other")
  /\ Cardinality({kind \in {"insert", "set", "delete"} : Has(kind)}) <= 1
  /\ Has("match") => \A path \in Range(First("match").paths) :
       /\ \A element \in Range(path) : ~element.where /\ element.quantifier = <<>>
       /\ \A i, j \in DOMAIN path : path[i].name = path[j].name => i = j
       /\ \A element \in Range(path) : "_labels" \notin Range(PropertyKeys(element))

\* The binding whose elements the statement returns or changes.
TargetName ==
  IF Has("set") THEN First("set").items[1].target
  ELSE IF Has("delete") THEN First("delete").targets[1]
  ELSE Returned[1]

\* The ID that the only path of the MATCH with this name gives.
IdFor(name) ==
  LET named == CHOOSE path \in Range(First("match").paths) : path[1].name = name
  IN  named[1].properties[1].value.value

-----------------------------------------------------------------------------
(* Properties *)

\* Calls are of a form the executor takes: documents to store have no key of the element's
\* metadata but the labels, a reachability search has a hop, DETACH applies to nodes.
\* Documents are encoded: integers fit their width, and a boolean has a value.
TypeOK ==
  IsCall =>
    /\ plan.code \in {"insert_node", "insert_edge"} =>
         "_labels" \in DOMAIN plan.payload /\ plan.payload["_labels"] \in Seq(STRING)
    /\ plan.code \in {"insert_node", "insert_edge", "update"} =>
         \A key \in DOMAIN plan.payload \ {"_labels"} :
           /\ key \notin IdKeys
           /\ plan.payload[key].kind = "int32" => plan.payload[key].value <= INT32_MAX
           /\ plan.payload[key] # Literal("boolean", UNKNOWN)
    /\ plan.code = "update" => "_labels" \notin DOMAIN plan.payload
    /\ plan.code = "reachability" => plan.max_hops >= 1
    /\ plan.code = "delete" /\ plan.detach => ResultKind(plan.pattern) = "node"

\* A MATCH, SET or DELETE call selects an element exactly as often as there are ways to
\* bind the path in which the named binding is that element: an element that satisfies the
\* path is never missed, no other is returned, changed or deleted.
MatchMeansPattern ==
  IsCall /\ InFull /\ plan.code \in {"match", "update", "delete"} =>
    LET selected == linklet_resolve_match(Nodes, Edges, Coo, plan.pattern)
        position == Position(Path, TargetName)
    IN  /\ ResultKind(plan.pattern) = Path[position].kind
        /\ \A id \in DOMAIN Nodes \cup DOMAIN Edges :
             Cardinality({i \in DOMAIN selected : selected[i] = id})
               = Cardinality({a \in Assignments(Path) : a[position] = id})

\* An inserted element is what its INSERT describes: with the labels and properties
\* written there, and, for an edge, from the node that MATCH binds at the tail of the arrow
\* to the one at its head.
InsertMeansPattern ==
  IsCall /\ InFull /\ plan.code \in {"insert_node", "insert_edge"} =>
    LET path == First("insert").paths[1]
        element == path[(Len(path) + 1) \div 2]
    IN  /\ plan.payload["_labels"] = element.labels
        /\ IsInjective(PropertyKeys(element)) =>
             Describes([element EXCEPT !.labels = <<>>], Absent, plan.payload)
        /\ plan.code = "insert_edge" =>
             Joins(path[2].direction, IdFor(path[1].name), plan.endpoints, IdFor(path[3].name))
====================================================================================
