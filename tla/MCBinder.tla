--------------------------------- MODULE MCBinder ---------------------------------
(* Small instances of Binder: the elements and clauses below, in every combination,  *)
(* and a graph with a self-loop, parallel edges and a deleted node and edge.         *)
EXTENDS Binder

String(value) == Literal("string", value)
Integer(value) == Literal("integer", value)
Property(key, value) == [key |-> key, value |-> value]

MCNodes ==
  (0 :> [_labels |-> Literal("label", "P"), name |-> String(1)]) @@
  (1 :> [_labels |-> Literal("label", "P"), name |-> String(2), age |-> Literal("int32", 3)]) @@
  (2 :> [_labels |-> Literal("label", "Q"), name |-> String(1)]) @@
  (3 :> Absent)
MCEdges ==
  (0 :> [_labels |-> Literal("label", "K")]) @@
  (1 :> [_labels |-> Literal("label", "K"), name |-> String(1)]) @@
  (2 :> [_labels |-> Literal("label", "K")]) @@
  (3 :> [name |-> String(1)]) @@
  (4 :> Absent)
MCCoo ==
  [e \in 0 .. 4 |-> CASE e = 1 -> [source |-> 1, destination |-> 2]
                      [] e = 2 -> [source |-> 2, destination |-> 2]
                      [] OTHER -> [source |-> 0, destination |-> 1]]

\* (name)
Node(name) ==
  [kind |-> "node", direction |-> "none", filler |-> TRUE, name |-> name, labels |-> <<>>,
   simple_labels |-> TRUE, properties |-> <<>>, where |-> FALSE, quantifier |-> <<>>]
Edge(direction, name) == [Node(name) EXCEPT !.kind = "edge", !.direction = direction]
Labelled(element, labels) == [element EXCEPT !.labels = labels]
With(element, properties) == [element EXCEPT !.properties = properties]
Quantified(element, bounds) == [element EXCEPT !.quantifier = bounds]
Where(element) == [element EXCEPT !.where = TRUE]
NoFiller(element) == [element EXCEPT !.filler = FALSE]
NotSimple(element) == [element EXCEPT !.labels = <<"P", "Q">>, !.simple_labels = FALSE]
WithId(name, id) == With(Node(name), <<Property("id", Integer(id))>>)

NodeElements ==
  {Node("a"), Node("b"), Labelled(Node("a"), <<"P">>), WithId("a", 0), WithId("b", 2),
   WithId("a", 3), With(Node("b"), <<Property("_id", Integer(1))>>),
   With(Labelled(Node("b"), <<"Q">>), <<Property("name", String(1))>>),
   With(Node("a"), <<Property("age", Integer(3)), Property("name", String(2))>>),
   Node(NoName), Where(Node("a"))}

OddElements ==
  {NoFiller(Node(NoName)), Labelled(Node("a"), <<"P", "Q">>), NotSimple(Node("a")),
   With(Node("a"), <<Property("id", Integer(0)), Property("_id", Integer(1))>>),
   With(Node("a"), <<Property("name", String(1)), Property("name", String(2))>>),
   With(Node("a"), <<Property("id", String(1))>>),
   With(Node("a"), <<Property("age", Literal("expression", 0))>>),
   With(Node("a"), <<Property("age", Literal("boolean", UNKNOWN))>>),
   With(Node("a"), <<Property("age", Integer(INT32_MAX + 1))>>),
   With(Node("a"), <<Property("age", Integer(INT64_MAX + 1))>>),
   Quantified(Node("a"), <<1, 2>>)}

EdgeElements ==
  {Edge(direction, "e") : direction \in {"right", "left", "undirected"}} \cup
  {Labelled(Edge("right", "e"), <<"K">>), Edge("left", "a"), NoFiller(Edge("right", NoName)),
   With(Edge("left", "e"), <<Property("name", String(1))>>)} \cup
  {Quantified(Edge("left", "e"), bounds) : bounds \in {<<1, 2>>, <<1, 0>>, <<2, 3>>, <<1>>}} \cup
  {Quantified(Labelled(Edge("right", "e"), <<"K">>), <<1, 2>>)}

Paths ==
  {<<n>> : n \in NodeElements \cup OddElements} \cup
  (NodeElements \X EdgeElements \X NodeElements) \cup
  {<<WithId("a", 0), Quantified(Edge("right", "e"), <<1, 2>>), Edge("right", "f")>>,
   <<Node("a"), Edge("right", "e"), Node("b"), Edge("right", "f"), Node("c")>>}

-----------------------------------------------------------------------------
Match(paths, where) == [kind |-> "match", paths |-> paths, where |-> where]
Insert(paths) == [kind |-> "insert", paths |-> paths]
Return(targets) == [kind |-> "return", targets |-> targets]
Delete(targets, detach) == [kind |-> "delete", targets |-> targets, detach |-> detach]
Set(items) == [kind |-> "set", items |-> items]
Item(target, key, value) ==
  [kind |-> "property", target |-> target, key |-> key, value |-> value]
Other == [kind |-> "other"]

Tails ==
  {<<>>, <<Return(<<"a">>)>>, <<Return(<<"b">>)>>, <<Return(<<"e">>)>>, <<Return(<<NoName>>)>>,
   <<Return(<<"a", "b">>)>>, <<Other, Return(<<"a">>)>>,
   <<Delete(<<"a">>, FALSE)>>, <<Delete(<<"e">>, FALSE)>>, <<Delete(<<"e">>, TRUE)>>,
   <<Delete(<<"b">>, TRUE)>>, <<Other, Delete(<<"a">>, TRUE)>>, <<Delete(<<"a", "b">>, TRUE)>>,
   <<Set(<<Item("a", "name", String(3))>>), Return(<<"a">>)>>,
   <<Set(<<Item("e", "name", String(3)), Item("e", "age", Integer(INT32_MAX + 1))>>)>>,
   <<Set(<<Item("a", "name", String(3)), Item("b", "age", Integer(1))>>)>>,
   <<Set(<<Item("a", "name", String(3)), Item("a", "name", Integer(1))>>)>>,
   <<Set(<<Item("a", "_labels", String(3))>>)>>,
   <<Set(<<[Item("a", "name", String(3)) EXCEPT !.kind = "label"]>>)>>,
   <<Set(<<Item("a", "name", Literal("boolean", UNKNOWN))>>), Delete(<<"b">>, TRUE)>>}

Matching ==
  {<<Match(<<path>>, FALSE)>> \o tail : path \in Paths, tail \in Tails} \cup
  {<<Match(<<<<Node("a")>>>>, TRUE), Return(<<"a">>)>>,
   <<Match(<<<<Node("a")>>, <<Node("b")>>>>, FALSE), Return(<<"a">>)>>,
   <<Match(<<<<>>>>, FALSE), Return(<<"a">>)>>,
   <<Match(<<<<Node("a")>>>>, FALSE), Match(<<<<Node("b")>>>>, FALSE), Return(<<"a">>)>>}

InsertedElements(kind) ==
  {[element EXCEPT !.kind = kind] :
     element \in OddElements \cup
       {Node(NoName), Labelled(Node("a"), <<"P">>), WithId("a", 0),
        With(Node("a"), <<Property("_labels", String(1))>>),
        With(Labelled(Node("a"), <<"P", "Q">>),
             <<Property("name", String(1)), Property("age", Integer(INT32_MAX))>>)}}

InsertingNodes ==
  {<<Insert(<<<<element>>>>)>> : element \in InsertedElements("node")} \cup
  {<<Insert(<<<<Node("a")>>, <<Node("b")>>>>)>>,
   <<Insert(<<<<Node("a"), Edge("right", "e"), Node("b")>>>>)>>}

InsertingEdges ==
  {<<Match(match, FALSE), Insert(<<<<left, [edge EXCEPT !.direction = direction], right>>>>)>> :
     match \in {<<<<WithId("a", 0)>>, <<WithId("b", 2)>>>>,
                <<<<With(Node("b"), <<Property("_id", Integer(1))>>)>>, <<WithId("a", 2)>>>>,
                <<<<WithId("a", 0)>>, <<WithId("a", 2)>>>>,
                <<<<WithId("a", 0)>>, <<Node("b")>>>>,
                <<<<WithId("a", 0)>>>>},
     left \in {Node("a"), Node("b"), Node("c"), WithId("a", 0)},
     right \in {Node("a"), Node("b"), Node(NoName)},
     edge \in InsertedElements("edge"), direction \in {"right", "left", "undirected"}}

MCStatements ==
  Matching \cup InsertingNodes \cup InsertingEdges \cup
  {<<Other>>, <<Other, Return(<<"a">>)>>, <<Set(<<Item("a", "name", String(1))>>)>>}
====================================================================================
