-------------------------------- MODULE MCCatalog --------------------------------
(* Small instances of Catalog: labels and names of one and of three characters, one  *)
(* label that is not UTF-8.                                                          *)
EXTENDS Catalog, TLC

CONSTANTS City, User, KNOWS, Latin1, g, social

MCLength == (City :> 3) @@ (User :> 1) @@ (KNOWS :> 2) @@ (Latin1 :> 1) @@ (g :> 1)
            @@ (social :> 3) @@ (Damaged :> 1)

\* (alias), (:labels) and NODE text
NodeType(text, alias, labels) ==
  [is_node |-> TRUE, text |-> text, alias |-> alias, source |-> <<>>, labels |-> labels,
   destination |-> <<>>]
\* EDGE text (:source)-[:labels]->(:destination)
EdgeType(text, source, labels, destination) ==
  [is_node |-> FALSE, text |-> text, alias |-> NoName, source |-> source, labels |-> labels,
   destination |-> destination]

GraphType(elements) == [kind |-> "create_graph_type", name |-> g, nested |-> <<elements>>]
GraphTypeCopy == [kind |-> "create_graph_type", name |-> g, nested |-> <<>>]
Graph(name, nested) == [kind |-> "create_graph", name |-> name, nested |-> nested]
Drop == [kind |-> "drop", name |-> g, nested |-> <<>>]

MCPrograms ==
  {<<GraphType(<<NodeType(NoName, City, <<>>), NodeType(User, NoName, <<>>)>>)>>,
   <<GraphType(<<NodeType(NoName, NoName, <<User, City, User>>), EdgeType(KNOWS, <<>>, <<>>, <<>>)>>)>>,
   <<GraphType(<<EdgeType(NoName, <<City>>, <<KNOWS>>, <<User>>)>>)>>,
   <<GraphType(<<NodeType(NoName, NoName, <<Latin1>>)>>)>>,
   <<Graph(g, <<>>), Drop>>,
   <<Graph(social, <<<<EdgeType(NoName, <<>>, <<KNOWS>>, <<>>)>>>>)>>,
   <<Graph(g, <<>>), GraphType(<<NodeType(City, NoName, <<>>)>>)>>,
   <<GraphTypeCopy>>, <<Drop>>}
==================================================================================
