------------------------------ MODULE MCParser ------------------------------
(* What the parser reads in the runs: sentences that use every rule, one of *)
(* them cut off behind each of its tokens, and texts printed from trees.     *)
EXTENDS ParserValues, GrammarShape

(* Sentences *)

Sessions == {
  "SESSION SET SCHEMA /a/b SESSION SET TIME ZONE 'utc' SESSION RESET ALL PARAMETERS SESSION CLOSE",
  "SESSION CLOSE", "SESSION SET VALUE IF NOT EXISTS $v = DATE '2022-10-10'", "SESSION OPEN",
  "SESSION SET PROPERTY GRAPH $g = CURRENT_GRAPH SESSION SET GRAPH HOME_GRAPH",
  "SESSION SET BINDING TABLE $t = tt SESSION SET TABLE $t SESSION SET x",
  "SESSION RESET SCHEMA SESSION RESET PROPERTY GRAPH SESSION RESET TIME ZONE",
  "SESSION RESET PARAMETER $p SESSION RESET SESSION SET SCHEMA /a",
  "START TRANSACTION READ ONLY, READ WRITE", "START TRANSACTION READ", "COMMIT", "ROLLBACK",
  "AT ../../b PROPERTY GRAPH g = a VALUE v = 1 RETURN g NEXT YIELD a AS b, c FINISH COMMIT",
  "AT HOME_SCHEMA PROPERTY FINISH" }

Catalogs == {
  "CREATE SCHEMA IF NOT EXISTS /foo/my", "DROP SCHEMA IF EXISTS my", "CREATE GRAPH g ANY",
  "CREATE OR REPLACE PROPERTY GRAPH IF NOT EXISTS /a/b/c.g LIKE CURRENT_GRAPH AS COPY OF h.g",
  "CREATE GRAPH g ::{(City :City {name STRING(10) NOT NULL, n TYPED INT})}",
  "CREATE GRAPH g TYPED ANY PROPERTY GRAPH", "CREATE GRAPH x.g :: t",
  "CREATE GRAPH TYPE IF NOT EXISTS t AS {NODE TYPE P (p LABEL Q => {a LIST<INT>, b ANY VALUE, c RECORD {x :PATH, y NODE}}), Foo(: F&G)}",
  "CREATE GRAPH TYPE t {DIRECTED EDGE TYPE k (p)-[LABELS L&M {since DATE}]->(:Q), UNDIRECTED EDGE (p)~[:R]~(q)}",
  "CREATE PROPERTY GRAPH TYPE t COPY OF u", "CREATE OR REPLACE PROPERTY GRAPH TYPE ../t COPY OF u",
  "RETURN a NEXT CREATE OR REPLACE PROPERTY GRAPH g ANY",
  "CREATE OR REPLACE GRAPH TYPE ./t LIKE HOME_GRAPH",
  "DROP GRAPH IF EXISTS g", "DROP PROPERTY GRAPH TYPE t", "DROP GRAPH TYPE HOME_SCHEMA/t",
  "CREATE GRAPH TYPE t {(a :A {x ANY NODE, y ANY EDGE, z ANY PROPERTY GRAPH, u ANY, v ANY RECORD, w ANY GRAPH})}",
  "CREATE GRAPH TYPE t {(:A {w BINDING TABLE, k TABLE, l PROPERTY GRAPH, m GRAPH, n NULL, o EDGE NOT NULL, p {q STRING}, s ARRAY})}" }

Statements == {
  "USE h.g USE VARIABLE v INSERT (:P&Q {name: 'x'})-[e:K]->(b), (c)<-[:L]-(d)~[f]~(g)",
  "USE $p.g OPTIONAL MATCH (a) OPTIONAL { MATCH (b) OPTIONAL MATCH (c) } FINISH",
  "OPTIONAL (MATCH (n) }", "OPTIONAL RETURN n",
  "MATCH (a:P|!Q|%|(R&S) WHERE a.x > 1)-[:K {s: TRUE}]->{1,3}(b)<-(c)~(d)<-[]->(e)->+(f)*-(g)",
  "MATCH (a)?-[:T]-{2}(h){,3}(i){4,} RETURN *",
  "MATCH REPEATABLE ELEMENTS p = ALL SHORTEST 2 PATHS (a)-/:K|L/->(b), q = (x)<~(y)~>(z)<->(w) KEEP TRAIL WHERE a = b YIELD a RETURN *",
  "MATCH (a)~[k]~>(b)<~[l]~(c)<~/(x)/~(d)~/ y /~(e)<-/ z /-(f) |+| (g) |+| (h) FINISH",
  "MATCH (a)|(b)|(c) RETURN ALL a GROUP BY ()", "MATCH ((a)-[e]->(b) WHERE x = 1){2} RETURN a",
  "MATCH (a) SET a.x = 1, b = {c: 2, d: 'e'}, n:L, m IS K REMOVE a.x, n:L, n IS M",
  "MATCH (a) DETACH DELETE a, b NODETACH DELETE c DELETE d", "DELETE",
  "FILTER WHERE a IS NULL FILTER b IS NOT TRUE LET x = 1, y RETURN x",
  "FOR x IN [1, 2.5e3] WITH ORDINALITY i FOR y IN LIST[] WITH OFFSET j ORDER BY x ASC NULLS FIRST, y DESC NULLS LAST, z OFFSET 2 LIMIT $n RETURN x",
  "ORDER BY a DESCENDING SKIP 3 LIMIT 1_000 LIMIT a",
  "SELECT DISTINCT a AS b, c FROM MATCH (a) WHERE a = 1 GROUP BY a, b HAVING b > 2 ORDER BY a OFFSET 1 LIMIT 2",
  "SELECT * FROM g MATCH (a)", "CALL proc(1, 'x') YIELD a AS b, c RETURN a", "CALL p() CALL p" }

Expressions == {
  "RETURN DISTINCT EXISTS {MATCH (a) RETURN a}, EXISTS (OPTIONAL MATCH (b)) AS x, EXISTS {(a)->(b)}",
  "RETURN ALL_DIFFERENT (a, b), SAME (a, b), PROPERTY_EXISTS (a, x), PROPERTY GRAPH g",
  "RETURN a IS TYPED INT, a IS NOT :: STRING, s IS NORMALIZED, s IS NOT NORMALIZED NFC",
  "RETURN a IS DIRECTED AND a IS NOT LABELED P|Q OR n IS SOURCE OF e XOR n IS NOT DESTINATION OF e",
  "RETURN a.b.c + 1 * 2 - -3 / 4 || 'x' <> NOT b <= +c, (a = b) = c, a IS",
  "RETURN TIME '1', DURATION 'P', X'0aF', NULL, UNKNOWN, FALSE, 0x1E, 0o17, 0b101, 1.5d, 3f, DATE",
  "RETURN RECORD {a: 1, b: {c: 2}}, {}, PATH[a, b], PATH [], LIST [1], ARRAY a",
  "RETURN NULLIF(a, b), COALESCE(a, b, c), CASE WHEN a THEN b WHEN c THEN d ELSE e END, CASE x WHEN 1 THEN 2 END",
  "RETURN CAST(a AS LIST<STRING> NOT NULL), LET x = 1 IN x END, VALUE {RETURN a}",
  "RETURN ^COUNT^(*), ^COUNT^(DISTINCT a), ^SUM^(ALL a), ^PERCENTILE_CONT^(a, b), ^CURRENT_DATE^(), ELEMENTS(p), ^ABS^(a)",
  "RETURN f(a)", "RETURN \"a b\", ^x y^, $$p, $^r^, a.\"q\" // no more", "RETURN a /* and b", "RETURN 'a",
  "@#$", "INSERT (a)-", "MATCH", "CREATE GRAPH", "RETURN", "RETURN 1 RETURN 0x", "MATCH (a)-/x" }

(* The texts that are never read to their end. *)
OpenPath == "MATCH ((a)"
OpenType == "RETURN CAST(a AS STRING(3"

(* A text cut off behind each of its tokens. *)
Cuts(text) ==
  LET tokens == Tokens(text, 1) IN {SubSeq(text, 1, tokens[i].next - 1) : i \in DOMAIN tokens}

BrokenOff == UNION {Cuts(text) : text \in {
  "MATCH p = ANY 2 ((a:A&B {x: 1})-[e WHERE e.y > 2]->{1,}) YIELD a RETURN a AS b",
  "CREATE GRAPH TYPE /s.t {NODE TYPE P (:A {n STRING(9) NOT NULL})}",
  "FOR x IN [a.b] RETURN CAST(x AS INT), CASE WHEN a THEN 'b' END" }}

-----------------------------------------------------------------------------
(* Trees and their texts *)

Tree(kind, marks, texts, children) ==
  [kind |-> kind, marks |-> marks, texts |-> texts, children |-> children]
Variable(name) == Tree("BINDING_VAR", << >>, << << "TEXT", name >> >>, << >>)

Query(clause) ==
  Tree("PROGRAM", << >>, << >>,
    << Tree("PROCEDURE_BODY", << >>, << >>, << Tree("STATEMENT", << >>, << >>, << clause >>) >>) >>)
Returned(item) == << Query(Tree("RETURN", << >>, << >>, << item >>)) >>
Meant(text, meant) == [entry |-> "program", text |-> text, meant |-> meant]

(* An expression is its text, how much its operator binds, and its tree. *)
Atom(name) == [text |-> name, binds |-> 9, tree |-> Variable(name)]
InParentheses(e, needed) == IF needed THEN ("(" \o e.text) \o ")" ELSE e.text

Strength == [OR |-> 1, AND |-> 2] @@ ("<=" :> 3) @@ ("||" :> 4) @@ ("+" :> 5)
            @@ ("-" :> 5) @@ ("/" :> 6)

Operation(l, op, r) ==
  LET n == Strength[op] IN
  [text |-> InParentheses(l, l.binds < n) \o " " \o op \o " " \o InParentheses(r, r.binds <= n),
   binds |-> n, tree |-> Tree("VALUE_EXPR", << op >>, << >>, << l.tree, r.tree >>)]

Signed(op, e) ==
  [text |-> op \o " " \o InParentheses(e, e.binds < 7), binds |-> 7,
   tree |-> Tree("VALUE_EXPR", << op >>, << >>, << e.tree >>)]

IsNull(e) ==
  [text |-> InParentheses(e, e.binds < 8) \o " IS NULL", binds |-> 8,
   tree |-> Tree("PREDICATE", << "NULL" >>, << >>, << e.tree >>)]

Property(e, name) ==
  [text |-> InParentheses(e, e.binds < 8) \o "." \o name, binds |-> 8,
   tree |-> Tree("PROPERTY_REFERENCE", << >>, << >>,
              << e.tree, Tree("NAME", << >>, << << "TEXT", name >> >>, << >>) >>)]

Small(op) == Operation(Atom("b"), op, Atom("c"))

PrintedExpressions ==
  {Operation(Small(o), p, Atom("d")) : o, p \in DOMAIN Strength}
  \union {Operation(Atom("a"), p, Small(o)) : o, p \in DOMAIN Strength}
  \union UNION {{Signed("NOT", Small(o)), Operation(Signed("-", Atom("a")), o, Signed("-", Atom("b"))),
                 IsNull(Small(o)), Property(Small(o), "p"),
                 Operation(IsNull(Atom("a")), o, Property(Atom("b"), "p"))} : o \in DOMAIN Strength}
  \union {Signed("NOT", Signed("-", IsNull(Property(Atom("a"), "p")))), IsNull(Signed("-", Atom("a"))),
          Property(IsNull(Atom("a")), "p")}

(* A label, the same way.  What follows a bar is a single term: a conjunction *)
(* there is printed between parentheses, as the parser wants it.              *)
LabelNode(mark, children) == Tree("LABEL_EXPRESSION", << mark >>, << >>, children)
NameNode(name) == Tree("NAME", << >>, << << "TEXT", name >> >>, << >>)
Label(name) == [text |-> name, binds |-> 3, tree |-> LabelNode("NAME", << NameNode(name) >>)]
Wildcard == [text |-> "%", binds |-> 3, tree |-> LabelNode("WILDCARD", << >>)]
Neither(l) == [text |-> "!" \o InParentheses(l, l.binds < 3), binds |-> 3,
               tree |-> LabelNode("NEGATION", << l.tree >>)]
Both(l, r) ==
  [text |-> InParentheses(l, l.binds < 2) \o "&" \o InParentheses(r, r.binds < 3), binds |-> 2,
   tree |-> LabelNode("CONJUNCTION", << l.tree, r.tree >>)]
Either(l, r) ==
  [text |-> InParentheses(l, l.binds < 2) \o "|" \o InParentheses(r, r.binds < 3), binds |-> 1,
   tree |-> LabelNode("DISJUNCTION", << l.tree, r.tree >>)]

PrintedLabels ==
  LET simple == {Label("A"), Wildcard, Neither(Label("B"))}
      composed == UNION {{Both(l, r), Either(l, r)} : l, r \in simple}
      outer == {Both(Label("A"), Neither(Label("B"))), Either(Neither(Label("A")), Wildcard)}
  IN  composed \union UNION {{Neither(l), Both(l, Label("C")), Either(l, Label("C")),
                              Both(Label("C"), l), Either(Label("C"), l)} : l \in outer}

Filled(children) == Tree("ELEMENT_FILLER", << >>, << >>, children)
NodeNode(children) == Tree("NODE_PATTERN", << >>, << >>, << Filled(children) >>)
Matched(elements) ==
  << Query(Tree("MATCH", << >>, << >>, << Tree("GRAPH_PATTERN", << >>, << >>,
       << Tree("PATH_PATTERN", << >>, << >>,
            << Tree("PATH_EXPRESSION", << >>, << >>, elements) >>) >>) >>)) >>

(* An edge points to the left when the left of its ends is an arrow, to the   *)
(* right when the right one is, and may also point nowhere when its line is   *)
(* a tilde.                                                                   *)
Direction(left, line, right) ==
  CASE left /\ right -> "LEFT_OR_RIGHT"
    [] left -> IF line = "-" THEN "LEFT" ELSE "LEFT_OR_UNDIRECTED"
    [] right -> IF line = "-" THEN "RIGHT" ELSE "UNDIRECTED_OR_RIGHT"
    [] OTHER -> IF line = "-" THEN "ANY" ELSE "UNDIRECTED"

(* With a filler the line is written twice; a tilde has at most one arrow. *)
EdgeText(left, line, filler, right) ==
  (IF left THEN "<" ELSE "") \o line \o filler \o (IF filler = "" THEN "" ELSE line)
  \o (IF right THEN ">" ELSE "")

PrintedEdges ==
  {Meant("MATCH (a)" \o EdgeText(left, line, filler, right) \o "(b)",
     Matched(<< NodeNode(<< NameNode("a") >>),
                Tree("EDGE_PATTERN", << Direction(left, line, right) >>, << >>,
                     IF filler = "[e]" THEN << Filled(<< NameNode("e") >>) >> ELSE << >>),
                NodeNode(<< NameNode("b") >>) >>))
   : << left, line, filler, right >> \in
       {e \in BOOLEAN \X {"-", "~"} \X {"", "[]", "[e]"} \X BOOLEAN : ~(e[1] /\ e[4] /\ e[2] = "~")}}

(* A quoted text: the delimiter twice, and the reverse solidus twice. *)
RECURSIVE Quoted(_, _)
Quoted(value, delimiter) ==
  LET c == Char(value, 1) IN
  IF c = "" THEN ""
  ELSE (IF c \in {delimiter, Escape} THEN c \o c ELSE c)
       \o Quoted(SubSeq(value, 2, Len(value)), delimiter)

PrintedQuotes ==
  UNION {{Meant("RETURN " \o delimiter \o Quoted(value, delimiter) \o delimiter,
     Returned(IF delimiter = Accent THEN Variable(value)
              ELSE Tree("LITERAL", << "STRING" >>, << << "TEXT", value >> >>, << >>)))
   : value \in {"", "it's", "'", "say \"so\"", "^", "^^a", "\\", "\\'", "a\\\"^' b", "// --"}}
   : delimiter \in Delimiters}

Printed ==
  {Meant("RETURN " \o e.text, Returned(e.tree)) : e \in PrintedExpressions}
  \union {Meant("MATCH (x:" \o l.text \o ")",
                Matched(<< NodeNode(<< NameNode("x"), l.tree >>) >>)) : l \in PrintedLabels}
  \union PrintedEdges \union PrintedQuotes

-----------------------------------------------------------------------------
Read(entry, text) == [entry |-> entry, text |-> text, meant |-> << >>]

MCInputs ==
  {Read("program", text) :
     text \in Sessions \union Catalogs \union Statements \union Expressions \union BrokenOff}
  \union {Read("script", text) : text \in Sessions}
  \union {Read("program", OpenPath), Read("program", OpenType)}
  \union Printed

MCEndless == {Read("program", OpenPath)}
=============================================================================
