-------------------------------- MODULE Grammar --------------------------------
(***************************************************************************)
(* The functions of the recursive-descent parser (src/parser/parser.c) as  *)
(* data: the body of each parse_ function is a sequence of the             *)
(* instructions below, and Function(f) is the body of the function named   *)
(* f.  The machine that runs them is the module Parser.                    *)
(*                                                                         *)
(* A condition of the code on the tokens ahead is a lookahead: a sequence  *)
(* of sets of token kinds, the n-th of which the token peek(n - 1) must be *)
(* in.  A set that holds "except" stands for its complement; the words in   *)
(* small letters stand for what Classes says.                              *)
(*                                                                         *)
(* `if (node) add_child' is no instruction: what a function returns is a   *)
(* child of the node being built.  Whether the last function returned a    *)
(* node is remembered where the code looks at it (WhenGot).                *)
(***************************************************************************)
EXTENDS Integers, Sequences, Lexer

(* advance; advance, the token's text going to the node being built; a     *)
(* token as a node of its own; the same for a number literal.              *)
Skip == [op |-> "skip"]
Keep == [op |-> "keep"]
Leaf(node, mark) == [op |-> "leaf", node |-> node, mark |-> mark]
Number == [op |-> "number"]

Expect(kind) == [op |-> "expect", kind |-> kind]

(* unexpected(), and unexpected() followed by return NULL. *)
Error == [op |-> "error"]
Fail == [op |-> "fail"]

(* The tree: a new node, its subkind or a flag, its end; Adopt makes a node *)
(* whose first child is the last child of the node being built.             *)
Open(node) == [op |-> "open", node |-> node]
Mark(mark) == [op |-> "mark", mark |-> mark]
Close == [op |-> "close"]
Adopt(node) == [op |-> "adopt", node |-> node]

(* if/else if on lookaheads; the same, skipped once the parser has failed; *)
(* while loops with and without the test of parser->failed.                *)
Choice(alts) == [op |-> "choice", alts |-> alts, live |-> FALSE]
ChoiceUnlessFailed(alts) == [op |-> "choice", alts |-> alts, live |-> TRUE]
Loop(alts) == [op |-> "loop", alts |-> alts, live |-> TRUE]
Forever(alts) == [op |-> "loop", alts |-> alts, live |-> FALSE]
WhenGot(body) == [op |-> "whengot", body |-> body]

Call(f) == [op |-> "call", f |-> f, n |-> << >>]
CallWith(f, n) == [op |-> "call", f |-> f, n |-> n]

On(kinds, body) == << << kinds >>, body >>
On2(kinds, kinds2, body) == << << kinds, kinds2 >>, body >>
Else(body) == << << >>, body >>

Node(node, body) == << Open(node) >> \o body \o << Close >>
If(kinds, body) == Choice(<< On(kinds, body) >>)
Optional(kind) == If({kind}, << Skip >>)
While(kinds, body) == Loop(<< On(kinds, body) >>)
SkipWhile(kinds) == While(kinds, << Skip >>)
KeepPairs(kinds, kinds2) == Loop(<< On2(kinds, kinds2, << Keep, Keep >>) >>)

(* do { ... } while (!failed && match(COMMA)) *)
List(body) == body \o << While({","}, << Skip >> \o body) >>

Expression == Call("value_expression")
Properties == << If({"except", "}"}, List(<< Call("property_key_value_pair") >>)), Expect("}") >>
IfNotExists == If({"IF"}, << Skip, Expect("NOT"), Expect("EXISTS"), Mark("CONDITIONAL") >>)
IfExists == If({"IF"}, << Skip, Expect("EXISTS"), Mark("CONDITIONAL") >>)

(* parse_name as a node, and its text as the text of the node being built. *)
Name == Choice(<< On({"name"}, << Leaf("NAME", "") >>), Else(<< Fail >>) >>)
NameText == Choice(<< On({"name"}, << Keep >>), Else(<< Fail >>) >>)

EdgeStart == {"-[", "<-[", "~[", "<~[", "<-", "~", "->", "<~", "~>", "<->", "-"}
SimplifiedStart == {"-/", "<-/", "~/", "<~/"}
NumberKinds == {"INT_LIT", "FLOAT_LIT"}
StringKinds == {"STR_LIT", "DOUBLE_QUOTED"}
PathPrefixes == {"WALK", "TRAIL", "SIMPLE", "ACYCLIC", "ALL", "ANY", "SHORTEST"}

-----------------------------------------------------------------------------
(* Programs, sessions and transactions *)

CloseSession == << Skip, Skip >> \o Node("SESSION_CLOSE", << >>)

ProgramParts ==
  << Choice(<<
       On2({"SESSION"}, {"CLOSE"}, CloseSession),
       Else(<< Call("program_activity"),
               ChoiceUnlessFailed(<< On2({"SESSION"}, {"CLOSE"}, CloseSession) >>) >>) >>) >>

Program == Node("PROGRAM", ProgramParts)

ResetSessions == Loop(<< On2({"SESSION"}, {"RESET"}, << Call("session_reset") >>) >>)

ProgramActivity ==
  << Choice(<<
       On2({"SESSION"}, {"SET"},
           << Loop(<< On2({"SESSION"}, {"SET"}, << Call("session_set") >>) >>), ResetSessions >>),
       On2({"SESSION"}, {"RESET"}, << ResetSessions >>),
       On({"SESSION"}, << Error >>),
       On({"START"}, << Call("start_transaction") >>),
       On({"COMMIT", "ROLLBACK"}, << Call("end_transaction") >>),
       Else(<< Call("procedure_body"),
               ChoiceUnlessFailed(<< On({"COMMIT", "ROLLBACK"},
                                        << Call("end_transaction") >>) >>) >>) >>) >>

SessionSet ==
  << Open("SESSION_SET"), Expect("SESSION"), Expect("SET"),
     Choice(<<
       On({"SCHEMA"}, << Skip, Mark("SCHEMA"), Call("schema_reference"), Close >>),
       On({"TIME"}, << Skip, Expect("ZONE"), Mark("TIMEZONE"), Expression, Close >>),
       On({"VALUE"}, << Skip, Mark("VALUE_PARAMETER"), Call("session_set_parameter_name"),
                        If({"="}, << Skip, Expression >>), Close >>),
       Else(<< Optional("PROPERTY"),
         Choice(<<
           On2({"GRAPH"}, {"IF", "PARAM"},
               << Skip, Mark("GRAPH_PARAMETER"), Call("session_set_parameter_name"),
                  If({"="}, << Skip, Call("graph_expression") >>), Close >>),
           On({"GRAPH"}, << Skip, Mark("GRAPH"), Call("graph_expression"), Close >>),
           On({"BINDING", "TABLE"},
               << Optional("BINDING"), Expect("TABLE"), Mark("TABLE_PARAMETER"),
                  Call("session_set_parameter_name"),
                  If({"="}, << Skip, Call("binding_table_expression") >>), Close >>),
           Else(<< Fail >>) >>) >>) >>) >>

SessionSetParameterName ==
  << If({"IF"}, << Skip, Expect("NOT"), Expect("EXISTS") >>), Call("parameter") >>

SessionReset ==
  Node("SESSION_RESET",
    << Expect("SESSION"), Expect("RESET"),
       If({"ALL", "PARAMETERS", "CHARACTERISTICS", "SCHEMA", "PROPERTY", "GRAPH", "TIME",
           "PARAMETER", "PARAM"}, << Call("session_reset_arguments") >>) >>)

SessionResetArguments ==
  Node("NAME",
    << Optional("ALL"),
       Choice(<<
         On({"PARAMETERS", "CHARACTERISTICS"}, << Skip, Mark("characteristics") >>),
         On({"SCHEMA"}, << Skip, Mark("schema") >>),
         On({"PROPERTY", "GRAPH"}, << Optional("PROPERTY"), Expect("GRAPH"), Mark("graph") >>),
         On({"TIME"}, << Skip, Expect("ZONE"), Mark("time zone") >>),
         Else(<< Optional("PARAMETER"), Call("parameter"), Mark("parameter") >>) >>) >>)

TransactionMode ==
  << Skip, Choice(<<
       On({"ONLY"}, << Skip, Open("NAME"), Mark("READ ONLY"), Close >>),
       On({"WRITE"}, << Skip, Open("NAME"), Mark("READ WRITE"), Close >>),
       Else(<< Error >>) >>) >>

(* A mode is read at the start, then one after every comma; a comma with no *)
(* READ after it ends the list.                                             *)
StartTransaction ==
  Node("START_TRANSACTION",
    << Expect("START"), Expect("TRANSACTION"),
       ChoiceUnlessFailed(<< On({"READ"}, TransactionMode \o
         << Loop(<< On2({","}, {"READ"}, << Skip >> \o TransactionMode) >>),
            ChoiceUnlessFailed(<< On({","}, << Skip >>) >>) >>) >>) >>)

EndTransaction ==
  << Choice(<< On({"COMMIT"}, << Skip >> \o Node("COMMIT", << >>)),
               On({"ROLLBACK"}, << Skip >> \o Node("ROLLBACK", << >>)),
               Else(<< Fail >>) >>) >>

-----------------------------------------------------------------------------
(* Statements *)

VariableKinds == {"PROPERTY", "GRAPH", "BINDING", "TABLE", "VALUE"}

VariableDeclaration ==
  Node("VARIABLE_DECL", << Skip, Name, If({"="}, << Skip, Expression >>) >>)

(* A PROPERTY that no other of the kinds follows is consumed and forgotten. *)
ProcedureBody ==
  Node("PROCEDURE_BODY",
    << If({"AT"}, << Skip >> \o Node("AT_SCHEMA", << Call("schema_reference") >>)),
       Loop(<< On2({"PROPERTY"}, VariableKinds \ {"PROPERTY"}, << Skip >> \o VariableDeclaration),
               On(VariableKinds \ {"PROPERTY"}, VariableDeclaration) >>),
       ChoiceUnlessFailed(<< On({"PROPERTY"}, << Skip >>) >>),
       Call("statement"),
       While({"NEXT"}, << Skip >> \o Node("NEXT_STATEMENT",
         << If({"YIELD"}, << Call("yield_clause") >>), Call("statement") >>)) >>)

Clauses ==
  << On({"USE"}, << Call("use_graph_clause") >>),
     On({"MATCH", "OPTIONAL"}, << Call("match_statement") >>),
     On({"INSERT"}, << Call("insert_statement") >>),
     On({"SET"}, << Call("set_statement") >>),
     On({"REMOVE"}, << Call("remove_statement") >>),
     On({"DELETE", "DETACH", "NODETACH"}, << Call("delete_statement") >>),
     On({"FILTER"}, << Call("filter_statement") >>),
     On({"LET"}, << Call("let_statement") >>),
     On({"FOR"}, << Call("for_statement") >>),
     On({"ORDER", "OFFSET", "SKIP", "LIMIT"}, << Call("order_by_and_page") >>),
     On({"RETURN"}, << Call("return_statement") >>),
     On({"FINISH"}, << Skip >> \o Node("FINISH", << >>)),
     On({"SELECT"}, << Call("select_statement") >>),
     On({"CALL"}, << Call("call_statement") >>) >>

ClauseStart == UNION {Clauses[i][1][1] : i \in DOMAIN Clauses}

Statement ==
  << Choice(<<
       On({"CREATE", "DROP"},
          Node("STATEMENT", << Call("simple_catalog_modifying_statement") >>)),
       On(ClauseStart, Node("STATEMENT", << Loop(Clauses) >>)),
       Else(<< Fail >>) >>) >>

-----------------------------------------------------------------------------
(* The catalog *)

AnyKind == {"except"}

(* create_is_graph_type: what may stand between CREATE and TYPE.  The longest *)
(* of these looks at six tokens.                                              *)
TypeLookaheads ==
  LET kinds == << << {"PROPERTY"}, {"GRAPH"} >>, << {"PROPERTY"} >>, << {"GRAPH"} >>, << >> >>
      after(replace) == [i \in 1 .. 4 |-> (<< {"CREATE"} >> \o replace) \o kinds[i] \o << {"TYPE"} >>]
  IN  after(<< {"OR"}, AnyKind >>) \o after(<< >>)

CatalogModifyingStatement ==
  LET graphTypes == [i \in DOMAIN TypeLookaheads |->
                       << TypeLookaheads[i], << Call("create_graph_type") >> >>]
  IN  << Choice(<<
           On2({"CREATE"}, {"SCHEMA"}, << Call("create_schema") >>),
           On2({"DROP"}, {"SCHEMA"}, << Call("drop_schema") >>),
           On({"CREATE"}, << Choice(graphTypes \o << Else(<< Call("create_graph") >>) >>) >>),
           << << {"DROP"}, {"GRAPH"}, {"TYPE"} >>, << Call("drop_graph_type") >> >>,
           << << {"DROP"}, {"PROPERTY"}, {"GRAPH"}, {"TYPE"} >>, << Call("drop_graph_type") >> >>,
           On({"DROP"}, << Call("drop_graph") >>),
           Else(<< Fail >>) >>) >>

CreateSchema ==
  Node("CREATE_SCHEMA",
    << Expect("CREATE"), Expect("SCHEMA"), IfNotExists, Call("schema_parent_and_name") >>)

DropSchema ==
  Node("DROP_SCHEMA",
    << Expect("DROP"), Expect("SCHEMA"), IfExists, Call("schema_parent_and_name") >>)

(* IF NOT EXISTS after OR REPLACE is read and changes nothing. *)
CreateOrReplace(heading, rest) ==
  << Expect("CREATE"),
     Choice(<<
       On({"OR"}, << Skip, Expect("REPLACE"), Mark("OR_REPLACE"), Optional("PROPERTY") >> \o heading
                  \o << If({"IF"}, << Skip, Expect("NOT"), Expect("EXISTS") >>) >>),
       Else(<< Optional("PROPERTY") >> \o heading \o << IfNotExists >>) >>) >> \o rest

CreateGraph ==
  Node("CREATE_GRAPH", CreateOrReplace(<< Expect("GRAPH") >>,
    << Call("parent_and_name"), Call("graph_type_source"),
       If({"AS"}, << Skip, Expect("COPY"), Expect("OF") >>
                  \o Node("GRAPH_SOURCE", << Call("graph_expression") >>)) >>))

CreateGraphType ==
  Node("CREATE_GRAPH_TYPE", CreateOrReplace(<< Expect("GRAPH"), Expect("TYPE") >>,
    << Call("parent_and_name"), Call("graph_type_source_statement") >>))

DropGraph ==
  Node("DROP_GRAPH",
    << Expect("DROP"), Optional("PROPERTY"), Expect("GRAPH"), IfExists,
       Call("parent_and_name") >>)

DropGraphType ==
  Node("DROP_GRAPH_TYPE",
    << Expect("DROP"), Optional("PROPERTY"), Expect("GRAPH"), Expect("TYPE"), IfExists,
       Call("parent_and_name") >>)

LikeGraph == << Skip >> \o Node("GRAPH_TYPE_LIKE", << Call("graph_expression") >>)

GraphTypeSourceStatement ==
  << Optional("AS"),
     Choice(<<
       On({"COPY"}, << Skip, Expect("OF") >> \o Node("GRAPH_TYPE_REFERENCE", << Name >>)),
       On({"LIKE"}, LikeGraph),
       On({"{"}, << Call("nested_graph_type") >>),
       Else(<< Fail >>) >>) >>
(* `typed' is what stands for the TYPED node, added to the source after its *)
(* other children.                                                          *)
NestedGraphTypeParts ==
  << Expect("{") >>
  \o Node("ELEMENT_TYPE_LIST", << If({"except", "}"}, List(<< Call("element_type_specification") >>)) >>)
  \o << Expect("}") >>

NestedGraphType == Node("NESTED_GRAPH_TYPE", NestedGraphTypeParts)

OptionalPropertyGraph == << Optional("PROPERTY"), Optional("GRAPH") >>

GraphTypeSourceAfter(typed) ==
  << Choice(<<
       On({"ANY"}, << Skip >> \o Node("OPEN_GRAPH_TYPE", OptionalPropertyGraph \o typed)),
       On({"{", "PROPERTY", "GRAPH"},
          OptionalPropertyGraph \o Node("NESTED_GRAPH_TYPE", NestedGraphTypeParts \o typed)),
       Else(Node("GRAPH_TYPE_REFERENCE", << Name >> \o typed)) >>) >>

Typed(mark) == Node("TYPED", << Mark(mark) >>)

GraphTypeSource ==
  << Choice(<<
       On({"LIKE"}, LikeGraph),
       On({"::"}, << Skip >> \o GraphTypeSourceAfter(Typed("DOUBLE_COLON"))),
       On({"TYPED"}, << Skip >> \o GraphTypeSourceAfter(Typed("KEYWORD"))),
       Else(GraphTypeSourceAfter(<< >>)) >>) >>

-----------------------------------------------------------------------------
(* Names with their parents, and references: the text of a path is what its *)
(* tokens say (slice).                                                      *)

SchemaParentAndName ==
  Node("NAME",
    << If({"/"}, Node("CATALOG_PARENT_REFERENCE",
                      << Keep, KeepPairs({"IDENT"}, {"/"}) >>)),
       NameText >>)

ParentAndName == Node("NAME", << Call("catalog_parent_reference"), NameText >>)

ObjectPrefix == KeepPairs({"IDENT"}, {"."})
KeepSolidus == If({"/"}, << Keep >>)

CatalogParentReference ==
  << Choice(<<
       On({"/"}, Node("CATALOG_PARENT_REFERENCE",
                      << Keep, KeepPairs({"IDENT"}, {"/"}), KeepSolidus, ObjectPrefix >>)),
       On({".."}, Node("CATALOG_PARENT_REFERENCE",
                       << Keep, KeepPairs({"/"}, {".."}), KeepSolidus, KeepSolidus,
                          ObjectPrefix >>)),
       On({"HOME_SCHEMA", "CURRENT_SCHEMA", ".", "PARAM"},
          Node("CATALOG_PARENT_REFERENCE", << Keep, KeepSolidus, ObjectPrefix >>)),
       On2({"IDENT"}, {"."}, Node("CATALOG_PARENT_REFERENCE", << ObjectPrefix >>)) >>) >>

SchemaReference ==
  LET directories == << KeepPairs({"IDENT"}, {"/"}), If({"IDENT"}, << Keep >>) >>
  IN  << Choice(<<
           On({"PARAM", "HOME_SCHEMA", "CURRENT_SCHEMA", "."},
              Node("SCHEMA_REFERENCE", << Keep >>)),
           On({"/"}, Node("SCHEMA_REFERENCE", << Keep >> \o directories)),
           On({".."}, Node("SCHEMA_REFERENCE",
                           << Keep, KeepPairs({"/"}, {".."}), KeepSolidus >> \o directories)),
           Else(<< Fail >>) >>) >>

GraphExpression ==
  << Choice(<<
       On({"CURRENT_PROPERTY_GRAPH", "CURRENT_GRAPH"}, << Leaf("CURRENT_GRAPH", "") >>),
       On({"HOME_PROPERTY_GRAPH", "HOME_GRAPH"}, << Leaf("HOME_GRAPH", "") >>),
       On({"VARIABLE"}, << Skip >> \o Node("GRAPH_EXPR", << Call("primary") >>)),
       On({"/", "..", "PARAM", "HOME_SCHEMA", "CURRENT_SCHEMA"}, << Call("graph_reference") >>),
       On2({"IDENT"}, {"."}, << Call("graph_reference") >>),
       Else(<< Name >>) >>) >>

GraphReference ==
  Node("GRAPH_REFERENCE", << Call("catalog_parent_reference"), NameText >>)

BindingTableExpression ==
  << Choice(<< On({"name"}, Node("BINDING_TABLE_EXPR", << Name >>)), Else(<< Fail >>) >>) >>

-----------------------------------------------------------------------------
(* Statements that change the graph *)

InsertStatement == Node("INSERT", << Expect("INSERT"), Call("insert_graph_pattern") >>)

SetStatement ==
  Node("SET_STATEMENT", << Expect("SET") >> \o List(<< Call("set_item") >>))

SetItem ==
  << Open("SET_ITEM"), Call("binding_variable_reference"),
     Choice(<<
       On({"."}, << Skip, Name, Expect("="), Expression, Mark("PROPERTY"), Close >>),
       On({"="}, << Skip, Expect("{"), Mark("PROPERTIES") >> \o Properties \o << Close >>),
       On({"IS", ":"}, << Skip, Mark("LABEL"), Name, Close >>),
       Else(<< Fail >>) >>) >>

RemoveStatement ==
  Node("REMOVE_STATEMENT", << Expect("REMOVE") >> \o List(<< Call("remove_item") >>))

RemoveItem ==
  << Open("REMOVE_ITEM"), Call("binding_variable_reference"),
     Choice(<<
       On({"."}, << Skip, Mark("PROPERTY"), Name, Close >>),
       On({"IS", ":"}, << Skip, Mark("LABEL"), Name, Close >>),
       Else(<< Fail >>) >>) >>

DeleteStatement ==
  Node("DELETE_STATEMENT",
    << Choice(<< On({"DETACH"}, << Skip, Mark("DETACH") >>),
                 On({"NODETACH"}, << Skip, Mark("NODETACH") >>) >>),
       Expect("DELETE") >> \o List(<< Expression >>))
-----------------------------------------------------------------------------
(* Statements that read *)

MatchClause == Node("MATCH", << Expect("MATCH"), Call("graph_pattern_binding_table") >>)

(* The token that closes an OPTIONAL block is chosen where it should stand:  *)
(* another opening parenthesis asks for a closing one, anything else for a   *)
(* brace.                                                                    *)
MatchStatement ==
  LET statements == << While({"MATCH", "OPTIONAL"}, << Call("match_statement") >>),
                       Choice(<< On({"("}, << Expect(")") >>), Else(<< Expect("}") >>) >>) >>
  IN  << Choice(<<
           On({"OPTIONAL"}, << Skip >> \o Node("OPTIONAL_MATCH",
             << Choice(<<
                  On({"MATCH"}, << Skip, Call("graph_pattern_binding_table") >>),
                  On({"{", "("}, << Skip >> \o statements),
                  Else(<< Error >>) >>) >>)),
           Else(MatchClause) >>) >>

Where == If({"WHERE"}, << Skip >> \o Node("WHERE", << Expression >>))
YieldWhenPresent == If({"YIELD"}, << Call("yield_clause") >>)

FilterStatement ==
  Node("FILTER",
    << Expect("FILTER"),
       Choice(<< On({"WHERE"}, << Where >>), Else(<< Expression >>) >>) >>)

Declarations ==
  List(Node("VARIABLE_DECL", << Name, If({"="}, << Skip, Expression >>) >>))

LetStatement == Node("LET", << Expect("LET") >> \o Declarations)

ForStatement ==
  Node("FOR",
    << Expect("FOR"), Name, Expect("IN"), Expression,
       If({"WITH"}, << Skip >> \o Node("NAME",
         << Choice(<< On({"ORDINALITY"}, << Skip, Mark("ORDINALITY") >>),
                      On({"OFFSET"}, << Skip, Mark("OFFSET") >>) >>),
            Name >>)) >>)

Offset == If({"OFFSET", "SKIP"}, << Call("offset_clause") >>)
Limit == If({"LIMIT"}, << Call("limit_clause") >>)
OrderAndPage == << If({"ORDER"}, << Call("order_by_clause") >>), Offset, Limit >>
GroupBy == If({"GROUP"}, << Call("group_by_clause") >>)

OrderByAndPage == Node("ORDER_BY_PAGE", OrderAndPage)

\* Seeded bug: the alias is passed over.
Aliased_Unkept == If({"AS"}, << Skip, Adopt("FIELD"), Skip, Close >>)
Aliased == If({"AS"}, << Skip, Adopt("FIELD"), NameText, Close >>)

(* What RETURN and SELECT list: everything, or expressions with aliases. *)
Items ==
  << Choice(<< On({"DISTINCT"}, << Skip, Mark("DISTINCT") >>),
               On({"ALL"}, << Skip, Mark("ALL") >>) >>),
     Choice(<<
       On({"*"}, << Leaf("NAME", "") >>),
       Else(List(<< Expression, WhenGot(<< Aliased >>) >>)) >>) >>

ReturnStatement == Node("RETURN", << Expect("RETURN") >> \o Items \o << GroupBy >>)

MatchWhenPresent == If({"MATCH", "OPTIONAL"}, << Call("match_statement") >>)

SelectStatement ==
  Node("SELECT",
    << Expect("SELECT") >> \o Items \o
    << If({"FROM"}, << Skip >> \o Node("GRAPH_PATTERN",
         << Choice(<< On({"MATCH", "OPTIONAL"}, << MatchWhenPresent >>),
                      Else(<< Call("graph_expression"), MatchWhenPresent >>) >>) >>)),
       Where, GroupBy,
       If({"HAVING"}, << Skip >> \o Node("HAVING", << Expression >>)) >> \o OrderAndPage)

CallStatement ==
  Node("CALL_PROCEDURE",
    << Expect("CALL"), Name,
       If({"("}, << Skip, If({"except", ")"}, List(<< Expression >>)), Expect(")") >>),
       YieldWhenPresent >>)
-----------------------------------------------------------------------------
(* Patterns *)

MatchModes == {"ELEMENT", "ELEMENTS", "EDGE", "EDGES", "RELATIONSHIP", "RELATIONSHIPS", "BINDINGS"}

GraphPatternParts ==
  << If({"REPEATABLE", "DIFFERENT"}, << Skip, SkipWhile(MatchModes) >>) >>
  \o List(<< Call("path_pattern") >>)
  \o << If({"KEEP"}, << Skip >>
             \o Node("KEEP", << SkipWhile(PathPrefixes \union {"PATH", "PATHS"}) >>)),
        Where >>

GraphPattern == Node("GRAPH_PATTERN", GraphPatternParts)
GraphPatternBindingTable == Node("GRAPH_PATTERN", GraphPatternParts \o << YieldWhenPresent >>)

(* Of a prefix nothing is kept but that there is one: not its words, and not *)
(* the number of paths.                                                       *)
PathPattern ==
  Node("PATH_PATTERN",
    << Choice(<< On2({"name"}, {"="}, << Name, Skip >>) >>),
       If(PathPrefixes, Node("NAME",
         << Mark("path_prefix"),
            SkipWhile(PathPrefixes \union NumberKinds \union {"PATH", "PATHS", "GROUP", "GROUPS"}) >>)),
       Call("path_pattern_expression") >>)

Alternation(bar, mark) ==
  On({bar}, << Adopt("PATH_EXPRESSION"), Mark(mark),
               While({bar}, << Skip, Call("path_term") >>), Close >>)

PathPatternExpression ==
  << Call("path_term"),
     ChoiceUnlessFailed(<< Alternation("|+|", "MULTISET_ALTERNATION"),
                           Alternation("|", "ALTERNATION") >>) >>

FactorStart == {"("} \union EdgeStart \union SimplifiedStart

PathTerm ==
  << Choice(<<
       On(FactorStart, Node("PATH_EXPRESSION", << While(FactorStart, << Call("path_primary") >>) >>)),
       Else(<< Fail >>) >>) >>

(* parse_path_factor: the quantifier after a primary is its last child. *)
Quantifier == If({"*", "+", "?", "{"}, << Call("graph_pattern_quantifier") >>)

PathPrimary ==
  << Choice(<<
       On2({"("}, {")", "name", ":", "IS", "WHERE", "{"}, << Call("node_pattern") >>),
       On({"("}, << Call("parenthesized_path") >>),
       On(EdgeStart, << Call("edge_pattern") >>),
       On(SimplifiedStart, << Call("simplified_path") >>),
       Else(<< Fail >>) >>) >>

NodePattern ==
  Node("NODE_PATTERN",
    << Expect("("), If({"except", ")"}, << Call("element_filler") >>), Expect(")"), Quantifier >>)

EdgeCloses == {"]-", "]->", "]~", "]~>"}

(* The directions of the edges without a filler, and those of the others by *)
(* the bracket that opens them and the one that closes them; what any other *)
(* token opens is closed by none.                                           *)
EdgePattern ==
  LET abbreviated(kind, direction) == On({kind}, << Skip, Mark(direction), Quantifier, Close >>)
      closed(kind, direction) == On({kind}, << Mark(direction), Skip, Quantifier, Close >>)
      filled == << Skip, If({"except"} \union EdgeCloses, << Call("element_filler") >>) >>
      full(kind, closes) == On({kind}, filled \o << Choice(closes \o << Else(<< Fail >>) >>) >>)
  IN  << Open("EDGE_PATTERN"),
         Choice(<<
           abbreviated("<-", "LEFT"), abbreviated("~", "UNDIRECTED"),
           abbreviated("->", "RIGHT"), abbreviated("<~", "LEFT_OR_UNDIRECTED"),
           abbreviated("~>", "UNDIRECTED_OR_RIGHT"), abbreviated("<->", "LEFT_OR_RIGHT"),
           abbreviated("-", "ANY"),
           full("<-[", << closed("]-", "LEFT"), closed("]->", "LEFT_OR_RIGHT") >>),
           full("~[", << closed("]~", "UNDIRECTED"), closed("]~>", "UNDIRECTED_OR_RIGHT") >>),
           full("-[", << closed("]->", "RIGHT"), closed("]-", "ANY") >>),
           full("<~[", << closed("]~", "LEFT_OR_UNDIRECTED") >>),
           Else(filled \o << Fail >>) >>) >>

Filler(label) ==
  Node("ELEMENT_FILLER",
    << If({"name"}, << Name >>),
       If({":", "IS"}, << Skip, Call(label) >>),
       Choice(<< On({"WHERE"}, << Where >>), On({"{"}, << Skip >> \o Properties) >>) >>)

ElementFiller == Filler("label_expression")
InsertElementFiller == Filler("label_set_specification")

(* Between the parentheses what starts no factor is skipped: the bars of an *)
(* alternation, a path variable, WHERE and its condition.                   *)
ParenthesizedPath ==
  Node("PATH_EXPRESSION",
    << Mark("PARENTHESIZED"), Expect("("),
       While({"except", ")"},
         << Choice(<< On({"("} \union EdgeStart, << Call("path_primary") >>), Else(<< Skip >>) >>) >>),
       Expect(")"), Quantifier >>)

(* Everything is skipped, up to the closing token outside of parentheses. *)
\* Seeded bug: the end of the text is passed over.
SimplifiedRest_PastTheEnd(close, depth) ==
  LET again(d) == << Skip, CallWith("simplified_rest", << close, d >>) >>
  IN  << Choice(<<
           On({"("}, again(depth + 1)),
           On({")"}, again(depth - 1)),
           On(IF depth = 0 THEN {close} ELSE {}, << Skip >>),
           Else(again(depth)) >>) >>

SimplifiedRest(close, depth) ==
  LET again(d) == << Skip, CallWith("simplified_rest", << close, d >>) >>
  IN  << Choice(<<
           On({"("}, again(depth + 1)),
           On({")"}, again(depth - 1)),
           On(IF depth = 0 THEN {close} ELSE {}, << Skip >>),
           On({"EOF"}, << >>),
           Else(again(depth)) >>) >>

SimplifiedPath ==
  LET until(close) == << Skip, CallWith("simplified_rest", << close, 0 >>) >>
  IN  Node("PATH_EXPRESSION",
        << Mark("SIMPLIFIED"),
           Choice(<< On({"<-/"}, until("/-")), On({"~/", "<~/"}, until("/~")),
                     On({"-/"}, until("/->")) >>),
           Quantifier >>)
(* & binds the operands from the left; an operand of | that follows the bar *)
(* is a single term, whatever stands before the bar.                        *)
LabelExpression ==
  << Call("label_unary"),
     While({"&"}, << Skip, Adopt("LABEL_EXPRESSION"), Mark("CONJUNCTION"), Call("label_unary"),
                     Close >>),
     ChoiceUnlessFailed(<<
       On({"|"}, << Adopt("LABEL_EXPRESSION"), Mark("DISJUNCTION"),
                    While({"|"}, << Skip, Call("label_unary") >>), Close >>) >>) >>

LabelUnary ==
  << Choice(<<
       On({"!"}, << Skip >> \o Node("LABEL_EXPRESSION", << Mark("NEGATION"), Call("label_unary") >>)),
       On({"%"}, << Skip >> \o Node("LABEL_EXPRESSION", << Mark("WILDCARD") >>)),
       On({"("}, << Skip, Call("label_expression"), Expect(")") >>),
       On({"name"}, Node("LABEL_EXPRESSION", << Mark("NAME"), Name >>)),
       Else(<< Fail >>) >>) >>

LabelSetSpecification ==
  Node("LABEL_EXPRESSION",
    << Mark("CONJUNCTION"), Name, While({"&"}, << Skip, Name >>) >>)

Bound == If(NumberKinds, << Number >>)

(* {n,} and {,n} are told from {n,m} and from one another by the number of *)
(* their children alone.                                                    *)
GraphPatternQuantifier ==
  << Choice(<<
       On({"*"}, << Skip >> \o Node("QUANTIFIER", << Mark("STAR") >>)),
       On({"+"}, << Skip >> \o Node("QUANTIFIER", << Mark("PLUS") >>)),
       On({"?"}, << Skip >> \o Node("QUANTIFIER", << Mark("QUESTION") >>)),
       On({"{"}, << Skip >> \o Node("QUANTIFIER",
         << Bound,
            Choice(<< On({","}, << Skip, Bound, Mark("GENERAL") >>), Else(<< Mark("FIXED") >>) >>),
            Expect("}") >>)),
       Else(<< Fail >>) >>) >>

InsertGraphPattern ==
  Node("INSERT_GRAPH_PATTERN", List(<< Call("insert_path_pattern") >>))

InsertPathPattern ==
  Node("INSERT_PATH_PATTERN",
    << Call("insert_node_pattern"),
       While(EdgeStart, << Call("insert_edge_pattern"),
                           WhenGot(<< Call("insert_node_pattern") >>) >>) >>)

InsertNodePattern ==
  Node("INSERT_NODE_PATTERN",
    << Expect("("), If({"except", ")"}, << Call("insert_element_filler") >>), Expect(")") >>)

InsertEdgePattern ==
  LET edge(kind, direction, close) ==
        On({kind}, << Mark(direction), Skip,
                      If({"except", close}, << Call("insert_element_filler") >>),
                      Expect(close), Close >>)
  IN  << Open("INSERT_EDGE_PATTERN"),
         Choice(<< edge("<-[", "LEFT", "]-"), edge("-[", "RIGHT", "]->"),
                   edge("~[", "UNDIRECTED", "]~"), Else(<< Fail >>) >>) >>
-----------------------------------------------------------------------------
(* Graph types.  Neither the brackets of an edge type nor the word DIRECTED  *)
(* leave anything in the tree, and the closing one is not asked for.         *)

EdgeTypeStart == {"DIRECTED", "UNDIRECTED", "EDGE", "RELATIONSHIP"}

ElementTypeSpecification ==
  << Choice(<< On(EdgeTypeStart, << Call("edge_type_specification") >>),
               Else(<< Call("node_type_specification") >>) >>) >>

OptionalName == If({"name"}, << NameText >>)
LabelPhrase == If({"LABEL", "LABELS", ":", "IS"}, << Call("label_set_phrase") >>)
ImpliedProperties ==
  << Optional("IMPLIES"), Optional("=>"),
     If({"{"}, << Call("property_types_specification") >>) >>

NodeTypeSpecification ==
  Node("NODE_TYPE",
    << Choice(<< On({"NODE", "VERTEX"}, << Skip, Optional("TYPE"), OptionalName >>),
                 On2({"name"}, {"("}, << NameText >>) >>),
       Expect("("),
       Choice(<< On2({"name"}, {"except", ")"}, << Name >>) >>),
       LabelPhrase >> \o ImpliedProperties \o << Expect(")") >>)

EdgeTypeSpecification ==
  Node("EDGE_TYPE",
    << If({"DIRECTED", "UNDIRECTED"}, << Skip >>),
       If({"EDGE", "RELATIONSHIP"}, << Skip, Optional("TYPE"), OptionalName >>),
       If({"("}, << Call("node_type_endpoint") >>),
       If({"-[", "<-[", "~["}, << Skip >>
            \o Node("ELEMENT_FILLER", << LabelPhrase >> \o ImpliedProperties)
            \o << If({"]->", "]-", "]~"}, << Skip >>) >>),
       If({"("}, << Call("node_type_endpoint") >>) >>)

NodeTypeEndpoint ==
  Node("NODE_TYPE",
    << Expect("("),
       Choice(<< On({"name"}, << Name >>),
                 On({":", "IS"}, << Skip, Call("label_set_specification") >>) >>),
       Expect(")") >>)

LabelSetPhrase ==
  << Choice(<<
       On({"LABEL"}, << Skip >> \o Node("LABEL_EXPRESSION", << Mark("NAME"), Name >>)),
       On({"LABELS", ":", "IS"}, << Skip, Call("label_set_specification") >>),
       Else(<< Fail >>) >>) >>

TypedOptional ==
  Choice(<< On({"::"}, << Skip >> \o Typed("DOUBLE_COLON")),
            On({"TYPED"}, << Skip >> \o Typed("KEYWORD")) >>)

PropertyTypesSpecification ==
  Node("PROPERTY_TYPE_LIST",
    << Expect("{"),
       If({"except", "}"},
          List(Node("PROPERTY_TYPE", << NameText, TypedOptional, Call("value_type") >>))),
       Expect("}") >>)

PredefinedTypes == {
  "BOOL", "BOOLEAN", "STRING", "CHAR", "VARCHAR", "BYTES", "BINARY", "VARBINARY", "INT8",
  "INT16", "INT32", "INT64", "INT128", "INT256", "INTEGER8", "INTEGER16", "INTEGER32",
  "INTEGER64", "INTEGER128", "INTEGER256", "SMALLINT", "INT", "INTEGER", "BIGINT", "UINT8",
  "UINT16", "UINT32", "UINT64", "UINT128", "UINT256", "USMALLINT", "UINT", "UBIGINT",
  "DECIMAL", "DEC", "FLOAT16", "FLOAT32", "FLOAT64", "FLOAT128", "FLOAT256", "FLOAT", "REAL",
  "DOUBLE", "DATE", "DATETIME", "TIMESTAMP", "TIME", "DURATION" }

NotNull == If({"NOT"}, << Skip, Expect("NULL"), Mark("NOT_NULL") >>)

(* A kind of reference: its words, the second of them unseen where another *)
(* word is in its place.                                                   *)
AnyValueType ==
  Choice(<<
    On({"VALUE"}, << Skip, Mark("OPEN_UNION") >>),
    On({"PROPERTY"}, << Skip, Skip, Mark("GRAPH_REF") >>),
    On({"GRAPH"}, << Skip, Mark("GRAPH_REF") >>),
    On({"NODE", "VERTEX"}, << Skip, Mark("NODE_REF") >>),
    On({"EDGE", "RELATIONSHIP"}, << Skip, Mark("EDGE_REF") >>),
    On({"RECORD"}, << Skip, Mark("RECORD") >>),
    Else(<< Mark("OPEN_UNION") >>) >>)

RecordType ==
  << Optional("RECORD"), Mark("RECORD"),
     If({"{"},
        << Skip,
           If({"except", "}"},
              List(Node("PROPERTY_TYPE", << NameText, Optional(":"), Call("value_type") >>))),
           Expect("}") >>) >>

(* The parameters of a predefined type are skipped, whatever they are. *)
PredefinedType ==
  << Keep,
     If({"("}, << Skip, SkipWhile({"except", ")"}), Expect(")") >>) >>

ValueType ==
  LET type(kinds, body) == On(kinds, Node("TYPE", body \o << NotNull >>))
  IN  << Choice(<<
           type({"ANY"}, << Skip, AnyValueType >>),
           type({"LIST", "ARRAY"},
                << Skip, Mark("LIST"), If({"<"}, << Skip, Call("value_type"), Expect(">") >>) >>),
           type({"PATH"}, << Skip, Mark("PATH") >>),
           type({"RECORD", "{"}, RecordType),
           On({"NULL", "NOTHING"}, << Skip >> \o Node("TYPE", << Mark("NOTHING") >>)),
           type({"NODE", "VERTEX"}, << Skip, Mark("NODE_REF") >>),
           type({"EDGE", "RELATIONSHIP"}, << Skip, Mark("EDGE_REF") >>),
           type({"BINDING"}, << Skip, Skip, Mark("BINDING_TABLE_REF") >>),
           type({"TABLE"}, << Skip, Mark("BINDING_TABLE_REF") >>),
           type({"PROPERTY"}, << Skip, Skip, Mark("GRAPH_REF") >>),
           type({"GRAPH"}, << Skip, Mark("GRAPH_REF") >>),
           type({"value_type"}, PredefinedType),
           Else(<< Fail >>) >>) >>
-----------------------------------------------------------------------------
(* Clauses of results *)

YieldClause ==
  Node("YIELD", << Expect("YIELD") >> \o List(<< Name, WhenGot(<< Aliased >>) >>))

GroupByClause ==
  Node("GROUP_BY",
    << Expect("GROUP"), Expect("BY"),
       Choice(<< On({"("}, << Skip, Expect(")") >>),
                 Else(List(<< Call("binding_variable_reference") >>)) >>) >>)

(* NULLS is read and forgotten where neither FIRST nor LAST follows it. *)
SortSpecification ==
  << Open("SORT_SPEC"), Expression,
     WhenGot(<<
       Choice(<< On({"ASC", "ASCENDING"}, << Skip, Mark("ASC") >>),
                 On({"DESC", "DESCENDING"}, << Skip, Mark("DESC") >>) >>),
       If({"NULLS"}, << Skip,
         Choice(<< On({"FIRST"}, << Skip, Mark("NULLS_FIRST") >>),
                   On({"LAST"}, << Skip, Mark("NULLS_LAST") >>) >>) >>),
       Close >>) >>

OrderByClause ==
  Node("ORDER_BY", << Expect("ORDER"), Expect("BY") >> \o List(SortSpecification))

NonNegativeInteger ==
  Choice(<< On(NumberKinds, << Number >>), On({"PARAM"}, << Call("parameter") >>),
            Else(<< Fail >>) >>)

LimitClause == Node("LIMIT", << Expect("LIMIT"), NonNegativeInteger >>)

OffsetClause ==
  Node("OFFSET",
    << Choice(<< On({"OFFSET"}, << Skip, Mark("OFFSET") >>),
                 On({"SKIP"}, << Skip, Mark("SKIP") >>) >>),
       NonNegativeInteger >>)

UseGraphClause == Node("USE_GRAPH", << Expect("USE"), Call("graph_expression") >>)

-----------------------------------------------------------------------------
(* Expressions *)

(* The binary operators, from those that bind least to those that bind most; *)
(* the right operand of one is of the next level.                            *)
Precedences ==
  << {"OR", "XOR"}, {"AND"}, {"=", "<>", "<", ">", "<=", ">="}, {"||"}, {"+", "-"}, {"*", "/"} >>

\* Seeded bug: an operator associates to the right.
BinaryRest_FromTheRight(least) ==
  LET operation(level) ==
        On(Precedences[level],
           << Adopt("VALUE_EXPR"), Keep, CallWith("binary", << level >>),
              WhenGot(<< Close, CallWith("binary_rest", << least >>) >>) >>)
  IN  << Choice([i \in 1 .. Len(Precedences) + 1 - least |-> operation(least + i - 1)]) >>

BinaryRest(least) ==
  LET operation(level) ==
        On(Precedences[level],
           << Adopt("VALUE_EXPR"), Keep, CallWith("binary", << level + 1 >>),
              WhenGot(<< Close, CallWith("binary_rest", << least >>) >>) >>)
  IN  << Choice([i \in 1 .. Len(Precedences) + 1 - least |-> operation(least + i - 1)]) >>

Binary(least) == << Call("unary"), WhenGot(<< CallWith("binary_rest", << least >>) >>) >>

ValueExpression == << CallWith("binary", << 1 >>) >>

Variables ==
  << Skip, Expect("(") >> \o List(<< Call("binding_variable_reference") >>) \o << Expect(")") >>

Unary ==
  << Choice(<<
       On({"+", "-", "NOT"},
          << Open("VALUE_EXPR"), Keep, Call("unary"), WhenGot(<< Close >>) >>),
       On({"EXISTS"}, << Call("exists_predicate") >>),
       On({"ALL_DIFFERENT"}, Node("PREDICATE", << Mark("ALL_DIFFERENT") >> \o Variables)),
       On({"SAME"}, Node("PREDICATE", << Mark("SAME") >> \o Variables)),
       On({"PROPERTY_EXISTS"}, Node("PREDICATE",
         << Mark("PROPERTY_EXISTS"), Skip, Expect("("), Call("binding_variable_reference"),
            Expect(","), Name, Expect(")") >>)),
       On2({"PROPERTY"}, {"GRAPH"},
           << Skip, Skip >> \o Node("GRAPH_EXPR", << Call("graph_expression") >>)),
       Else(<< Call("postfix") >>) >>) >>

Postfix ==
  << Call("primary"),
     WhenGot(<< Forever(<<
       On2({"."}, {"name"}, << Skip, Adopt("PROPERTY_REFERENCE"), Name, Close >>),
       On({"IS"}, << Call("is_predicate") >>) >>) >>) >>

(* What may follow IS, and IS NOT; the operand is the first child.  The normal *)
(* form is not kept.                                                            *)
IsPredicate ==
  LET predicate(negation, kinds, mark, rest) ==
        On(kinds, << Skip, Adopt("PREDICATE"), Mark(mark) >> \o negation \o rest \o << Close >>)
      edge == << Expect("OF"), Call("binding_variable_reference") >>
      predicates(negation) ==
        << predicate(negation, {"NULL"}, "NULL", << >>),
           On({"BOOLEAN_LITERAL"},
              << Adopt("VALUE_EXPR"), Mark("IS") >> \o negation \o << Keep, Close >>),
           predicate(negation, {"TYPED", "::"}, "TYPED", << Call("value_type") >>),
           On({"NORMALIZED"},
              << Skip, Adopt("VALUE_EXPR"), Mark("NORMALIZED") >> \o negation
              \o << Optional("NFC"), Optional("NFD"), Optional("NFKC"), Optional("NFKD"), Close >>),
           predicate(negation, {"DIRECTED"}, "DIRECTED", << >>),
           predicate(negation, {"LABELED"}, "LABELED", << Call("label_expression") >>),
           predicate(negation, {"SOURCE"}, "SOURCE_OF", edge),
           predicate(negation, {"DESTINATION"}, "DESTINATION_OF", edge),
           Else(<< Error >>) >>
  IN  << Skip, Choice(<< On({"NOT"}, << Skip, Choice(predicates(<< Mark("NOT") >>)) >>),
                         Else(<< Choice(predicates(<< >>)) >>) >>) >>

ExistsPredicate ==
  LET block(open, close) ==
        On({open},
           << Skip,
              Choice(<<
                On({"MATCH", "OPTIONAL"},
                   Node("GRAPH_PATTERN", << While({"except", close}, << Call("statement") >>) >>)),
                Else(<< Call("graph_pattern") >>) >>),
              Expect(close), Close >>)
  IN  << Open("PREDICATE"), Mark("EXISTS"), Skip,
         Choice(<< block("{", "}"), block("(", ")"), Else(<< Fail >>) >>) >>

BindingVariableReference == Node("BINDING_VAR", << NameText >>)

(* Any token passes for a parameter; the dollars stay in its text here. *)
Parameter == << Leaf("PARAM", "") >>

PropertyKeyValuePair ==
  Node("PROPERTY_SPEC", << NameText, Expect(":"), Expression >>)
Literal(kinds, mark) == On(kinds, << Leaf("LITERAL", mark) >>)
BracketedList(node) == Node(node, << Skip, If({"except", "]"}, List(<< Expression >>)), Expect("]") >>)

Primary ==
  << Choice(<<
       On(NumberKinds, << Number >>),
       Literal(StringKinds, "STRING"),
       Literal({"BYTE_STRING"}, "BYTE_STRING"),
       Literal({"BOOLEAN_LITERAL"}, "BOOLEAN"),
       Literal({"NULL"}, "NULL"),
       On({"PARAM"}, << Call("parameter") >>),
       On2({"DATE", "TIME", "DATETIME", "TIMESTAMP", "DURATION"}, StringKinds,
           << Open("LITERAL"), Keep, Keep, Close >>),
       On({"("}, << Skip, Expression, Expect(")") >>),
       On({"["}, BracketedList("LIST_LITERAL")),
       On({"{"}, << Call("record_literal") >>),
       On({"LIST", "ARRAY"},
          << Skip, Choice(<< On({"["}, BracketedList("LIST_LITERAL")), Else(<< Fail >>) >>) >>),
       On({"RECORD"}, << Skip, Call("record_literal") >>),
       On2({"PATH"}, {"["}, << Skip >> \o BracketedList("PATH_CONSTRUCTOR")),
       On({"CASE", "NULLIF", "COALESCE"}, << Call("case_expression") >>),
       On({"CAST"}, << Call("cast_specification") >>),
       On({"LET"}, Node("LET", << Skip >> \o Declarations
                               \o << Expect("IN"), Expression, Expect("END") >>)),
       On({"VALUE"}, Node("VALUE_EXPR",
         << Skip, Expect("{"), While({"except", "}"}, << Call("statement") >>), Expect("}") >>)),
       On2({"name"}, {"("}, << Call("function_or_aggregate") >>),
       On({"name"}, << Call("binding_variable_reference") >>),
       Else(<< Fail >>) >>) >>

RecordLiteral ==
  Node("RECORD_LITERAL",
    << Expect("{"),
       If({"except", "}"}, List(Node("FIELD", << NameText, Expect(":"), Expression >>))),
       Expect("}") >>)

CaseExpression ==
  Node("CASE",
    << Choice(<<
         On({"NULLIF"}, << Skip, Mark("NULLIF"), Expect("("), Expression, Expect(","),
                           Expression, Expect(")") >>),
         On({"COALESCE"}, << Skip, Mark("COALESCE"), Expect("(") >> \o List(<< Expression >>)
                          \o << Expect(")") >>),
         Else(<< Expect("CASE"), If({"except", "WHEN"}, << Expression >>),
                 While({"WHEN"}, << Skip >> \o Node("VALUE_EXPR",
                                    << Expression, Expect("THEN"), Expression >>)),
                 If({"ELSE"}, << Skip, Expression >>),
                 Expect("END") >>) >>) >>)

CastSpecification ==
  Node("CAST",
    << Expect("CAST"), Expect("("), Expression, Expect("AS"), Call("value_type"), Expect(")") >>)

(* The names of the two tables.  All of them but ELEMENTS are reserved words, *)
(* and a reserved word is no name: they are found under quoted names alone.   *)
Percentiles == {"PERCENTILE_CONT", "PERCENTILE_DISC"}

Aggregates ==
  {"COUNT", "AVG", "MAX", "MIN", "SUM", "COLLECT_LIST", "STDDEV_SAMP", "STDDEV_POP"}
  \union Percentiles

Niladic == {"CURRENT_DATE", "CURRENT_TIME", "CURRENT_TIMESTAMP", "LOCAL_TIMESTAMP"}

FunctionNames ==
  Niladic \union
  {"ABS", "UPPER", "LOWER", "TRIM", "BTRIM", "LTRIM", "RTRIM", "NORMALIZE", "LEFT", "RIGHT",
   "CHAR_LENGTH", "CHARACTER_LENGTH", "BYTE_LENGTH", "OCTET_LENGTH", "PATH_LENGTH",
   "CARDINALITY", "SIZE", "MOD", "SIN", "COS", "TAN", "COT", "SINH", "COSH", "TANH", "ASIN",
   "ACOS", "ATAN", "DEGREES", "RADIANS", "LOG", "LOG10", "LN", "EXP", "POWER", "SQRT", "FLOOR",
   "CEIL", "CEILING", "ELEMENTS", "ELEMENT_ID", "DATE", "TIME", "LOCAL_TIME", "DATETIME",
   "LOCAL_DATETIME", "DURATION", "DURATION_BETWEEN", "ZONED_TIME", "ZONED_DATETIME"}

(* parse_aggregate: the star of COUNT is looked for past the parenthesis. *)
Aggregate(arguments) ==
  Node("AGGREGATE",
    << Keep, Expect("("),
       Choice(<< On({"DISTINCT"}, << Skip, Mark("DISTINCT") >>),
                 On({"ALL"}, << Skip, Mark("ALL") >>) >>) >> \o arguments \o << Expect(")") >>)

FunctionOrAggregate ==
  << Choice(<<
       << << {"count"}, AnyKind, {"*"} >>,
          Node("AGGREGATE", << Keep, Skip, Skip, Expect(")") >>) >>,
       On({"percentile"}, Aggregate(<< Expression, Expect(","), Expression >>)),
       On({"aggregate"}, Aggregate(<< Expression >>)),
       On({"niladic"}, Node("FUNCTION_CALL", << Keep, Expect("("), Expect(")") >>)),
       On({"function"}, Node("FUNCTION_CALL",
         << Keep, Expect("("), If({"except", ")"}, List(<< Expression >>)), Expect(")") >>)),
       Else(<< Fail >>) >>) >>
(* Classes of tokens: of their kinds or, where the code looks a name up in a *)
(* table, of what they decode to.                                            *)
Classes == {"name", "value_type", "count", "percentile", "aggregate", "niladic", "function"}

InClass(token, class) ==
  CASE class = "name" ->
         token.kind \in NonReserved \union {"IDENT", "DELIM_IDENT", "DOUBLE_QUOTED"}
    [] class = "value_type" -> token.kind \in PredefinedTypes
    [] class = "count" -> DecodedText(token) = "COUNT"
    [] class = "percentile" -> DecodedText(token) \in Percentiles
    [] class = "aggregate" -> DecodedText(token) \in Aggregates
    [] class = "niladic" -> DecodedText(token) \in Niladic
    [] class = "function" -> DecodedText(token) \in FunctionNames

Is(token, kinds) ==
  LET listed == token.kind \in kinds \/ \E class \in kinds \intersect Classes : InClass(token, class)
  IN  listed # ("except" \in kinds)

-----------------------------------------------------------------------------
(* The functions by name. *)

Functions == [
  session_set |-> SessionSet, session_set_parameter_name |-> SessionSetParameterName,
  session_reset |-> SessionReset, session_reset_arguments |-> SessionResetArguments,
  start_transaction |-> StartTransaction, end_transaction |-> EndTransaction,
  program_parts |-> ProgramParts, program_activity |-> ProgramActivity,
  program |-> Program \o << ChoiceUnlessFailed(<< On({"except", "EOF"}, << Error >>) >>) >>,
  script |-> Node("PROGRAM", << While({"except", "EOF"}, << Call("program_parts") >>) >>),
  procedure_body |-> ProcedureBody, statement |-> Statement,
  simple_catalog_modifying_statement |-> CatalogModifyingStatement,
  create_schema |-> CreateSchema, drop_schema |-> DropSchema, create_graph |-> CreateGraph,
  create_graph_type |-> CreateGraphType, drop_graph |-> DropGraph,
  drop_graph_type |-> DropGraphType, graph_type_source |-> GraphTypeSource,
  graph_type_source_statement |-> GraphTypeSourceStatement,
  nested_graph_type |-> NestedGraphType, schema_parent_and_name |-> SchemaParentAndName,
  parent_and_name |-> ParentAndName, catalog_parent_reference |-> CatalogParentReference,
  schema_reference |-> SchemaReference, graph_expression |-> GraphExpression,
  graph_reference |-> GraphReference, binding_table_expression |-> BindingTableExpression,
  insert_statement |-> InsertStatement, set_statement |-> SetStatement, set_item |-> SetItem,
  remove_statement |-> RemoveStatement, remove_item |-> RemoveItem,
  delete_statement |-> DeleteStatement, match_statement |-> MatchStatement,
  filter_statement |-> FilterStatement, let_statement |-> LetStatement,
  for_statement |-> ForStatement, order_by_and_page |-> OrderByAndPage,
  return_statement |-> ReturnStatement, select_statement |-> SelectStatement,
  call_statement |-> CallStatement, graph_pattern |-> GraphPattern,
  graph_pattern_binding_table |-> GraphPatternBindingTable, path_pattern |-> PathPattern,
  path_pattern_expression |-> PathPatternExpression, path_term |-> PathTerm,
  path_primary |-> PathPrimary, node_pattern |-> NodePattern, edge_pattern |-> EdgePattern,
  element_filler |-> ElementFiller, insert_element_filler |-> InsertElementFiller,
  parenthesized_path |-> ParenthesizedPath, simplified_path |-> SimplifiedPath,
  label_expression |-> LabelExpression, label_unary |-> LabelUnary,
  label_set_specification |-> LabelSetSpecification,
  graph_pattern_quantifier |-> GraphPatternQuantifier,
  insert_graph_pattern |-> InsertGraphPattern, insert_path_pattern |-> InsertPathPattern,
  insert_node_pattern |-> InsertNodePattern, insert_edge_pattern |-> InsertEdgePattern,
  element_type_specification |-> ElementTypeSpecification,
  node_type_specification |-> NodeTypeSpecification,
  edge_type_specification |-> EdgeTypeSpecification, node_type_endpoint |-> NodeTypeEndpoint,
  label_set_phrase |-> LabelSetPhrase,
  property_types_specification |-> PropertyTypesSpecification, value_type |-> ValueType,
  yield_clause |-> YieldClause, group_by_clause |-> GroupByClause,
  order_by_clause |-> OrderByClause, limit_clause |-> LimitClause,
  offset_clause |-> OffsetClause, use_graph_clause |-> UseGraphClause,
  value_expression |-> ValueExpression, unary |-> Unary, postfix |-> Postfix,
  is_predicate |-> IsPredicate, exists_predicate |-> ExistsPredicate,
  binding_variable_reference |-> BindingVariableReference, parameter |-> Parameter,
  property_key_value_pair |-> PropertyKeyValuePair, primary |-> Primary,
  record_literal |-> RecordLiteral, case_expression |-> CaseExpression,
  cast_specification |-> CastSpecification, function_or_aggregate |-> FunctionOrAggregate ]

Function(f, n) ==
  CASE f = "binary" -> Binary(n[1])
    [] f = "binary_rest" -> BinaryRest(n[1])
    [] f = "simplified_rest" -> SimplifiedRest(n[1], n[2])
    [] OTHER -> Functions[f]
=============================================================================
