--------------------------------- MODULE Parser ---------------------------------
(***************************************************************************)
(* The GQL parser (src/parser/parser.c) reading one text: its token window *)
(* (GqlLexer in include/parser/gql_lexer.h, gql_lexer_peek and             *)
(* gql_lexer_advance in src/parser/lexer.c), its error state and the tree  *)
(* it builds.  What is left to do of the functions that are running is the *)
(* stack todo of the instructions of Grammar; one action runs the first.   *)
(*                                                                         *)
(* A token is lexed when something looks at it and it is not yet in the    *)
(* window.  The window has CAPACITY slots; the tokens before index have    *)
(* been consumed and are dropped when there are THRESHOLD of them.         *)
(* Nothing tests that a token wanted has a slot: where none is left the    *)
(* program writes past the array, and the parse ends here as "overrun".    *)
(***************************************************************************)
EXTENDS Grammar, SequencesExt

CONSTANTS
  Inputs,       \* records [entry, text, meant]: the function called, what it reads,
                \* and the tree that is meant by it, << >> where none is stated
  CAPACITY,     \* GQL_LEXER_TOKEN_CAPACITY
  THRESHOLD     \* GQL_LEXER_COMPACTION_THRESHOLD

ASSUME InputsAssumption ==
  \A i \in Inputs : Len(i.text) \in Nat /\ i.entry \in DOMAIN Functions

(* Whatever has been consumed and not dropped yet, there is room for five.   *)
ASSUME WindowAssumption == CAPACITY \in Nat /\ THRESHOLD \in 1 .. CAPACITY - 4

VARIABLES
  input,        \* the member of Inputs that is being read
  cursor,       \* lexer.position
  window,       \* lexer.tokens, up to token_count
  index,        \* lexer.current_index
  previous,     \* previous_token
  todo,         \* the instructions that are left
  tree,         \* the nodes being built, outermost first; << >> once failed
  got,          \* whether the last function returned a node
  failed,       \* parser.failed
  lost,         \* what was skipped that had a value, and the node it was in
  result        \* running, accepted, rejected or overrun

lexing == << cursor, window, index, previous >>
vars == << input, cursor, window, index, previous, todo, tree, got, failed, lost, result >>

NoToken == [kind |-> "NONE", text |-> "", next |-> 1]
NewNode(kind) == [kind |-> kind, marks |-> << >>, texts |-> << >>, children |-> << >>]

Init ==
  /\ input \in Inputs
  /\ cursor = 1 /\ window = << >> /\ index = 0 /\ previous = NoToken
  /\ todo = << Call(input.entry) >>
  /\ tree = << NewNode("ROOT") >>
  /\ got = TRUE /\ failed = FALSE /\ lost = << >> /\ result = "running"

-----------------------------------------------------------------------------
(* The window *)

Unread == Len(window) - index
Peek(k) == window[index + k + 1]

(* An alternative is refuted by a token of the window; the first that is not *)
(* is the one the code looks at, as far as its conditions go.                *)
Refuted(lookahead) ==
  \E j \in 1 .. Min({Len(lookahead), Unread}) : ~Is(Peek(j - 1), lookahead[j])

Candidate(alts) ==
  Min({i \in 1 .. Len(alts) + 1 : i \in DOMAIN alts => ~Refuted(alts[i][1])})

Bypassed(h) == h.live /\ failed

(* The number of unread tokens that an instruction looks at.  Taking a token *)
(* looks at the one behind it.                                               *)
Wanted(h) ==
  CASE h.op \in {"skip", "keep", "leaf", "number"} -> 2
    [] h.op = "expect" -> IF Unread > 0 /\ Peek(0).kind = h.kind THEN 2 ELSE 1
    [] h.op \in {"error", "fail"} -> 1
    [] h.op \in {"choice", "loop"} ->
         IF Bypassed(h) \/ Candidate(h.alts) \notin DOMAIN h.alts THEN 0
         ELSE Len(h.alts[Candidate(h.alts)][1])
    [] OTHER -> 0

Running == result = "running" /\ todo # << >>
Current == Head(todo)
Ready(op) == Running /\ Current.op = op /\ Wanted(Current) <= Unread

(* ensure_token: one more token is lexed. *)
Lex ==
  /\ Running /\ Wanted(Current) > Unread
  /\ Len(window) < CAPACITY
  /\ LET token == LexOne(input.text, cursor)
     IN  window' = Append(window, token) /\ cursor' = token.next
  /\ UNCHANGED << input, index, previous, todo, tree, got, failed, lost, result >>

Overrun ==
  /\ Running /\ Wanted(Current) > Unread
  /\ Len(window) = CAPACITY
  /\ result' = "overrun"
  /\ UNCHANGED << input, lexing, todo, tree, got, failed, lost >>

\* Seeded bug: the last of the consumed tokens stays where they are dropped.
Advance_KeepsOne ==
  /\ previous' = Peek(0)
  /\ IF index + 1 >= THRESHOLD
     THEN window' = SubSeq(window, index + 1, Len(window)) /\ index' = 0
     ELSE window' = window /\ index' = index + 1
  /\ UNCHANGED cursor

\* Seeded bug: the consumed tokens are dropped one token too late.
Advance_Late ==
  /\ previous' = Peek(0)
  /\ IF index >= THRESHOLD
     THEN window' = SubSeq(window, index + 2, Len(window)) /\ index' = 0
     ELSE window' = window /\ index' = index + 1
  /\ UNCHANGED cursor

\* Seeded bug: the consumed tokens are never dropped.
Advance_NeverDrops ==
  previous' = Peek(0) /\ window' = window /\ index' = index + 1 /\ UNCHANGED cursor

(* gql_lexer_advance, and the consumed tokens dropped at the threshold. *)
Advance ==
  /\ previous' = Peek(0)
  /\ IF index + 1 >= THRESHOLD
     THEN window' = SubSeq(window, index + 2, Len(window)) /\ index' = 0
     ELSE window' = window /\ index' = index + 1
  /\ UNCHANGED cursor
-----------------------------------------------------------------------------
(* The tree *)

(* A token with a value of its own: a name, a literal or a parameter. *)
Valued(token) ==
  token.kind \in NumberKinds \union StringKinds
                 \union {"IDENT", "DELIM_IDENT", "BYTE_STRING", "BOOLEAN_LITERAL", "PARAM"}

Value(token) ==
  IF token.kind \in NumberKinds THEN NumberValue(token) ELSE << "TEXT", DecodedText(token) >>

WithMark(node, mark) == IF mark = "" THEN node ELSE [node EXCEPT !.marks = Append(@, mark)]

(* A node that takes a token: what has no value is a mark. *)
WithToken(node, token) ==
  IF Valued(token) THEN [node EXCEPT !.texts = Append(@, Value(token))]
  ELSE WithMark(node, token.text)

Top == tree[Len(tree)]
SetTop(node) == [tree EXCEPT ![Len(tree)] = node]
AddChild(node, child) == [node EXCEPT !.children = Append(@, child)]
LastChild(node) == node.children[Len(node.children)]
WithoutLastChild(node) == [node EXCEPT !.children = SubSeq(@, 1, Len(@) - 1)]

(* A parser that has failed goes on, but nobody will see what it builds. *)
Build(grown) == tree' = IF failed THEN tree ELSE grown

Reject == failed' = TRUE /\ tree' = << >>

-----------------------------------------------------------------------------
(* One action per instruction *)

Continue(instructions) == todo' = instructions \o Tail(todo)

SkipToken ==
  /\ Ready("skip")
  /\ Advance /\ Continue(<< >>)
  /\ lost' = IF ~failed /\ Valued(Peek(0))
             THEN Append(lost, [in |-> Top.kind, value |-> Value(Peek(0))]) ELSE lost
  /\ UNCHANGED << input, tree, got, failed, result >>

KeepToken ==
  /\ Ready("keep")
  /\ Advance /\ Continue(<< >>)
  /\ Build(SetTop(WithToken(Top, Peek(0))))
  /\ UNCHANGED << input, got, failed, lost, result >>

MakeLeaf ==
  /\ Ready("leaf")
  /\ Advance /\ Continue(<< >>)
  /\ Build(SetTop(AddChild(Top, WithToken(WithMark(NewNode(Current.node), Current.mark), Peek(0)))))
  /\ got' = TRUE
  /\ UNCHANGED << input, failed, lost, result >>

MakeNumber ==
  /\ Ready("number")
  /\ Advance /\ Continue(<< >>)
  /\ Build(SetTop(AddChild(Top, WithToken(NewNode("LITERAL"), Peek(0)))))
  /\ got' = TRUE
  /\ UNCHANGED << input, failed, lost, result >>

ExpectToken ==
  /\ Ready("expect")
  /\ Continue(<< >>)
  /\ IF Peek(0).kind = Current.kind
     THEN Advance /\ UNCHANGED << tree, failed >>
     ELSE Reject /\ UNCHANGED lexing
  /\ UNCHANGED << input, got, lost, result >>

ReportError ==
  /\ Ready("error")
  /\ Reject /\ Continue(<< >>)
  /\ UNCHANGED << input, lexing, got, lost, result >>

FailFunction ==
  /\ Ready("fail")
  /\ Reject /\ Continue(<< >>)
  /\ got' = FALSE
  /\ UNCHANGED << input, lexing, lost, result >>

OpenNode ==
  /\ Ready("open")
  /\ Build(Append(tree, NewNode(Current.node))) /\ Continue(<< >>)
  /\ UNCHANGED << input, lexing, got, failed, lost, result >>

AdoptChild ==
  /\ Ready("adopt")
  /\ Build(Append(SetTop(WithoutLastChild(Top)), AddChild(NewNode(Current.node), LastChild(Top))))
  /\ Continue(<< >>)
  /\ UNCHANGED << input, lexing, got, failed, lost, result >>

MarkNode ==
  /\ Ready("mark")
  /\ Build(SetTop(WithMark(Top, Current.mark))) /\ Continue(<< >>)
  /\ UNCHANGED << input, lexing, got, failed, lost, result >>

CloseNode ==
  /\ Ready("close")
  /\ Build(LET outer == SubSeq(tree, 1, Len(tree) - 1)
           IN  [outer EXCEPT ![Len(outer)] = AddChild(@, Top)])
  /\ got' = TRUE /\ Continue(<< >>)
  /\ UNCHANGED << input, lexing, failed, lost, result >>

Chosen(h) ==
  IF Bypassed(h) \/ Candidate(h.alts) \notin DOMAIN h.alts THEN << >>
  ELSE h.alts[Candidate(h.alts)][2]

Choose ==
  /\ Ready("choice")
  /\ Continue(Chosen(Current))
  /\ UNCHANGED << input, lexing, tree, got, failed, lost, result >>

Repeat ==
  /\ Ready("loop")
  /\ LET body == Chosen(Current) IN Continue(IF body = << >> THEN << >> ELSE body \o << Current >>)
  /\ UNCHANGED << input, lexing, tree, got, failed, lost, result >>

CallFunction ==
  /\ Ready("call")
  /\ Continue(Function(Current.f, Current.n))
  /\ UNCHANGED << input, lexing, tree, got, failed, lost, result >>

TestResult ==
  /\ Ready("whengot")
  /\ Continue(IF got THEN Current.body ELSE << >>)
  /\ UNCHANGED << input, lexing, tree, got, failed, lost, result >>

Finish ==
  /\ result = "running" /\ todo = << >>
  /\ result' = IF failed THEN "rejected" ELSE "accepted"
  /\ UNCHANGED << input, lexing, todo, tree, got, failed, lost >>

Next ==
  \/ Lex \/ Overrun
  \/ SkipToken \/ KeepToken \/ MakeLeaf \/ MakeNumber \/ ExpectToken
  \/ ReportError \/ FailFunction
  \/ OpenNode \/ AdoptChild \/ MarkNode \/ CloseNode
  \/ Choose \/ Repeat \/ CallFunction \/ TestResult \/ Finish

(* One thread runs the parser and nothing blocks it. *)
Spec == Init /\ [][Next]_vars /\ WF_vars(Next)

-----------------------------------------------------------------------------
(* Properties *)

(* The state stays in its types.  Fewer than THRESHOLD tokens of the window   *)
(* are consumed ones (gql_lexer_advance), and nodes are held just as long as  *)
(* the parser has not failed: the root, below those that are open.            *)
TypeOK ==
  /\ cursor \in 1 .. Len(input.text) + 1
  /\ Len(window) \in index .. CAPACITY /\ index \in 0 .. THRESHOLD - 1
  /\ previous.next \in 1 .. cursor
  /\ got \in BOOLEAN /\ failed \in BOOLEAN
  /\ failed = (tree = << >>)
  /\ ~failed => tree[1].kind = "ROOT" /\ \A i \in 2 .. Len(tree) : tree[i].kind # "ROOT"
  /\ result \in {"running", "accepted", "rejected", "overrun"}

(* Whatever has been looked at, taken and dropped, what the parser reads next *)
(* is what stands in the text behind the token it took last: every token of   *)
(* the window starts where the one before it ended, and lexing goes on behind *)
(* the last.  No token is read twice and none is passed over when the window  *)
(* is compacted under a lookahead of several tokens.                          *)
WindowIsText ==
  LET unread == SubSeq(window, index + 1, Len(window))
      before(k) == IF k = 1 THEN previous.next ELSE unread[k - 1].next
  IN  /\ \A k \in DOMAIN unread : unread[k] = LexOne(input.text, before(k))
      /\ cursor = before(Len(unread) + 1)

(* lex_one tries the operators one after the other: whatever it takes, no     *)
(* longer one of its table stands there (<- is not taken for <-[ or <->).     *)
LongestOperator ==
  \A k \in DOMAIN window :
    LET token == window[k] IN
    token.kind \in Range(Operators) =>
      \A n \in DOMAIN Operators :
        StandsAt(input.text, token.next - Len(token.text), Operators[n]) =>
          Len(Operators[n]) <= Len(token.text)

(* The window has a slot for every token a function looks at, wherever in the *)
(* window its first token happens to lie, but for one: create_is_graph_type   *)
(* wants a sixth token where CREATE OR . PROPERTY GRAPH stands, and there is  *)
(* none behind three consumed tokens that have not been dropped yet.          *)
LookaheadFits ==
  Running /\ Wanted(Current) > Unread
    /\ (Len(window) = CAPACITY \/ Unread > CAPACITY - THRESHOLD) =>
  /\ Unread = 5
  /\ Peek(0).kind = "CREATE" /\ Peek(1).kind = "OR"
  /\ Peek(3).kind = "PROPERTY" /\ Peek(4).kind = "GRAPH"

(* A text that was printed from a tree is read back as that tree, by itself:  *)
(* parentheses are needed where an operator binds less than the one around it *)
(* or stands on its right and binds as much, and nowhere else; the direction  *)
(* of an edge is that of the brackets around it; what is quoted is what was   *)
(* meant.                                                                     *)
ReadsBack ==
  result # "running" /\ input.meant # << >> =>
    result = "accepted" /\ tree[1].children = input.meant

(* A loop that reads up to a closing parenthesis has come to the end of the   *)
(* text: gql_lexer_advance gives the end again and again.                     *)
SkipsTheEnd ==
  /\ \E i \in DOMAIN todo : todo[i].op = "loop" /\ todo[i].alts[1][1] = << {"except", ")"} >>
  /\ result = "running" /\ ~failed /\ Unread > 0 /\ Peek(0).kind = "EOF"

(* Reading a text comes to its end, accepted, rejected or overrun, unless a   *)
(* parenthesis is left open in one of two places: in a path between           *)
(* parentheses and in the parameters of a type (parse_parenthesized_path and  *)
(* parse_value_type do not look for the end).                                 *)
ParsingEnds == <>[](result # "running" \/ SkipsTheEnd)

(* Reading a text comes to its end, whatever the text.  The parser's tests    *)
(* call it with texts that break off and expect an error code.                *)
EveryParseEnds == <>(result # "running")
=============================================================================
