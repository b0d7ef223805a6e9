------------------------------ MODULE GrammarShape ------------------------------
(* The shape of the functions of Grammar: on every way through a function the      *)
(* nodes it makes are opened and closed in turn, until it gives up.  The machine   *)
(* of Parser relies on it wherever a function closes the node being built; that    *)
(* the grammar has this shape is evaluated once, over all its instructions.        *)
(*                                                                                 *)
(* The instructions that skip a simplified path are a family of their own, one     *)
(* for each number of open parentheses; only those that start it are in here.      *)
EXTENDS Grammar

(* The bodies of the functions, a call of each, and every instruction in them or   *)
(* nested there.                                                                   *)
Levels == 1 .. Len(Precedences) + 1

Bodies ==
  {Functions[f] : f \in DOMAIN Functions} \union {<< Call(f) >> : f \in DOMAIN Functions}
  \union {Binary(least) : least \in Levels} \union {BinaryRest(least) : least \in Levels}

Parts(h) ==
  CASE h.op \in {"choice", "loop"} -> {h.alts[i][2] : i \in DOMAIN h.alts}
    [] h.op = "whengot" -> {h.body}
    [] OTHER -> {}

InstructionsOf(bodies) == UNION {{b[i] : i \in DOMAIN b} : b \in bodies}

NestingDepth == 8
Instructions ==
  LET within[n \in 0 .. NestingDepth] ==
        IF n = 0 THEN InstructionsOf(Bodies)
        ELSE within[n - 1] \union InstructionsOf(UNION {Parts(h) : h \in within[n - 1]})
  IN  within[NestingDepth]

(* What gives the parse up: nothing is built any more. *)
GivesUp(h) == h.op \in {"error", "fail"}

(* By how many nodes more are open behind an instruction than before it; that *)
(* of a condition is what one of its bodies that does not give up comes to.   *)
Net ==
  LET net[h \in Instructions] ==
        LET opened[b \in Parts(h), i \in Nat] == IF i = 0 THEN 0 ELSE opened[b, i - 1] + net[b[i]]
            complete == {b \in Parts(h) : \A i \in DOMAIN b : ~GivesUp(b[i])}
        IN  CASE h.op \in {"open", "adopt"} -> 1
              [] h.op = "close" -> -1
              [] h.op \in {"choice", "whengot"} /\ complete # {} ->
                   LET b == CHOOSE b \in complete : TRUE IN opened[b, Len(b)]
              [] OTHER -> 0
  IN  [h \in Instructions |-> net[h]]

(* How many more nodes are open behind each instruction of a body that opens  *)
(* net of them in all.                                                        *)
Heights(b, net) ==
  LET height[i \in 0 .. Len(b)] ==
        CASE i = 0 -> 0
          [] \E j \in 1 .. i : GivesUp(b[j]) -> net
          [] OTHER -> height[i - 1] + Net[b[i]]
  IN  height

(* From start to end no more nodes are closed than are closed in all. *)
Balanced(b, net) ==
  LET height == Heights(b, net) IN
  /\ b \in Seq(Instructions)
  /\ height \in [0 .. Len(b) -> Int]
  /\ height[0] = 0 /\ height[Len(b)] = net
  /\ \A i \in 1 .. Len(b) :
       /\ height[i] >= 0 \/ height[i] >= net
       /\ height[i] = height[i - 1] + Net[b[i]] \/ GivesUp(b[i])

(* The functions that can be called, with their arguments. *)
Callable(f, n) ==
  \/ f \in DOMAIN Functions
  \/ f \in {"binary", "binary_rest"} /\ \E least \in Levels : n = << least >>
  \/ f = "simplified_rest" /\ \E close \in {"/-", "/~", "/->"} : n = << close, 0 >>

(* A lookahead of more than five tokens is that for CREATE OR . PROPERTY GRAPH. *)
LongLookahead == << {"CREATE"}, {"OR"}, AnyKind, {"PROPERTY"}, {"GRAPH"}, {"TYPE"} >>

ShapeOf(h) ==
  CASE h.op \in {"open", "adopt"} -> Net[h] = 1 /\ h.node # "ROOT"
    [] h.op = "close" -> Net[h] = -1
    [] h.op = "choice" ->
         /\ Net[h] \in Int /\ h.live \in BOOLEAN
         /\ Net[h] = 0 \/ \E i \in DOMAIN h.alts : h.alts[i][1] = << >>
    [] h.op = "loop" -> Net[h] = 0 /\ h.live \in BOOLEAN
    [] h.op = "whengot" -> Net[h] \in Int
    [] h.op = "call" -> Net[h] = 0 /\ Callable(h.f, h.n)
    [] h.op \in {"leaf", "number", "skip", "keep", "expect", "mark", "error", "fail"} -> Net[h] = 0
    [] OTHER -> FALSE

AlternativesOf(h) ==
  /\ Len(h.alts) \in Nat /\ DOMAIN h.alts = 1 .. Len(h.alts)
  /\ \A i \in DOMAIN h.alts :
       Len(h.alts[i][1]) \in 0 .. 5 \/ h.alts[i][1] = LongLookahead

ASSUME GrammarAssumption ==
  /\ {"binary", "binary_rest", "simplified_rest"} \intersect DOMAIN Functions = {}
  /\ \A b \in Bodies : Balanced(b, 0)
  /\ \A h \in Instructions :
       /\ ShapeOf(h)
       /\ h.op \in {"choice", "loop"} => AlternativesOf(h)
       /\ \A b \in Parts(h) : Balanced(b, Net[h])
=================================================================================
