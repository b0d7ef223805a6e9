------------------------------ MODULE ParserValues ------------------------------
(* What becomes of the names, literals and parameters of a text that the parser    *)
(* accepts.                                                                        *)
EXTENDS Parser

(* The tokens of a text, to its end. *)
RECURSIVE Tokens(_, _)
Tokens(text, from) ==
  LET token == LexOne(text, from)
  IN  IF token.kind = "EOF" THEN << >> ELSE << token >> \o Tokens(text, token.next)

(* The values in a tree. *)
RECURSIVE TextsOf(_)
TextsOf(node) == node.texts \o FlattenSeq([i \in DOMAIN node.children |-> TextsOf(node.children[i])])

Occurrences(value, values) == Cardinality({i \in DOMAIN values : values[i] = value})

(* Every name, literal and parameter of an accepted text is in the tree, once *)
(* for each time it was written, except for those skipped in the prefix of a  *)
(* path, in a simplified path, between the parentheses of a path and between  *)
(* those of a type: no function forgets a node it was given, none adds one    *)
(* twice, and backing out of a rule never repeats what it has read.           *)
NamesKept ==
  result = "accepted" =>
    LET written == LET valued == SelectSeq(Tokens(input.text, 1), Valued)
                   IN  [i \in DOMAIN valued |-> Value(valued[i])]
        kept == TextsOf(tree[1]) \o [i \in DOMAIN lost |-> lost[i].value]
    IN  /\ Len(written) = Len(kept)
        /\ \A value \in Range(written) : Occurrences(value, written) = Occurrences(value, kept)
        /\ \A i \in DOMAIN lost : lost[i].in \in {"NAME", "PATH_EXPRESSION", "TYPE"}
=================================================================================
