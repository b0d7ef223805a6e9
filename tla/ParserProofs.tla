------------------------------ MODULE ParserProofs ------------------------------
(* Proofs about Parser for every set of texts, every capacity of the window and    *)
(* every threshold that leaves room for five tokens.                               *)
(*                                                                                 *)
(* WindowInv: the unread tokens of the window follow one another in the text, from *)
(* the token taken last to the cursor (Chain), and every token of the window is    *)
(* one that lex_one gives at a position of the text (TextTokens).  It needs that   *)
(* lex_one never goes back and ends in the text, whatever it reads (the lemmas on  *)
(* the lexer), and that it tries the longer operators first.                       *)
(*                                                                                 *)
(* MachineInv: the instructions left to do close the nodes that are open, down to  *)
(* the root, and never the root itself (Held).  Running an instruction puts the    *)
(* body of a function or of a condition before the rest; that every body opens and *)
(* closes its nodes in turn is GrammarAssumption, a statement without constants    *)
(* about the instructions of Grammar, which TLC evaluates.  The calls that skip a  *)
(* simplified path, one for each depth of its parentheses, are dealt with here.    *)
EXTENDS Parser, GrammarShape, CommonProofs, SequenceTheorems

-----------------------------------------------------------------------------
(* The lexer *)

\* A character that is there stands at a position of the text.
LEMMA CharInText ==
  ASSUME NEW text, Len(text) \in Nat, NEW i, Char(text, i) # NoChar
  PROVE  i \in 1 .. Len(text)
BY DEF Char

\* None of the characters that have a meaning is the lack of one.
LEMMA NoCharDiffers ==
  NoChar \notin Delimiters \union {Escape} \union WordCharacters \union HexDigits
<1>1. NoChar \notin Delimiters \union {Escape}
  BY Zenon DEF NoChar, Delimiters, Single, Double, Accent, Escape
<1>2. NoChar \notin WordCharacters
  BY ZenonT(60) DEF NoChar, WordCharacters, Letters, Digits
<1>3. NoChar \notin HexDigits
  BY ZenonT(60) DEF NoChar, HexDigits, Digits
<1> QED BY <1>1, <1>2, <1>3

\* The first of some positions of a text is one of them.
LEMMA FirstPosition ==
  ASSUME NEW n \in Nat, NEW S \in SUBSET (1 .. n), S # {}
  PROVE  Min(S) \in S /\ \A i \in S : Min(S) <= i
<1>1. S \in SUBSET Nat
  OBVIOUS
<1> QED BY <1>1, MinIsLeast

\* A span of characters ends in the text or right behind it.
LEMMA SpanInText ==
  ASSUME NEW text, Len(text) \in Nat, NEW i \in 1 .. Len(text) + 1, NEW S, NoChar \notin S
  PROVE  Span(text, i, S) \in i .. Len(text) + 1
<1> DEFINE ends == {j \in i .. Len(text) + 1 : Char(text, j) \notin S}
<1>1. Len(text) + 1 \in ends
  <2>1. Len(text) + 1 \notin 1 .. Len(text)
    OBVIOUS
  <2> QED BY <2>1 DEF Char
<1>2. ends \in SUBSET Nat
  OBVIOUS
<1>3. PICK j \in ends : \A m \in ends : j <= m
  <2> HIDE DEF ends
  <2> QED BY <1>1, <1>2, MinIsLeast
<1>4. \A m \in i .. j - 1 : Char(text, m) \in S
  BY <1>3
<1>5. \E k \in i .. Len(text) + 1 :
        Char(text, k) \notin S /\ \A m \in i .. k - 1 : Char(text, m) \in S
  BY <1>4
<1> QED BY <1>5 DEF Span

\* The recursion of a scan: where it comes to rest from each position.
Rests(rest, step) ==
  \A j \in DOMAIN step : rest[j] = IF step[j] = j THEN j ELSE rest[step[j]]

\* A scan that never goes back has such a function.
LEMMA ScanRests ==
  ASSUME NEW n \in Nat, NEW step \in [1 .. n -> 1 .. n], \A j \in 1 .. n : j <= step[j]
  PROVE  \E rest \in [1 .. n -> 1 .. n] : Rests(rest, step)
<1> DEFINE Rest(g, j) == IF step[j] = j THEN j ELSE g[step[j]]
           Solves(g, m) == \A j \in 1 .. n : j > n - m => g[j] = Rest(g, j)
           H == {m \in 0 .. n : \E g \in [1 .. n -> 1 .. n] : Solves(g, m)}
<1>0. \A j \in 1 .. n : step[j] \in 1 .. n
  OBVIOUS
<1>1. 0 \in H
  <2> DEFINE g == [j \in 1 .. n |-> j]
  <2>1. g \in [1 .. n -> 1 .. n] /\ Solves(g, 0) /\ 0 \in 0 .. n
    OBVIOUS
  <2> HIDE DEF g, Solves
  <2> QED BY <2>1
<1>2. \A m \in 0 .. n - 1 : m \in H => m + 1 \in H
  <2> SUFFICES ASSUME NEW m \in 0 .. n - 1, NEW g \in [1 .. n -> 1 .. n], Solves(g, m)
               PROVE  m + 1 \in H
    OBVIOUS
  <2>0. PICK k \in 1 .. n : k = n - m /\ n - (m + 1) = k - 1
    OBVIOUS
  <2> DEFINE h == [j \in 1 .. n |-> IF j = k THEN (IF step[k] = k THEN k ELSE g[step[k]]) ELSE g[j]]
  <2>2. h \in [1 .. n -> 1 .. n]
    BY <1>0
  <2>3. \A j \in 1 .. n : j > k - 1 => h[j] = Rest(h, j)
    <3> SUFFICES ASSUME NEW j \in 1 .. n, j > k - 1 PROVE h[j] = Rest(h, j)
      OBVIOUS
    <3>1. CASE j = k
      <4>1. CASE step[k] = k
        BY <3>1, <4>1
      <4>2. CASE step[k] # k
        <5>1. h[step[k]] = g[step[k]] /\ h[k] = g[step[k]]
          BY <1>0, <4>2
        <5> QED BY <3>1, <4>2, <5>1
      <4> QED BY <4>1, <4>2
    <3>2. CASE j # k
      <4>1. j > n - m /\ j > k
        BY <2>0, <3>2
      <4>2. g[j] = Rest(g, j)
        BY <4>1
      <4>3. step[j] \in 1 .. n /\ step[j] # k
        BY <1>0, <4>1
      <4>4. h[j] = g[j] /\ h[step[j]] = g[step[j]]
        BY <3>2, <4>3
      <4> QED BY <4>2, <4>4
    <3> QED BY <3>1, <3>2
  <2> HIDE DEF h, Rest
  <2>4. Solves(h, m + 1)
    BY <2>0, <2>3
  <2>5. m + 1 \in 0 .. n
    OBVIOUS
  <2> HIDE DEF Solves
  <2> QED BY <2>2, <2>4, <2>5
<1>3. n \in H
  <2>1. H \in SUBSET Nat
    OBVIOUS
  <2> HIDE DEF H
  <2>2. 0 .. n \subseteq H
    BY <1>1, <1>2, <2>1, UpTo
  <2> QED BY <2>2
<1>4. PICK g \in [1 .. n -> 1 .. n] : Solves(g, n)
  <2> HIDE DEF Solves
  <2> QED BY <1>3
<1>5. \A j \in 1 .. n : j > n - n
  OBVIOUS
<1>6. \A j \in 1 .. n : g[j] = Rest(g, j)
  <2> HIDE DEF Rest
  <2> QED BY <1>4, <1>5
<1> HIDE DEF H, Solves
<1>7. DOMAIN step = 1 .. n
  OBVIOUS
<1> QED BY <1>6, <1>7 DEF Rests

\* It comes to rest where it started or further on.
LEMMA RestsOnward ==
  ASSUME NEW n \in Nat, NEW step \in [1 .. n -> 1 .. n], \A j \in 1 .. n : j <= step[j],
         NEW rest, Rests(rest, step)
  PROVE  \A j \in 1 .. n : rest[j] \in 1 .. n /\ j <= rest[j]
<1> DEFINE Ahead(j) == rest[j] \in 1 .. n /\ j <= rest[j]
           G == {m \in 0 .. n : \A j \in 1 .. n : j > n - m => Ahead(j)}
<1>0. \A j \in 1 .. n : step[j] \in 1 .. n /\ j <= step[j] /\ rest[j] = IF step[j] = j THEN j ELSE rest[step[j]]
  BY DEF Rests
<1>1. 0 \in G
  OBVIOUS
<1>2. \A m \in 0 .. n - 1 : m \in G => m + 1 \in G
  <2> SUFFICES ASSUME NEW m \in 0 .. n - 1, m \in G,
                      NEW j \in 1 .. n, j > n - (m + 1)
               PROVE  Ahead(j)
    <3>1. \A m \in 0 .. n - 1 : m + 1 \in 0 .. n
      OBVIOUS
    <3> HIDE DEF Ahead
    <3> QED BY <3>1
  <2>1. step[j] \in 1 .. n /\ j <= step[j]
    BY <1>0
  <2>2. CASE step[j] = j
    BY <1>0, <2>1, <2>2
  <2>3. CASE step[j] # j
    <3>0. PICK k \in 1 .. n : k = step[j]
      BY <1>0
    <3>1. k > n - m /\ j <= k
      BY <2>1, <2>3, <3>0
    <3>2. Ahead(k)
      BY <3>1
    <3>3. rest[j] = rest[k]
      BY <1>0, <2>3, <3>0
    <3> QED BY <3>1, <3>2, <3>3
  <2> QED BY <2>2, <2>3
<1>3. n \in G
  <2>1. G \in SUBSET Nat
    OBVIOUS
  <2> HIDE DEF G
  <2>2. 0 .. n \subseteq G
    BY <1>1, <1>2, <2>1, UpTo
  <2> QED BY <2>2
<1>4. \A j \in 1 .. n : j > n - n
  OBVIOUS
<1> HIDE DEF Ahead
<1>5. \A j \in 1 .. n : Ahead(j)
  BY <1>3, <1>4
<1> QED BY <1>5 DEF Ahead

\* So does the scan.
LEMMA ScanOnward ==
  ASSUME NEW n \in Nat, NEW step \in [1 .. n -> 1 .. n], \A j \in 1 .. n : j <= step[j],
         NEW from \in 1 .. n
  PROVE  Scan(step, from) \in from .. n
<1> DEFINE Equation(g) == g = [j \in DOMAIN step |-> IF step[j] = j THEN j ELSE g[step[j]]]
           rest == CHOOSE g : Equation(g)
<1>1. PICK g \in [1 .. n -> 1 .. n] : Rests(g, step)
  BY ScanRests
<1>2. Equation(g)
  BY <1>1 DEF Rests
<1>3. Equation(rest)
  <2> HIDE DEF Equation
  <2> QED BY <1>2
<1>4. Scan(step, from) = rest[from]
  BY DEF Scan
<1>5. Rests(rest, step)
  <2> HIDE DEF rest
  <2> QED BY <1>3 DEF Rests
<1> HIDE DEF rest
<1>6. rest[from] \in 1 .. n /\ from <= rest[from]
  BY <1>5, RestsOnward
<1>7. \A r \in 1 .. n : from <= r => r \in from .. n
  OBVIOUS
<1> QED BY <1>4, <1>6, <1>7

-----------------------------------------------------------------------------
(* Where tokens end *)

\* The functions that skip and those that end quoted text stay in the text.
LEMMA SkippedInText ==
  ASSUME NEW text, Len(text) \in Nat, NEW from \in 1 .. Len(text) + 1
  PROVE  SkipBlanksAndComments(text, from) \in from .. Len(text) + 1
<1> DEFINE n == Len(text)
           two(j) == IF j < n THEN SubSeq(text, j, j + 1) ELSE NoChar
           line_end(j) == Min({m \in j .. n + 1 : Char(text, m) \in {"\n", "\r", NoChar}})
           step == [j \in 1 .. n + 1 |->
                      CASE Char(text, j) = NoChar -> j
                        [] Char(text, j) \in Blanks -> j + 1
                        [] two(j) = "/*" -> CommentEnd(text, j + 2)
                        [] two(j) \in {"//", "--"} -> line_end(j + 2)
                        [] OTHER -> j]
<1>1. ASSUME NEW j \in 1 .. n
      PROVE  CommentEnd(text, j + 2) \in j .. n + 1
  <2> DEFINE ends == {m \in j + 2 .. n - 1 : SubSeq(text, m, m + 1) = "*/"}
  <2>1. CASE ends = {}
    BY <2>1 DEF CommentEnd
  <2>2. CASE ends # {}
    <3>1. ends \in SUBSET Nat
      OBVIOUS
    <3>2. Min(ends) \in ends
      <4> HIDE DEF ends
      <4> QED BY <2>2, <3>1, MinIsLeast
    <3>3. CommentEnd(text, j + 2) = Min(ends) + 2
      BY <2>2 DEF CommentEnd
    <3>4. \A m \in ends : m + 2 \in j .. n + 1
      OBVIOUS
    <3> HIDE DEF ends
    <3> QED BY <3>2, <3>3, <3>4
  <2> QED BY <2>1, <2>2
<1>2. ASSUME NEW j \in 1 .. n - 1
      PROVE  line_end(j + 2) \in j .. n + 1
  <2> DEFINE ends == {m \in j + 2 .. n + 1 : Char(text, m) \in {"\n", "\r", NoChar}}
  <2>1. n + 1 \in ends
    BY DEF Char
  <2>2. ends \in SUBSET Nat
    OBVIOUS
  <2>3. Min(ends) \in ends
    <3> HIDE DEF ends
    <3> QED BY <2>1, <2>2, MinIsLeast
  <2>4. \A m \in ends : m \in j .. n + 1
    OBVIOUS
  <2> HIDE DEF ends
  <2>5. Min(ends) \in j .. n + 1
    BY <2>3, <2>4
  <2> QED BY <2>5 DEF ends
<1>4. \A j \in 1 .. n : two(j) \in {"//", "--"} => j \in 1 .. n - 1
  <2>1. NoChar \notin {"//", "--"}
    BY Zenon DEF NoChar
  <2> QED BY <2>1
<1> HIDE DEF two, line_end
<1>5. \A j \in 1 .. n + 1 : step[j] \in 1 .. n + 1 /\ j <= step[j]
  <2> SUFFICES ASSUME NEW j \in 1 .. n + 1 PROVE step[j] \in j .. n + 1
    OBVIOUS
  <2>1. CASE j = n + 1
    <3>1. Char(text, j) = NoChar /\ two(j) = NoChar
      BY <2>1 DEF Char, two
    <3>2. NoChar \notin Blanks \union {"/*", "//", "--"}
      BY Zenon DEF NoChar, Blanks
    <3> QED BY <2>1, <3>1, <3>2
  <2>2. CASE j \in 1 .. n
    <3>1. CommentEnd(text, j + 2) \in j .. n + 1
      BY <1>1, <2>2
    <3>2. two(j) \in {"//", "--"} => line_end(j + 2) \in j .. n + 1
      BY <1>2, <1>4, <2>2
    <3>3. \/ step[j] \in {j + 1, j, CommentEnd(text, j + 2)}
          \/ two(j) \in {"//", "--"} /\ step[j] = line_end(j + 2)
      OBVIOUS
    <3> HIDE DEF step
    <3> QED BY <2>2, <3>1, <3>2, <3>3
  <2> QED BY <2>1, <2>2
<1>6. step \in [1 .. n + 1 -> 1 .. n + 1]
  <2>1. step = [j \in 1 .. n + 1 |-> step[j]]
    OBVIOUS
  <2> HIDE DEF step
  <2> QED BY <1>5, <2>1
<1>7. SkipBlanksAndComments(text, from) = Scan(step, from)
  BY DEF SkipBlanksAndComments, two, line_end
<1> HIDE DEF step
<1> QED BY <1>5, <1>6, <1>7, ScanOnward

LEMMA QuoteInText ==
  ASSUME NEW text, Len(text) \in Nat, NEW i \in 1 .. Len(text) + 1,
         NEW delimiter \in Delimiters
  PROVE  QuoteEnd(text, i, delimiter) \in {0} \union i .. Len(text) + 1
<1> DEFINE n == Len(text) + 2
           step == [j \in 1 .. n |->
                      LET c == Char(text, j) IN
                      CASE c = NoChar \/ (c = delimiter /\ Char(text, j + 1) # delimiter) -> j
                        [] c \in {delimiter, Escape} -> j + 2
                        [] OTHER -> j + 1]
           end == Scan(step, i)
<1>0. NoChar \notin {delimiter, Escape}
  BY NoCharDiffers
<1>1. \A j \in 1 .. n : step[j] \in 1 .. n /\ j <= step[j]
  <2> TAKE j \in 1 .. n
  <2>1. CASE j \notin 1 .. Len(text)
    <3>1. Char(text, j) = NoChar
      BY <2>1 DEF Char
    <3> QED BY <1>0, <3>1
  <2>2. CASE j \in 1 .. Len(text)
    <3>1. step[j] \in {j, j + 1, j + 2}
      OBVIOUS
    <3> HIDE DEF step
    <3> QED BY <2>2, <3>1
  <2> QED BY <2>1, <2>2
<1>2. step \in [1 .. n -> 1 .. n]
  <2>1. step = [j \in 1 .. n |-> step[j]]
    OBVIOUS
  <2> HIDE DEF step
  <2> QED BY <1>1, <2>1
<1>3. QuoteEnd(text, i, delimiter) = IF Char(text, end) = NoChar THEN 0 ELSE end + 1
  BY DEF QuoteEnd
<1> HIDE DEF step
<1>4. n \in Nat /\ i \in 1 .. n
  OBVIOUS
<1>5. end \in i .. n
  <2> HIDE DEF n
  <2> QED BY <1>1, <1>2, <1>4, ScanOnward
<1> HIDE DEF end
<1>6. Char(text, end) # NoChar => end \in 1 .. Len(text)
  BY CharInText
<1> QED BY <1>3, <1>5, <1>6

LEMMA ParamInText ==
  ASSUME NEW text, Len(text) \in Nat, NEW i \in 1 .. Len(text) + 1,
         NEW delimiter \in Delimiters
  PROVE  ParamEnd(text, i, delimiter) \in i .. Len(text) + 1
<1> DEFINE n == Len(text) + 2
           step == [j \in 1 .. n |->
                      CASE Char(text, j) \in {delimiter, NoChar} -> j
                        [] Char(text, j) = Escape -> j + 2
                        [] OTHER -> j + 1]
           end == Scan(step, i)
<1>0. NoChar \notin {delimiter, Escape}
  BY NoCharDiffers
<1>1. \A j \in 1 .. n : step[j] \in 1 .. n /\ j <= step[j]
  <2> TAKE j \in 1 .. n
  <2>1. CASE j \notin 1 .. Len(text)
    <3>1. Char(text, j) = NoChar
      BY <2>1 DEF Char
    <3> QED BY <1>0, <3>1
  <2>2. CASE j \in 1 .. Len(text)
    <3>1. step[j] \in {j, j + 1, j + 2}
      OBVIOUS
    <3> HIDE DEF step
    <3> QED BY <2>2, <3>1
  <2> QED BY <2>1, <2>2
<1>2. step \in [1 .. n -> 1 .. n]
  <2>1. step = [j \in 1 .. n |-> step[j]]
    OBVIOUS
  <2> HIDE DEF step
  <2> QED BY <1>1, <2>1
<1>3. ParamEnd(text, i, delimiter) = IF Char(text, end) = NoChar THEN Len(text) + 1 ELSE end + 1
  BY DEF ParamEnd
<1> HIDE DEF step
<1>4. n \in Nat /\ i \in 1 .. n
  OBVIOUS
<1>5. end \in i .. n
  <2> HIDE DEF n
  <2> QED BY <1>1, <1>2, <1>4, ScanOnward
<1> HIDE DEF end
<1>6. Char(text, end) # NoChar => end \in 1 .. Len(text)
  BY CharInText
<1> QED BY <1>3, <1>5, <1>6

-----------------------------------------------------------------------------
(* Operators *)

\* The operators of one character, the prover's own delimiters among them held apart.
LEMMA SinglesInOrder ==
  ASSUME NEW S, {"&", "*", ":", "@", "=", "!", ">", "[", "(", "<", "-", "%", ".", "+",
                 "?", "]", ")", "/", "~", "|"} \subseteq S,
         NEW comma \in S, NEW left \in S, NEW right \in S, NEW semicolon \in S,
         NEW o, o = << "&", "*", ":", comma, "@", "=", "!", ">", left, "[", "(", "<", "-",
                       "%", ".", "+", "?", right, "]", ")", "/", "~", "|", semicolon >>
  PROVE  o \in Seq(S) /\ Len(o) = 24
BY SMT

Singles == {"&", "*", ":", ",", "@", "=", "!", ">", "{", "[", "(", "<", "-", "%",
            ".", "+", "?", "}", "]", ")", "/", "~", "|", ";"}
Spellings == Singles \union Range(Operators3) \union Range(Operators2)

\* The operators by their lengths.
LEMMA OperatorShapes ==
  /\ Operators3 \in Seq(Spellings) /\ Len(Operators3) = 10
  /\ Operators2 \in Seq(Spellings) /\ Len(Operators2) = 20
  /\ Operators1 \in Seq(Spellings) /\ Len(Operators1) = 24
<1> DEFINE three == {"|+|", "]~>", "]->", "<~[", "<->", "<~/", "<-/", "<-[", "/->", "/~>"}
           two == {"||", "::", "$$", "..", ">=", "<-", "<~", "<=", "<>", "->", "-[", "-/",
                   "]-", "]~", "=>", "/-", "/~", "~[", "~>", "~/"}
<1>1. Operators3 \in Seq(three) /\ Len(Operators3) = 10
  BY SMT DEF Operators3
<1>2. Operators2 \in Seq(two) /\ Len(Operators2) = 20
  BY SMT DEF Operators2
<1>3. Operators1 \in Seq(Singles) /\ Len(Operators1) = 24
  <2>1. /\ {"&", "*", ":", "@", "=", "!", ">", "[", "(", "<", "-", "%", ".", "+",
            "?", "]", ")", "/", "~", "|"} \subseteq Singles
        /\ "," \in Singles /\ "{" \in Singles /\ "}" \in Singles /\ ";" \in Singles
    BY Zenon DEF Singles
  <2> QED BY <2>1, SinglesInOrder, Zenon DEF Operators1
<1> HIDE DEF three, two
<1>4. \A s : s \in Seq(three) => s \in Seq(Range(s))
  BY DEF Range
<1>5. \A s : s \in Seq(two) => s \in Seq(Range(s))
  BY DEF Range
<1>6. \A s, A : s \in Seq(A) => \A B : A \subseteq B => s \in Seq(B)
  OBVIOUS
<1>7. Operators3 \in Seq(Range(Operators3)) /\ Operators2 \in Seq(Range(Operators2))
  BY <1>1, <1>2, <1>4, <1>5
<1>8. /\ Range(Operators3) \subseteq Spellings /\ Range(Operators2) \subseteq Spellings
      /\ Singles \subseteq Spellings
  BY DEF Spellings
<1>9. Operators3 \in Seq(Spellings) /\ Operators2 \in Seq(Spellings) /\ Operators1 \in Seq(Spellings)
  BY <1>3, <1>6, <1>7, <1>8, Zenon
<1> QED BY <1>1, <1>2, <1>3, <1>9

Joined(c, a, b) ==
  /\ Len(c) = Len(a) + Len(b)
  /\ \A n \in 1 .. Len(a) + Len(b) : c[n] = IF n <= Len(a) THEN a[n] ELSE b[n - Len(a)]

\* A sequence put together of others, place by place.
LEMMA JoinedOfTwo ==
  ASSUME NEW S, NEW a \in Seq(S), NEW b \in Seq(S)
  PROVE  a \o b \in Seq(S) /\ Joined(a \o b, a, b)
BY ConcatProperties DEF Joined

LEMMA TwoParts ==
  ASSUME NEW S, NEW a \in Seq(S), NEW b \in Seq(S)
  PROVE  \E c \in Seq(S) : c = a \o b /\ Joined(c, a, b)
BY JoinedOfTwo, Zenon

JoinedOfThree(o, a, b, c) ==
  /\ DOMAIN o = 1 .. 54
  /\ \A n \in 1 .. 10 : o[n] = a[n]
  /\ \A n \in 11 .. 30 : o[n] = b[n - 10]
  /\ \A n \in 31 .. 54 : o[n] = c[n - 30]

LEMMA ThreeParts ==
  ASSUME NEW S, NEW a \in Seq(S), NEW b \in Seq(S), NEW c \in Seq(S),
         Len(a) = 10, Len(b) = 20, Len(c) = 24
  PROVE  JoinedOfThree((a \o b) \o c, a, b, c)
<1>1. PICK ab \in Seq(S) : ab = a \o b /\ Joined(ab, a, b)
  BY TwoParts, Zenon
<1>2. PICK o \in Seq(S) : o = ab \o c /\ Joined(o, ab, c)
  BY TwoParts, Zenon
<1>3. o = (a \o b) \o c
  BY <1>1, <1>2, Zenon
<1>4. Joined(ab, a, b) /\ Joined(o, ab, c)
  BY <1>1, <1>2, Zenon
<1>5. Len(ab) = 30 /\ Len(o) = 54
  BY <1>4 DEF Joined
<1>6. DOMAIN o = 1 .. 54
  BY <1>5
<1>7. \A n \in 1 .. 30 : ab[n] = IF n <= 10 THEN a[n] ELSE b[n - 10]
  BY <1>4, <1>5 DEF Joined
<1>8. \A n \in 1 .. 54 : o[n] = IF n <= 30 THEN ab[n] ELSE c[n - 30]
  BY <1>4, <1>5 DEF Joined
<1>9. /\ \A n \in 1 .. 10 : o[n] = a[n]
      /\ \A n \in 11 .. 30 : o[n] = b[n - 10]
      /\ \A n \in 31 .. 54 : o[n] = c[n - 30]
  <2>1. ASSUME NEW n \in 1 .. 10 PROVE o[n] = a[n]
    <3>1. n \in 1 .. 30 /\ n \in 1 .. 54 /\ n <= 10 /\ n <= 30
      OBVIOUS
    <3> QED BY <1>7, <1>8, <3>1
  <2>2. ASSUME NEW n \in 11 .. 30 PROVE o[n] = b[n - 10]
    <3>1. n \in 1 .. 30 /\ n \in 1 .. 54 /\ ~(n <= 10) /\ n <= 30
      OBVIOUS
    <3> QED BY <1>7, <1>8, <3>1
  <2>3. ASSUME NEW n \in 31 .. 54 PROVE o[n] = c[n - 30]
    <3>1. n \in 1 .. 54 /\ ~(n <= 30)
      OBVIOUS
    <3> QED BY <1>8, <3>1
  <2> QED BY <2>1, <2>2, <2>3
<1>10. JoinedOfThree(o, a, b, c)
  BY <1>6, <1>9, Zenon DEF JoinedOfThree
<1> QED BY <1>3, <1>10, Zenon

LEMMA OperatorPlaces == JoinedOfThree(Operators, Operators3, Operators2, Operators1)
<1>1. JoinedOfThree((Operators3 \o Operators2) \o Operators1, Operators3, Operators2, Operators1)
  BY OperatorShapes, ThreeParts, Zenon
<1> QED BY <1>1, Zenon DEF Operators

\* They are tried from the longest to the shortest.
LEMMA LongestFirst ==
  /\ DOMAIN Operators = 1 .. 54
  /\ \A n \in 1 .. 54 : Len(Operators[n]) \in 1 .. 3
  /\ \A n, m \in 1 .. 54 : n >= m => Len(Operators[n]) <= Len(Operators[m])
<1>1. /\ DOMAIN Operators3 = 1 .. 10 /\ DOMAIN Operators2 = 1 .. 20
      /\ DOMAIN Operators1 = 1 .. 24
  BY OperatorShapes
<1>2. /\ \A n \in 1 .. 10 : Len(Operators3[n]) = 3
      /\ \A n \in 1 .. 20 : Len(Operators2[n]) = 2
      /\ \A n \in 1 .. 24 : Len(Operators1[n]) = 1
  BY <1>1, OperatorAssumption
<1>3. /\ \A n \in 11 .. 30 : n - 10 \in 1 .. 20
      /\ \A n \in 31 .. 54 : n - 30 \in 1 .. 24
  OBVIOUS
<1>4. /\ \A n \in 1 .. 10 : Len(Operators[n]) = 3
      /\ \A n \in 11 .. 30 : Len(Operators[n]) = 2
      /\ \A n \in 31 .. 54 : Len(Operators[n]) = 1
  BY <1>2, <1>3, OperatorPlaces DEF JoinedOfThree
<1>5. \A n \in 1 .. 54 : n \in 1 .. 10 \/ n \in 11 .. 30 \/ n \in 31 .. 54
  OBVIOUS
<1> DEFINE length == [n \in 1 .. 54 |-> IF n <= 10 THEN 3 ELSE IF n <= 30 THEN 2 ELSE 1]
<1>6. \A n \in 1 .. 54 : length[n] \in 1 .. 3
  OBVIOUS
<1>7. \A n, m \in 1 .. 54 : n >= m => length[n] <= length[m]
  OBVIOUS
<1>8. \A n \in 1 .. 54 : Len(Operators[n]) = length[n]
  <2> SUFFICES ASSUME NEW n \in 1 .. 54 PROVE Len(Operators[n]) = length[n]
    OBVIOUS
  <2>1. CASE n \in 1 .. 10
    <3>1. length[n] = 3
      BY <2>1
    <3>2. Len(Operators[n]) = 3
      BY <1>4, <2>1
    <3> HIDE DEF length
    <3> QED BY <3>1, <3>2
  <2>2. CASE n \in 11 .. 30
    <3>1. length[n] = 2
      BY <2>2
    <3>2. Len(Operators[n]) = 2
      BY <1>4, <2>2
    <3> HIDE DEF length
    <3> QED BY <3>1, <3>2
  <2>3. CASE n \in 31 .. 54
    <3>1. length[n] = 1
      BY <2>3
    <3>2. Len(Operators[n]) = 1
      BY <1>4, <2>3
    <3> HIDE DEF length
    <3> QED BY <3>1, <3>2
  <2> QED BY <1>5, <2>1, <2>2, <2>3
<1>9. DOMAIN Operators = 1 .. 54
  BY OperatorPlaces DEF JoinedOfThree
<1> HIDE DEF length
<1> QED BY <1>6, <1>7, <1>8, <1>9

\* No other token has the kind of an operator.
LEMMA OperatorKinds ==
  ASSUME NEW kind \in NonReserved \union Reserved \union NamedKinds
  PROVE  kind \notin Range(Operators)
BY OperatorAssumption DEF Range

\* No longer operator stands where a token was read that is one.
Longest(text, token) ==
  token.kind \in Range(Operators) =>
    \A n \in DOMAIN Operators :
      StandsAt(text, token.next - Len(token.text), Operators[n]) =>
        Len(Operators[n]) <= Len(token.text)

\* lex_one takes the longest operator, and stays in the text.
LEMMA OperatorTaken ==
  ASSUME NEW text, Len(text) \in Nat, NEW i \in 1 .. Len(text)
  PROVE  /\ LexOperator(text, i).next \in i .. Len(text) + 1
         /\ Longest(text, LexOperator(text, i))
<1> DEFINE tries == {n \in DOMAIN Operators : StandsAt(text, i, Operators[n])}
           s == Operators[Min(tries)]
<1>0. DOMAIN Operators = 1 .. 54
  BY LongestFirst
<1>1. CASE tries = {}
  <2>1. LexOperator(text, i) = Token("ERROR", text, i, i + 1)
    BY <1>1 DEF LexOperator
  <2>2. "ERROR" \notin Range(Operators)
    BY OperatorKinds DEF NamedKinds
  <2> QED BY <2>1, <2>2 DEF Token, Longest
<1>2. CASE tries # {}
  <2>1. tries \in SUBSET Nat
    <3>1. tries \subseteq DOMAIN Operators
      OBVIOUS
    <3> HIDE DEF tries
    <3>2. tries \subseteq 1 .. 54
      BY <1>0, <3>1, Zenon
    <3> QED BY <3>2
  <2> HIDE DEF tries
  <2>2. Min(tries) \in tries /\ \A n \in tries : Min(tries) <= n
    BY <1>2, <2>1, MinIsLeast
  <2>3. PICK least \in 1 .. 54 : least = Min(tries)
    BY <1>0, <2>2 DEF tries
  <2>4. /\ Len(s) \in 1 .. 3 /\ StandsAt(text, i, s)
        /\ \A n \in 1 .. 54 : n >= least => Len(Operators[n]) <= Len(s)
    <3>1. StandsAt(text, i, s)
      BY <2>2 DEF tries
    <3>2. Len(s) \in 1 .. 3 /\ \A n \in 1 .. 54 : n >= least => Len(Operators[n]) <= Len(s)
      <4>1. \A n \in 1 .. 54 : Len(Operators[n]) \in 1 .. 3
        BY LongestFirst
      <4>2. \A n, m \in 1 .. 54 : n >= m => Len(Operators[n]) <= Len(Operators[m])
        BY LongestFirst
      <4> QED BY <2>3, <4>1, <4>2
    <3> QED BY <3>1, <3>2
  <2>5. LexOperator(text, i) = Token(s, text, i, i + Len(s))
    BY <1>2 DEF LexOperator, tries
  <2> HIDE DEF s
  <2>6. i + Len(s) - 1 <= Len(text) /\ SubSeq(text, i, i + Len(s) - 1) = s
    BY <2>4 DEF StandsAt
  <2>7. LexOperator(text, i) = [kind |-> s, text |-> s, next |-> i + Len(s)]
    <3>1. i + Len(s) - 1 = (i + Len(s)) - 1
      BY <2>4
    <3> QED BY <2>5, <2>6, <3>1 DEF Token
  <2>8. i + Len(s) \in i .. Len(text) + 1 /\ i + Len(s) - Len(s) = i
    BY <2>4, <2>6
  <2>9. ASSUME NEW n \in DOMAIN Operators, StandsAt(text, i, Operators[n])
        PROVE  Len(Operators[n]) <= Len(s)
    <3>1. n \in tries
      BY <2>9 DEF tries
    <3>2. n \in 1 .. 54 /\ n >= least
      BY <2>2, <2>3, <3>1, LongestFirst
    <3> QED BY <2>4, <3>2
  <2> QED BY <2>7, <2>8, <2>9 DEF Longest
<1> QED BY <1>1, <1>2

-----------------------------------------------------------------------------
(* What lex_one takes *)

\* A token read from a position of a text: it ends behind there and in the text,
\* and no longer operator stands in its place.
Lexed(text, from, token) ==
  token.next \in from .. Len(text) + 1 /\ Longest(text, token)

\* A token that is no operator.
LEMMA TokenLexed ==
  ASSUME NEW text, Len(text) \in Nat, NEW i \in 1 .. Len(text),
         NEW kind \in NonReserved \union Reserved \union NamedKinds,
         NEW next \in i .. Len(text) + 1
  PROVE  Lexed(text, i, Token(kind, text, i, next))
<1>1. kind \notin Range(Operators)
  BY OperatorKinds
<1>2. Token(kind, text, i, next).kind = kind /\ Token(kind, text, i, next).next = next
  BY DEF Token
<1> QED BY <1>1, <1>2 DEF Lexed, Longest

LEMMA StringLexed ==
  ASSUME NEW text, Len(text) \in Nat, NEW i \in 1 .. Len(text),
         NEW delimiter \in Delimiters
  PROVE  Lexed(text, i, LexString(text, i, delimiter))
<1> DEFINE end == QuoteEnd(text, i + 1, delimiter)
           kind == CASE delimiter = Accent -> "DELIM_IDENT"
                     [] delimiter = Double -> "DOUBLE_QUOTED"
                     [] OTHER -> "STR_LIT"
<1>1. end \in {0} \union i + 1 .. Len(text) + 1
  <2>1. i + 1 \in 1 .. Len(text) + 1
    OBVIOUS
  <2> QED BY <2>1, QuoteInText
<1>2. "ERROR" \in NamedKinds /\ {"DELIM_IDENT", "DOUBLE_QUOTED", "STR_LIT"} \subseteq NamedKinds
  BY DEF NamedKinds
<1>3. kind \in {"DELIM_IDENT", "DOUBLE_QUOTED", "STR_LIT"}
  OBVIOUS
<1>4. LexString(text, i, delimiter) = IF end = 0 THEN Token("ERROR", text, i, Len(text) + 1)
                                      ELSE Token(kind, text, i, end)
  BY DEF LexString
<1> HIDE DEF end, kind
<1>5. CASE end = 0
  <2>1. Len(text) + 1 \in i .. Len(text) + 1
    OBVIOUS
  <2> QED BY <1>2, <1>4, <1>5, <2>1, TokenLexed
<1>6. CASE end # 0
  <2>1. end \in i .. Len(text) + 1
    BY <1>1, <1>6
  <2> QED BY <1>2, <1>3, <1>4, <1>6, <2>1, TokenLexed
<1> QED BY <1>5, <1>6

LEMMA ByteStringLexed ==
  ASSUME NEW text, Len(text) \in Nat, NEW i \in 1 .. Len(text), i + 1 \in 1 .. Len(text)
  PROVE  Lexed(text, i, LexByteString(text, i))
<1> DEFINE ends == {j \in i + 2 .. Len(text) + 1 : Char(text, j) \in {Single, NoChar}}
           end == Min(ends)
           digits == {Char(text, j) : j \in i + 2 .. end - 1}
           kind == IF digits \subseteq HexDigits \union {" "} THEN "BYTE_STRING" ELSE "ERROR"
<1>1. Len(text) + 1 \in ends
  BY DEF Char
<1>2. ends \in SUBSET Nat
  OBVIOUS
<1>3. end \in ends
  <2> HIDE DEF ends
  <2> QED BY <1>1, <1>2, MinIsLeast
<1>4. end \in i + 2 .. Len(text) + 1
  BY <1>3
<1>5. kind \in NamedKinds /\ "ERROR" \in NamedKinds
  <2>1. kind \in {"BYTE_STRING", "ERROR"}
    OBVIOUS
  <2> HIDE DEF kind
  <2> QED BY <2>1 DEF NamedKinds
<1>6. LexByteString(text, i) = IF end = Len(text) + 1 THEN Token("ERROR", text, i, end)
                               ELSE Token(kind, text, i, end + 1)
  BY DEF LexByteString
<1> HIDE DEF ends, end, digits, kind
<1>7. CASE end = Len(text) + 1
  <2>1. end \in i .. Len(text) + 1
    BY <1>4
  <2> QED BY <1>5, <1>6, <1>7, <2>1, TokenLexed
<1>8. CASE end # Len(text) + 1
  <2>1. end + 1 \in i .. Len(text) + 1
    BY <1>4, <1>8
  <2> QED BY <1>5, <1>6, <1>8, <2>1, TokenLexed
<1> QED BY <1>7, <1>8

LEMMA IdentifierLexed ==
  ASSUME NEW text, Len(text) \in Nat, NEW i \in 1 .. Len(text)
  PROVE  Lexed(text, i, LexIdentifier(text, i))
<1> DEFINE next == Span(text, i, WordCharacters)
           word == SubSeq(text, i, next - 1)
           kind == CASE word \in {"TRUE", "FALSE", "UNKNOWN"} -> "BOOLEAN_LITERAL"
                     [] word \in NonReserved \union Reserved -> word
                     [] OTHER -> "IDENT"
<1>1. next \in i .. Len(text) + 1
  <2>1. i \in 1 .. Len(text) + 1
    OBVIOUS
  <2> QED BY <2>1, NoCharDiffers, SpanInText
<1>2. kind \in NonReserved \union Reserved \union {"BOOLEAN_LITERAL", "IDENT"}
  <2> HIDE DEF word
  <2> QED OBVIOUS
<1>3. {"BOOLEAN_LITERAL", "IDENT"} \subseteq NamedKinds
  BY DEF NamedKinds
<1>4. LexIdentifier(text, i) = Token(kind, text, i, next)
  BY DEF LexIdentifier
<1> HIDE DEF next, word, kind
<1>5. kind \in NonReserved \union Reserved \union NamedKinds
  BY <1>2, <1>3
<1> QED BY <1>1, <1>4, <1>5, TokenLexed

LEMMA NumberLexed ==
  ASSUME NEW text, Len(text) \in Nat, NEW i \in 1 .. Len(text)
  PROVE  Lexed(text, i, LexNumber(text, i))
<1> USE DEF NamedKinds
<1>1. CASE Char(text, i) = "0" /\ Char(text, i + 1) \in DOMAIN RadixDigits
  <2> DEFINE allowed == RadixDigits[Char(text, i + 1)]
             next == Span(text, i + 2, allowed \union {"_"})
             any == \E j \in i + 2 .. next - 1 : Char(text, j) # "_"
             kind == IF any THEN "INT_LIT" ELSE "ERROR"
  <2>1. NoChar \notin DOMAIN RadixDigits
    <3>1. DOMAIN RadixDigits = {"x", "X", "o", "O", "b", "B"}
      BY DEF RadixDigits
    <3>2. NoChar \notin {"x", "X", "o", "O", "b", "B"}
      BY Zenon DEF NoChar
    <3> QED BY <3>1, <3>2
  <2>2. i + 1 \in 1 .. Len(text)
    BY <1>1, <2>1, CharInText
  <2>3. \A c \in DOMAIN RadixDigits : RadixDigits[c] \subseteq HexDigits
    BY DEF RadixDigits, HexDigits, Digits
  <2>4. NoChar \notin allowed \union {"_"}
    <3>1. NoChar # "_"
      BY Zenon DEF NoChar
    <3>2. NoChar \notin allowed
      BY <1>1, <2>3, NoCharDiffers
    <3> QED BY <3>1, <3>2
  <2>5. next \in i + 2 .. Len(text) + 1
    <3>1. i + 2 \in 1 .. Len(text) + 1
      BY <2>2
    <3> HIDE DEF allowed
    <3> QED BY <2>4, <3>1, SpanInText
  <2>6. LexNumber(text, i) = Token(kind, text, i, next)
    BY <1>1 DEF LexNumber
  <2>7. kind \in NamedKinds
    OBVIOUS
  <2> HIDE DEF allowed, next, any, kind
  <2>8. next \in i .. Len(text) + 1
    BY <2>5
  <2> QED BY <2>6, <2>7, <2>8, TokenLexed
<1>2. CASE ~(Char(text, i) = "0" /\ Char(text, i + 1) \in DOMAIN RadixDigits)
  <2> DEFINE whole == Span(text, i, Digits \union {"_"})
             point == Char(text, whole) = "."
             fraction == IF point THEN Span(text, whole + 1, Digits \union {"_"}) ELSE whole
             exponent == Char(text, fraction) \in {"e", "E"}
             sign == IF Char(text, fraction + 1) \in {"+", "-"} THEN 1 ELSE 0
             power == IF exponent THEN Span(text, fraction + 1 + sign, Digits) ELSE fraction
             suffix == Char(text, power) \in {"F", "f", "D", "d"}
             next == IF suffix \/ Char(text, power) \in {"M", "m"} THEN power + 1 ELSE power
             kind == IF point \/ exponent \/ suffix THEN "FLOAT_LIT" ELSE "INT_LIT"
  <2>1. NoChar \notin {"_", ".", "e", "E", "+", "-", "F", "f", "D", "d", "M", "m"}
    BY Zenon DEF NoChar
  <2>2. NoChar \notin Digits /\ NoChar \notin Digits \union {"_"}
    BY <2>1, NoCharDiffers DEF HexDigits
  <2>3. whole \in i .. Len(text) + 1
    <3>1. i \in 1 .. Len(text) + 1
      OBVIOUS
    <3> QED BY <2>2, <3>1, SpanInText
  <2> HIDE DEF whole
  <2>4. fraction \in i .. Len(text) + 1
    <3>0. point => whole \in 1 .. Len(text)
      <4>1. point => Char(text, whole) # NoChar
        BY <2>1
      <4> QED BY <4>1, CharInText
    <3> HIDE DEF point
    <3>1. point => whole + 1 \in 1 .. Len(text) + 1 /\ whole + 1 \in i .. Len(text) + 1
      BY <2>3, <3>0
    <3>2. point => Span(text, whole + 1, Digits \union {"_"}) \in whole + 1 .. Len(text) + 1
      BY <2>2, <3>1, SpanInText
    <3>3. \/ point /\ fraction = Span(text, whole + 1, Digits \union {"_"})
          \/ fraction = whole
      OBVIOUS
    <3> HIDE DEF fraction
    <3>4. CASE point /\ fraction = Span(text, whole + 1, Digits \union {"_"})
      <4>1. fraction \in whole + 1 .. Len(text) + 1
        BY <3>2, <3>4
      <4>2. \A f \in whole + 1 .. Len(text) + 1 : f \in i .. Len(text) + 1
        BY <2>3
      <4> QED BY <4>1, <4>2
    <3> QED BY <2>3, <3>3, <3>4
  <2> HIDE DEF point, fraction
  <2>5. power \in i .. Len(text) + 1
    <3>1. sign \in {0, 1}
      OBVIOUS
    <3>2. exponent => fraction \in 1 .. Len(text)
      <4>1. exponent => Char(text, fraction) # NoChar
        BY <2>1
      <4> QED BY <4>1, CharInText
    <3>3. sign = 1 => fraction + 1 \in 1 .. Len(text)
      <4>0. sign = 1 => Char(text, fraction + 1) \in {"+", "-"}
        OBVIOUS
      <4>1. sign = 1 => Char(text, fraction + 1) # NoChar
        BY <2>1, <4>0
      <4> QED BY <4>1, CharInText
    <3> HIDE DEF sign
    <3>4. exponent => fraction + 1 + sign \in 1 .. Len(text) + 1
      BY <2>4, <3>1, <3>2, <3>3
    <3>5. exponent => Span(text, fraction + 1 + sign, Digits) \in fraction + 1 + sign .. Len(text) + 1
      BY <2>2, <3>4, SpanInText
    <3> QED BY <2>4, <3>1, <3>4, <3>5
  <2> HIDE DEF exponent, power
  <2>6. next \in i .. Len(text) + 1
    <3>1. next # power => next = power + 1 /\ power \in 1 .. Len(text)
      BY <2>1, CharInText
    <3> HIDE DEF next
    <3> QED BY <2>5, <3>1
  <2>7. kind \in NamedKinds
    OBVIOUS
  <2>8. LexNumber(text, i) = Token(kind, text, i, next)
    BY <1>2 DEF LexNumber, whole, point, fraction, exponent, power
  <2> HIDE DEF kind, next
  <2> QED BY <2>6, <2>7, <2>8, TokenLexed
<1> QED BY <1>1, <1>2

LEMMA ParamLexed ==
  ASSUME NEW text, Len(text) \in Nat, NEW i \in 1 .. Len(text)
  PROVE  Lexed(text, i, LexParam(text, i))
<1> DEFINE name == IF Char(text, i + 1) = "$" THEN i + 2 ELSE i + 1
           c == Char(text, name)
           next == CASE c \in Delimiters -> ParamEnd(text, name + 1, c)
                     [] c \in Letters -> Span(text, name, WordCharacters)
                     [] OTHER -> name
<1>1. name \in i + 1 .. Len(text) + 1
  <2>1. NoChar # "$"
    BY Zenon DEF NoChar
  <2>2. name # i + 1 => name = i + 2 /\ i + 1 \in 1 .. Len(text)
    BY <2>1, CharInText
  <2>3. name = i + 1 \/ name = i + 2
    OBVIOUS
  <2> HIDE DEF name
  <2> QED BY <2>2, <2>3
<1> HIDE DEF name
<1>2. c \in Delimiters => ParamEnd(text, name + 1, c) \in i .. Len(text) + 1
  <2> SUFFICES ASSUME c \in Delimiters PROVE ParamEnd(text, name + 1, c) \in i .. Len(text) + 1
    OBVIOUS
  <2>1. name \in 1 .. Len(text)
    BY NoCharDiffers, CharInText
  <2>2. name + 1 \in 1 .. Len(text) + 1
    BY <2>1
  <2> HIDE DEF c
  <2>3. ParamEnd(text, name + 1, c) \in name + 1 .. Len(text) + 1
    BY <2>2, ParamInText
  <2> QED BY <1>1, <2>3
<1>3. Span(text, name, WordCharacters) \in i .. Len(text) + 1
  <2>1. name \in 1 .. Len(text) + 1
    BY <1>1
  <2>2. Span(text, name, WordCharacters) \in name .. Len(text) + 1
    BY <2>1, NoCharDiffers, SpanInText
  <2> QED BY <1>1, <2>2
<1>4. name \in i .. Len(text) + 1
  BY <1>1
<1> HIDE DEF c
<1>5. next \in i .. Len(text) + 1
  <2>1. \/ c \in Delimiters /\ next = ParamEnd(text, name + 1, c)
        \/ next = Span(text, name, WordCharacters)
        \/ next = name
    OBVIOUS
  <2> HIDE DEF next
  <2> QED BY <1>2, <1>3, <1>4, <2>1
<1>6. LexParam(text, i) = Token("PARAM", text, i, next)
  BY DEF LexParam, name, c
<1>7. "PARAM" \in NamedKinds
  BY DEF NamedKinds
<1> HIDE DEF next
<1> QED BY <1>5, <1>6, <1>7, TokenLexed


\* lex_one stays in the text.
LEMMA LexedOnward ==
  ASSUME NEW text, Len(text) \in Nat, NEW from \in 1 .. Len(text) + 1
  PROVE  Lexed(text, from, LexOne(text, from))
<1> DEFINE i == SkipBlanksAndComments(text, from)
           c == Char(text, i)
           d == Char(text, i + 1)
           end == [kind |-> "EOF", text |-> NoChar, next |-> i]
           token == LexOne(text, from)
<1>1. i \in from .. Len(text) + 1
  BY SkippedInText
<1>2. token = CASE c = NoChar -> end
                [] c \in {"x", "X"} /\ d = Single -> LexByteString(text, i)
                [] c = "@" /\ d \in Delimiters -> LexString(text, i + 1, d)
                [] c \in Delimiters -> LexString(text, i, c)
                [] c = "$" -> LexParam(text, i)
                [] c \in Digits -> LexNumber(text, i)
                [] c \in Letters -> LexIdentifier(text, i)
                [] OTHER -> LexOperator(text, i)
  BY DEF LexOne
<1>3. \/ c = NoChar /\ token = end
      \/ c # NoChar /\ d = Single /\ token = LexByteString(text, i)
      \/ c # NoChar /\ d \in Delimiters /\ token = LexString(text, i + 1, d)
      \/ c # NoChar /\ c \in Delimiters /\ token = LexString(text, i, c)
      \/ c # NoChar /\ token \in {LexParam(text, i), LexNumber(text, i),
                                  LexIdentifier(text, i), LexOperator(text, i)}
  <2>1. NoChar \notin Digits \union Letters \union Delimiters \union {"x", "X", "@", "$"}
    <3>1. NoChar \notin {"x", "X", "@", "$"}
      BY Zenon DEF NoChar
    <3> QED BY <3>1, NoCharDiffers DEF WordCharacters
  <2> HIDE DEF i, c, d, end, token
  <2> QED BY <1>2, <2>1
<1>4. ASSUME NEW at \in i .. Len(text) + 1, NEW t, Lexed(text, at, t)
      PROVE  Lexed(text, from, t)
  BY <1>1, <1>4 DEF Lexed
<1>5. CASE c = NoChar /\ token = end
  <2>1. "EOF" \notin Range(Operators)
    BY OperatorKinds DEF NamedKinds
  <2>2. end.kind = "EOF" /\ end.next = i
    OBVIOUS
  <2> HIDE DEF i, end
  <2>3. Lexed(text, from, end)
    BY <1>1, <2>1, <2>2 DEF Lexed, Longest
  <2> HIDE DEF token
  <2> QED BY <1>5, <2>3, Zenon DEF token
<1>6. CASE c # NoChar
  <2>1. i \in 1 .. Len(text)
    BY <1>6, CharInText
  <2>2. d \in Delimiters => i + 1 \in 1 .. Len(text)
    BY NoCharDiffers, CharInText
  <2>3. Single \in Delimiters
    BY DEF Delimiters
  <2>0. i \in i .. Len(text) + 1
    BY <1>1, <2>1
  <2> HIDE DEF i, c, d, end, token
  <2>4. CASE d = Single /\ token = LexByteString(text, i)
    <3>1. Lexed(text, i, token)
      BY <2>1, <2>2, <2>3, <2>4, ByteStringLexed
    <3> QED BY <1>4, <2>0, <3>1, Zenon DEF token
  <2>5. CASE d \in Delimiters /\ token = LexString(text, i + 1, d)
    <3>1. Lexed(text, i + 1, token)
      BY <2>2, <2>5, StringLexed
    <3>2. i + 1 \in i .. Len(text) + 1
      BY <2>1
    <3> QED BY <1>4, <3>1, <3>2, Zenon DEF token
  <2>6. CASE c \in Delimiters /\ token = LexString(text, i, c)
    <3>1. Lexed(text, i, token)
      BY <2>1, <2>6, StringLexed
    <3> QED BY <1>4, <2>0, <3>1, Zenon DEF token
  <2>7. CASE token \in {LexParam(text, i), LexNumber(text, i),
                       LexIdentifier(text, i), LexOperator(text, i)}
    <3>1. /\ Lexed(text, i, LexParam(text, i)) /\ Lexed(text, i, LexNumber(text, i))
          /\ Lexed(text, i, LexIdentifier(text, i))
      BY <2>1, ParamLexed, NumberLexed, IdentifierLexed
    <3>2. Lexed(text, i, LexOperator(text, i))
      BY <2>1, OperatorTaken DEF Lexed
    <3>3. Lexed(text, i, token)
      BY <2>7, <3>1, <3>2, Zenon
    <3> QED BY <1>4, <2>0, <3>3, Zenon DEF token
  <2> QED BY <1>3, <1>6, <2>4, <2>5, <2>6, <2>7
<1> QED BY <1>3, <1>5, <1>6

-----------------------------------------------------------------------------
(* The window *)

TextTokens(text) == {LexOne(text, from) : from \in 1 .. Len(text) + 1}

LEMMA TextTokensLexed ==
  ASSUME NEW text, Len(text) \in Nat, NEW token \in TextTokens(text)
  PROVE  token.next \in 1 .. Len(text) + 1 /\ Longest(text, token)
<1>1. PICK from \in 1 .. Len(text) + 1 : token = LexOne(text, from)
  BY DEF TextTokens
<1>2. Lexed(text, from, token)
  BY <1>1, LexedOnward
<1>3. \A n \in from .. Len(text) + 1 : n \in 1 .. Len(text) + 1
  OBVIOUS
<1> QED BY <1>2, <1>3 DEF Lexed

\* What is lexed follows what was lexed before it: the tokens i + 1 .. Len(w) of a
\* window whose first i were consumed, prev being the last of those.
After(w, i, prev, k) == IF k = i THEN prev.next ELSE w[k].next
Chain(text, end, w, i, prev) ==
  /\ \A k \in i + 1 .. Len(w) : w[k] = LexOne(text, After(w, i, prev, k - 1))
  /\ end = After(w, i, prev, Len(w))

LEMMA ChainOfNone == ASSUME NEW text, NEW prev PROVE Chain(text, prev.next, << >>, 0, prev)
BY DEF Chain, After

LEMMA ChainAppended ==
  ASSUME NEW text, NEW S, NEW w \in Seq(S), NEW i \in 0 .. Len(w), NEW prev, NEW end, NEW t \in S,
         t = LexOne(text, end), Chain(text, end, w, i, prev)
  PROVE  Chain(text, t.next, Append(w, t), i, prev)
<1> DEFINE w2 == Append(w, t)
<1>1. Len(w2) = Len(w) + 1 /\ w2[Len(w) + 1] = t /\ \A k \in 1 .. Len(w) : w2[k] = w[k]
  OBVIOUS
<1> HIDE DEF w2
<1>2. \A k \in i .. Len(w) : After(w2, i, prev, k) = After(w, i, prev, k)
  BY <1>1 DEF After
<1>3. ASSUME NEW k \in i + 1 .. Len(w2)
      PROVE  w2[k] = LexOne(text, After(w2, i, prev, k - 1))
  <2>1. CASE k \in i + 1 .. Len(w)
    <3>1. w[k] = LexOne(text, After(w, i, prev, k - 1))
      BY <2>1 DEF Chain
    <3>2. k - 1 \in i .. Len(w) /\ k \in 1 .. Len(w)
      BY <2>1
    <3> QED BY <1>1, <1>2, <3>1, <3>2
  <2>2. CASE k = Len(w) + 1
    <3>1. Len(w) \in i .. Len(w) /\ k - 1 = Len(w)
      BY <2>2
    <3>2. After(w2, i, prev, k - 1) = end
      BY <1>2, <3>1 DEF Chain
    <3> QED BY <1>1, <2>2, <3>2
  <2> QED BY <1>1, <2>1, <2>2
<1>4. After(w2, i, prev, Len(w2)) = t.next
  BY <1>1 DEF After
<1>5. Chain(text, t.next, w2, i, prev)
  BY <1>3, <1>4 DEF Chain
<1> QED BY <1>5 DEF w2

LEMMA ChainTaken ==
  ASSUME NEW text, NEW S, NEW w \in Seq(S), NEW i \in 0 .. Len(w) - 1, NEW prev, NEW end,
         Chain(text, end, w, i, prev)
  PROVE  Chain(text, end, w, i + 1, w[i + 1])
<1>1. \A k \in i + 1 .. Len(w) : After(w, i + 1, w[i + 1], k) = After(w, i, prev, k)
  BY DEF After
<1>2. ASSUME NEW k \in i + 1 + 1 .. Len(w)
      PROVE  w[k] = LexOne(text, After(w, i + 1, w[i + 1], k - 1))
  <2>1. k \in i + 1 .. Len(w) /\ k - 1 \in i + 1 .. Len(w)
    OBVIOUS
  <2>2. w[k] = LexOne(text, After(w, i, prev, k - 1))
    BY <2>1 DEF Chain
  <2> QED BY <1>1, <2>1, <2>2
<1>3. After(w, i + 1, w[i + 1], Len(w)) = end
  <2>1. Len(w) \in i + 1 .. Len(w)
    OBVIOUS
  <2> QED BY <1>1, <2>1 DEF Chain
<1> QED BY <1>2, <1>3 DEF Chain

LEMMA ChainDropped ==
  ASSUME NEW text, NEW S, NEW w \in Seq(S), NEW i \in 0 .. Len(w), NEW prev, NEW end,
         Chain(text, end, w, i, prev)
  PROVE  Chain(text, end, SubSeq(w, i + 1, Len(w)), 0, prev)
<1> DEFINE w2 == SubSeq(w, i + 1, Len(w))
<1>1. Len(w2) = Len(w) - i /\ \A k \in 1 .. Len(w) - i : w2[k] = w[k + i]
  OBVIOUS
<1> HIDE DEF w2
<1>2. \A k \in 0 .. Len(w2) : After(w2, 0, prev, k) = After(w, i, prev, k + i)
  BY <1>1 DEF After
<1>3. ASSUME NEW k \in 0 + 1 .. Len(w2)
      PROVE  w2[k] = LexOne(text, After(w2, 0, prev, k - 1))
  <2>1. k + i \in i + 1 .. Len(w) /\ k - 1 \in 0 .. Len(w2) /\ k \in 1 .. Len(w) - i
    BY <1>1
  <2>2. w[k + i] = LexOne(text, After(w, i, prev, (k + i) - 1))
    BY <2>1 DEF Chain
  <2>3. (k + i) - 1 = (k - 1) + i
    BY <2>1
  <2>4. After(w2, 0, prev, k - 1) = After(w, i, prev, (k + i) - 1)
    BY <1>2, <2>1, <2>3
  <2> QED BY <1>1, <2>1, <2>2, <2>4
<1>4. After(w2, 0, prev, Len(w2)) = end
  <2>1. Len(w2) \in 0 .. Len(w2) /\ Len(w2) + i = Len(w)
    BY <1>1
  <2> QED BY <1>2, <2>1 DEF Chain
<1>5. Chain(text, end, w2, 0, prev)
  BY <1>3, <1>4 DEF Chain
<1> QED BY <1>5 DEF w2


\* The window of the tokens that were lexed: it stays in its bounds, its tokens are
\* tokens of the text, and those unread follow one another.
WindowInv ==
  /\ input \in Inputs
  /\ cursor \in 1 .. Len(input.text) + 1
  /\ window \in Seq(TextTokens(input.text))
  /\ Len(window) \in index .. CAPACITY /\ index \in 0 .. THRESHOLD - 1
  /\ previous.next \in 1 .. cursor
  /\ \A k \in 1 .. Len(window) : window[k].next \in 1 .. cursor
  /\ Chain(input.text, cursor, window, index, previous)

\* The instructions that take a token look at it.
LEMMA TakersLook ==
  ASSUME Unread \in Int, NEW op \in {"skip", "keep", "leaf", "number", "expect"}, Ready(op)
  PROVE  Unread >= 1
<1>1. Wanted(Current) <= Unread /\ Current.op = op
  BY DEF Ready
<1> HIDE DEF Unread, Current
<1>2. Wanted(Current) = 2 \/ Wanted(Current) = 1
  <2>1. CASE op # "expect"
    <3>1. Current.op \in {"skip", "keep", "leaf", "number"}
      BY <1>1, <2>1
    <3> QED BY <3>1 DEF Wanted
  <2>2. CASE op = "expect"
    <3>1. Wanted(Current) = IF Unread > 0 /\ Peek(0).kind = Current.kind THEN 2 ELSE 1
      BY <1>1, <2>2 DEF Wanted
    <3> QED BY <3>1
  <2> QED BY <2>1, <2>2
<1> QED BY <1>1, <1>2

\* Whatever a step does, the window grows by a token, gives one up or stays.
Moves ==
  \/ Lex
  \/ Unread >= 1 /\ Advance /\ UNCHANGED input
  \/ UNCHANGED << input, lexing >>

LEMMA StepMoves == ASSUME Unread \in Int, [Next]_vars PROVE Moves
<1> USE DEF lexing
<1>1. CASE UNCHANGED vars
  BY <1>1 DEF vars, Moves
<1>2. CASE SkipToken
  BY <1>2, TakersLook DEF SkipToken, Moves
<1>3. CASE KeepToken
  BY <1>3, TakersLook DEF KeepToken, Moves
<1>4. CASE MakeLeaf
  BY <1>4, TakersLook DEF MakeLeaf, Moves
<1>5. CASE MakeNumber
  BY <1>5, TakersLook DEF MakeNumber, Moves
<1>6. CASE ExpectToken
  BY <1>6, TakersLook DEF ExpectToken, Moves
<1>7. CASE Lex
  BY <1>7 DEF Moves
<1>8. CASE \/ Overrun \/ ReportError \/ FailFunction \/ OpenNode \/ AdoptChild \/ MarkNode
           \/ CloseNode \/ Choose \/ Repeat \/ CallFunction \/ TestResult \/ Finish
  <2>1. UNCHANGED << input, lexing >>
    BY <1>8 DEF Overrun, ReportError, FailFunction, OpenNode, AdoptChild, MarkNode,
                CloseNode, Choose, Repeat, CallFunction, TestResult, Finish
  <2> QED BY <2>1 DEF Moves
<1> QED BY <1>1, <1>2, <1>3, <1>4, <1>5, <1>6, <1>7, <1>8 DEF Next

LEMMA InputText == ASSUME WindowInv PROVE Len(input.text) \in Nat
BY InputsAssumption DEF WindowInv

\* NoToken stands before the text.
LEMMA NoTokenNext == NoToken.next = 1
BY Zenon DEF NoToken

LEMMA WindowInit == Init => WindowInv
<1> SUFFICES ASSUME Init PROVE WindowInv
  OBVIOUS
<1>1. /\ input \in Inputs /\ cursor = 1 /\ window = << >> /\ index = 0 /\ previous = NoToken
  BY DEF Init
<1>2. Len(input.text) \in Nat
  BY <1>1, InputsAssumption
<1>3. previous.next = 1
  BY <1>1, NoTokenNext
<1>4. Chain(input.text, previous.next, << >>, 0, previous)
  BY ChainOfNone
<1>5. Chain(input.text, cursor, window, index, previous)
  BY <1>1, <1>3, <1>4
<1>6. window \in Seq(TextTokens(input.text)) /\ Len(window) = 0
  BY <1>1
<1> QED BY <1>1, <1>2, <1>3, <1>5, <1>6, WindowAssumption DEF WindowInv

LEMMA WindowNext == WindowInv /\ [Next]_vars => WindowInv'
<1> SUFFICES ASSUME WindowInv, [Next]_vars PROVE WindowInv'
  OBVIOUS
<1>1. Len(input.text) \in Nat
  BY InputText
<1>2. /\ input \in Inputs /\ cursor \in 1 .. Len(input.text) + 1
      /\ window \in Seq(TextTokens(input.text))
      /\ Len(window) \in index .. CAPACITY /\ index \in 0 .. THRESHOLD - 1
      /\ previous.next \in 1 .. cursor
      /\ \A k \in 1 .. Len(window) : window[k].next \in 1 .. cursor
      /\ Chain(input.text, cursor, window, index, previous)
  BY DEF WindowInv
<1>3. Unread \in Int
  BY <1>2, WindowAssumption DEF Unread
<1>4. index \in 0 .. Len(window)
  BY <1>2, WindowAssumption
<1>5. CASE Lex
  <2> DEFINE token == LexOne(input.text, cursor)
  <2>1. /\ window' = Append(window, token) /\ cursor' = token.next
        /\ UNCHANGED << input, index, previous >> /\ Len(window) < CAPACITY
    BY <1>5 DEF Lex
  <2>2. token.next \in cursor .. Len(input.text) + 1
    BY <1>1, <1>2, LexedOnward DEF Lexed
  <2>3. token \in TextTokens(input.text)
    BY <1>2 DEF TextTokens
  <2>4. Chain(input.text, token.next, Append(window, token), index, previous)
    BY <1>2, <1>4, <2>3, ChainAppended
  <2> HIDE DEF token
  <2>5. Chain(input.text, cursor, window, index, previous)'
    BY <2>1, <2>4
  <2>6. /\ window' \in Seq(TextTokens(input.text)) /\ Len(window') = Len(window) + 1
        /\ \A k \in 1 .. Len(window) : window'[k] = window[k]
        /\ window'[Len(window) + 1] = token
    BY <1>2, <2>1, <2>3
  <2>7. cursor' \in 1 .. Len(input.text) + 1 /\ cursor <= cursor'
    BY <1>1, <1>2, <2>1, <2>2
  <2>8. \A n \in 1 .. cursor : n \in 1 .. cursor'
    BY <1>2, <2>7
  <2>9. \A k \in 1 .. Len(window') : window'[k].next \in 1 .. cursor'
    <3>1. token.next \in 1 .. cursor'
      BY <2>1, <2>7
    <3>2. \A k \in 1 .. Len(window') : k \in 1 .. Len(window) \/ k = Len(window) + 1
      BY <1>2, <2>6
    <3> QED BY <1>2, <2>6, <2>8, <3>1, <3>2
  <2>10. Len(window') \in index' .. CAPACITY
    BY <1>2, <1>4, <2>1, <2>6, WindowAssumption
  <2> QED BY <1>2, <2>1, <2>5, <2>6, <2>7, <2>8, <2>9, <2>10 DEF WindowInv
<1>6. CASE Unread >= 1 /\ Advance /\ UNCHANGED input
  <2>0. index \in 0 .. Len(window) - 1
    BY <1>2, <1>6, WindowAssumption DEF Unread
  <2>1. UNCHANGED << input, cursor >> /\ previous' = window[index + 1]
    BY <1>2, <1>6, <2>0 DEF Advance, Peek
  <2>2. Chain(input.text, cursor, window, index + 1, window[index + 1])
    BY <1>2, <2>0, ChainTaken
  <2>3. previous'.next \in 1 .. cursor
    <3>1. index + 1 \in 1 .. Len(window)
      BY <2>0
    <3> QED BY <1>2, <2>1, <3>1
  <2>4. CASE index + 1 >= THRESHOLD
    <3>1. window' = SubSeq(window, index + 2, Len(window)) /\ index' = 0
      BY <1>6, <2>4 DEF Advance
    <3>2. index + 1 \in 0 .. Len(window) /\ (index + 1) + 1 = index + 2
      BY <2>0
    <3>3. Chain(input.text, cursor, SubSeq(window, (index + 1) + 1, Len(window)), 0, window[index + 1])
      BY <1>2, <2>2, <3>2, ChainDropped
    <3>4. Chain(input.text, cursor, window, index, previous)'
      BY <2>1, <3>1, <3>2, <3>3
    <3>5. /\ window' \in Seq(TextTokens(input.text)) /\ Len(window') = Len(window) - (index + 1)
          /\ \A k \in 1 .. Len(window') : window'[k] = window[k + (index + 1)]
      BY <1>2, <2>0, <3>1
    <3>6. \A k \in 1 .. Len(window') : k + (index + 1) \in 1 .. Len(window)
      BY <2>0, <3>5
    <3>7. \A k \in 1 .. Len(window') : window'[k].next \in 1 .. cursor
      BY <1>2, <3>5, <3>6
    <3>8. Len(window') \in index' .. CAPACITY /\ index' \in 0 .. THRESHOLD - 1
      BY <1>2, <2>0, <3>1, <3>5, WindowAssumption
    <3> QED BY <1>2, <2>1, <2>3, <3>4, <3>5, <3>7, <3>8 DEF WindowInv
  <2>5. CASE ~(index + 1 >= THRESHOLD)
    <3>1. window' = window /\ index' = index + 1
      BY <1>6, <2>5 DEF Advance
    <3>2. Chain(input.text, cursor, window, index, previous)'
      BY <2>1, <2>2, <3>1
    <3>3. Len(window') \in index' .. CAPACITY /\ index' \in 0 .. THRESHOLD - 1
      BY <1>2, <2>0, <2>5, <3>1, WindowAssumption
    <3> QED BY <1>2, <2>1, <2>3, <3>1, <3>2, <3>3 DEF WindowInv
  <2> QED BY <2>4, <2>5
<1>7. CASE UNCHANGED << input, lexing >>
  BY <1>7 DEF WindowInv, lexing
<1> QED BY <1>3, <1>5, <1>6, <1>7, StepMoves DEF Moves

\* The window stays in its bounds and its unread tokens follow one another.
THEOREM WindowSafe == Spec => []WindowInv
<1> QED BY WindowInit, WindowNext, PTL DEF Spec

LEMMA WindowImpliesText == WindowInv => WindowIsText
<1> SUFFICES ASSUME WindowInv PROVE WindowIsText
  OBVIOUS
<1> DEFINE unread == SubSeq(window, index + 1, Len(window))
           before(k) == IF k = 1 THEN previous.next ELSE unread[k - 1].next
<1>1. /\ window \in Seq(TextTokens(input.text)) /\ index \in 0 .. Len(window)
      /\ Chain(input.text, cursor, window, index, previous)
  BY WindowAssumption DEF WindowInv
<1>2. Chain(input.text, cursor, unread, 0, previous)
  BY <1>1, ChainDropped
<1>3. DOMAIN unread = 1 .. Len(unread) /\ Len(unread) \in Nat
  BY <1>1
<1> HIDE DEF unread
<1>4. \A k \in 1 .. Len(unread) + 1 : before(k) = After(unread, 0, previous, k - 1)
  BY <1>3 DEF After
<1>5. \A k \in DOMAIN unread : unread[k] = LexOne(input.text, before(k))
  <2>1. \A k \in 1 .. Len(unread) : k \in 0 + 1 .. Len(unread) /\ k \in 1 .. Len(unread) + 1
    BY <1>3
  <2>2. \A k \in 1 .. Len(unread) : unread[k] = LexOne(input.text, After(unread, 0, previous, k - 1))
    BY <1>2, <2>1 DEF Chain
  <2> HIDE DEF before
  <2> QED BY <1>3, <1>4, <2>1, <2>2
<1>6. cursor = before(Len(unread) + 1)
  <2>1. Len(unread) + 1 \in 1 .. Len(unread) + 1 /\ (Len(unread) + 1) - 1 = Len(unread)
    BY <1>3
  <2> HIDE DEF before
  <2> QED BY <1>2, <1>4, <2>1 DEF Chain
<1> QED BY <1>5, <1>6 DEF WindowIsText, unread

LEMMA WindowImpliesLongest == WindowInv => LongestOperator
<1> SUFFICES ASSUME WindowInv PROVE LongestOperator
  OBVIOUS
<1>1. window \in Seq(TextTokens(input.text)) /\ Len(input.text) \in Nat
  BY InputText DEF WindowInv
<1>2. \A k \in DOMAIN window : window[k] \in TextTokens(input.text)
  BY <1>1
<1>3. \A k \in DOMAIN window : Longest(input.text, window[k])
  BY <1>1, <1>2, TextTokensLexed
<1> QED BY <1>3 DEF LongestOperator, Longest


-----------------------------------------------------------------------------
(* The instructions *)

\* Those that skip a simplified path, whatever stands open in it.
Closings == {"/-", "/~", "/->"}
SimplifiedCall(close, depth) == CallWith("simplified_rest", << close, depth >>)
SimplifiedChoice(close, depth) == SimplifiedRest(close, depth)[1]
Simplified ==
  {Skip} \union {SimplifiedCall(close, depth) : close \in Closings, depth \in Int}
         \union {SimplifiedChoice(close, depth) : close \in Closings, depth \in Int}

Steps == Instructions \union Simplified
Effect(h) == IF h \in Instructions THEN Net[h] ELSE 0

\* A body on whose every way net nodes are opened and nothing below is closed early.
HeightsOf(g, b, net) ==
  /\ g \in [0 .. Len(b) -> Int]
  /\ g[0] = 0 /\ g[Len(b)] = net
  /\ \A i \in 1 .. Len(b) :
       /\ g[i] >= 0 \/ g[i] >= net
       /\ g[i] = g[i - 1] + Effect(b[i]) \/ GivesUp(b[i])
Flows(b, net) == b \in Seq(Steps) /\ \E g : HeightsOf(g, b, net)

LEMMA BalancedFlows ==
  ASSUME NEW b, NEW net, Balanced(b, net)
  PROVE  Flows(b, net)
<1> DEFINE g == Heights(b, net)
<1>1. /\ b \in Seq(Instructions) /\ g \in [0 .. Len(b) -> Int]
      /\ g[0] = 0 /\ g[Len(b)] = net
      /\ \A i \in 1 .. Len(b) :
           /\ g[i] >= 0 \/ g[i] >= net
           /\ g[i] = g[i - 1] + Net[b[i]] \/ GivesUp(b[i])
  BY DEF Balanced
<1> HIDE DEF g
<1>2. \A i \in 1 .. Len(b) : b[i] \in Instructions
  BY <1>1
<1>3. \A i \in 1 .. Len(b) : Net[b[i]] = Effect(b[i])
  BY <1>2 DEF Effect
<1>4. HeightsOf(g, b, net)
  BY <1>1, <1>3 DEF HeightsOf
<1>5. b \in Seq(Steps)
  BY <1>1 DEF Steps
<1> QED BY <1>4, <1>5 DEF Flows

LEMMA FlowsNone == Flows(<< >>, 0)
<1> DEFINE g == [i \in 0 .. 0 |-> 0]
<1>1. HeightsOf(g, << >>, 0)
  BY DEF HeightsOf
<1>2. << >> \in Seq(Steps)
  OBVIOUS
<1> HIDE DEF g
<1> QED BY <1>1, <1>2 DEF Flows

LEMMA FlowsOne ==
  ASSUME NEW h \in Steps, Effect(h) = 0
  PROVE  Flows(<< h >>, 0)
<1> DEFINE g == [i \in 0 .. 1 |-> 0]
<1>1. HeightsOf(g, << h >>, 0)
  BY DEF HeightsOf
<1>2. << h >> \in Seq(Steps)
  OBVIOUS
<1> HIDE DEF g
<1> QED BY <1>1, <1>2 DEF Flows

LEMMA FlowsTwo ==
  ASSUME NEW h \in Steps, NEW k \in Steps, Effect(h) = 0, Effect(k) = 0
  PROVE  Flows(<< h, k >>, 0)
<1> DEFINE g == [i \in 0 .. 2 |-> 0]
           b == << h, k >>
<1>1. b \in Seq(Steps) /\ Len(b) = 2 /\ b[1] = h /\ b[2] = k
  OBVIOUS
<1>2. g \in [0 .. 2 -> Int] /\ \A i \in 0 .. 2 : g[i] = 0
  OBVIOUS
<1>3. \A i \in 1 .. 2 : i = 1 \/ i = 2
  OBVIOUS
<1> HIDE DEF b, g
<1>4. HeightsOf(g, b, 0)
  BY <1>1, <1>2, <1>3 DEF HeightsOf
<1>5. Flows(b, 0)
  BY <1>1, <1>4 DEF Flows
<1> QED BY <1>5 DEF b

LEMMA InstructionShape ==
  ASSUME NEW h \in Instructions
  PROVE  /\ ShapeOf(h)
         /\ h.op \in {"choice", "loop"} => AlternativesOf(h)
         /\ \A b \in Parts(h) : Flows(b, Net[h])
<1>1. \A b \in Parts(h) : Balanced(b, Net[h])
  BY GrammarAssumption
<1> QED BY <1>1, BalancedFlows, GrammarAssumption

LEMMA SimplifiedOps ==
  ASSUME NEW close, NEW depth
  PROVE  /\ Skip.op = "skip"
         /\ SimplifiedCall(close, depth).op = "call"
         /\ SimplifiedCall(close, depth).f = "simplified_rest"
         /\ SimplifiedCall(close, depth).n = << close, depth >>
BY DEF Skip, SimplifiedCall, CallWith

\* The alternatives of the choice.
SimplifiedEnd(close, depth) == IF depth = 0 THEN {close} ELSE {}
SimplifiedAlternatives(close, depth) ==
  << << << {"("} >>, << Skip, SimplifiedCall(close, depth + 1) >> >>,
     << << {")"} >>, << Skip, SimplifiedCall(close, depth - 1) >> >>,
     << << SimplifiedEnd(close, depth) >>, << Skip >> >>,
     << << {"EOF"} >>, << >> >>,
     << << >>, << Skip, SimplifiedCall(close, depth) >> >> >>

LEMMA SimplifiedChoiceIs ==
  ASSUME NEW close, NEW depth
  PROVE  /\ SimplifiedChoice(close, depth).op = "choice"
         /\ SimplifiedChoice(close, depth).alts = SimplifiedAlternatives(close, depth)
         /\ SimplifiedRest(close, depth) = << SimplifiedChoice(close, depth) >>
<1>1. SimplifiedRest(close, depth) = << Choice(SimplifiedAlternatives(close, depth)) >>
  BY DEF SimplifiedRest, SimplifiedAlternatives, SimplifiedEnd, SimplifiedCall, On, Else
<1>2. SimplifiedChoice(close, depth) = Choice(SimplifiedAlternatives(close, depth))
  BY <1>1 DEF SimplifiedChoice
<1> QED BY <1>1, <1>2 DEF Choice


\* Skipping a simplified path leaves the nodes as they are.
LEMMA SimplifiedEffect ==
  ASSUME NEW h \in Simplified
  PROVE  Effect(h) = 0
<1> SUFFICES ASSUME h \in Instructions PROVE Net[h] = 0
  BY DEF Effect
<1>1. ShapeOf(h) /\ \A b \in Parts(h) : Flows(b, Net[h])
  BY InstructionShape
<1>2. CASE h = Skip
  <2>1. h.op = "skip"
    BY <1>2, SimplifiedOps
  <2> QED BY <1>1, <2>1 DEF ShapeOf
<1>3. ASSUME NEW close \in Closings, NEW depth \in Int, h = SimplifiedCall(close, depth)
      PROVE  Net[h] = 0
  <2>1. h.op = "call"
    BY <1>3, SimplifiedOps
  <2> QED BY <1>1, <2>1 DEF ShapeOf
<1>4. ASSUME NEW close \in Closings, NEW depth \in Int, h = SimplifiedChoice(close, depth)
      PROVE  Net[h] = 0
  <2>1. h.op = "choice" /\ h.alts = SimplifiedAlternatives(close, depth)
    BY <1>4, SimplifiedChoiceIs
  <2>2. 4 \in DOMAIN h.alts /\ h.alts[4][2] = << >>
    BY <2>1 DEF SimplifiedAlternatives
  <2>3. << >> \in Parts(h)
    BY <2>1, <2>2 DEF Parts
  <2>4. PICK g : HeightsOf(g, << >>, Net[h])
    BY <1>1, <2>3 DEF Flows
  <2>5. g[0] = 0 /\ g[Len(<< >>)] = Net[h]
    BY <2>4 DEF HeightsOf
  <2> QED BY <2>5
<1> QED BY <1>2, <1>3, <1>4 DEF Simplified

\* What the machine relies on when it runs an instruction.
Openers == {"open", "adopt"}
Keepers == {"leaf", "number", "skip", "keep", "expect", "mark"}
Sound(h) ==
  /\ h.op \in Openers => Effect(h) = 1 /\ h.node # "ROOT"
  /\ h.op = "close" => Effect(h) = -1
  /\ h.op \in Keepers => Effect(h) = 0
  /\ h.op \in {"choice", "loop"} =>
       AlternativesOf(h) /\ \A i \in DOMAIN h.alts : Flows(h.alts[i][2], Effect(h))
  /\ h.op = "choice" => Effect(h) = 0 \/ \E i \in DOMAIN h.alts : h.alts[i][1] = << >>
  /\ h.op = "loop" => Effect(h) = 0
  /\ h.op = "whengot" => Flows(h.body, Effect(h))
  /\ h.op = "call" => Effect(h) = 0 /\ Flows(Function(h.f, h.n), 0)

LEMMA SimplifiedRestFlows ==
  ASSUME NEW close \in Closings, NEW depth \in Int
  PROVE  Flows(Function("simplified_rest", << close, depth >>), 0)
<1>1. Function("simplified_rest", << close, depth >>) = SimplifiedRest(close, depth)
  BY DEF Function
<1>2. SimplifiedChoice(close, depth) \in Simplified
  BY DEF Simplified
<1> QED BY <1>1, <1>2, SimplifiedEffect, SimplifiedChoiceIs, FlowsOne DEF Steps

LEMMA SimplifiedSound ==
  ASSUME NEW h \in Simplified
  PROVE  Sound(h)
<1>1. Effect(h) = 0
  BY SimplifiedEffect
<1>2. CASE h = Skip
  <2>1. h.op = "skip"
    BY <1>2, SimplifiedOps
  <2> QED BY <1>1, <2>1 DEF Sound, Openers, Keepers
<1>3. ASSUME NEW close \in Closings, NEW depth \in Int, h = SimplifiedCall(close, depth)
      PROVE  Sound(h)
  <2>1. h.op = "call" /\ h.f = "simplified_rest" /\ h.n = << close, depth >>
    BY <1>3, SimplifiedOps
  <2>2. Flows(Function(h.f, h.n), 0)
    BY <2>1, SimplifiedRestFlows
  <2> QED BY <1>1, <2>1, <2>2 DEF Sound, Openers, Keepers
<1>4. ASSUME NEW close \in Closings, NEW depth \in Int, h = SimplifiedChoice(close, depth)
      PROVE  Sound(h)
  <2> DEFINE alts == SimplifiedAlternatives(close, depth)
             deeper == SimplifiedCall(close, depth + 1)
             higher == SimplifiedCall(close, depth - 1)
             again == SimplifiedCall(close, depth)
  <2>1. h.op = "choice" /\ h.alts = alts
    BY <1>4, SimplifiedChoiceIs
  <2>2. {Skip, deeper, higher, again} \subseteq Simplified
    BY DEF Simplified
  <2>3. \A k \in {Skip, deeper, higher, again} : k \in Steps /\ Effect(k) = 0
    BY <2>2, SimplifiedEffect DEF Steps
  <2> HIDE DEF deeper, higher, again
  <2>4. /\ Flows(<< Skip, deeper >>, 0) /\ Flows(<< Skip, higher >>, 0)
        /\ Flows(<< Skip, again >>, 0) /\ Flows(<< Skip >>, 0) /\ Flows(<< >>, 0)
    BY <2>3, FlowsOne, FlowsTwo, FlowsNone
  <2>5. /\ DOMAIN alts = 1 .. 5 /\ Len(alts) = 5
        /\ alts[1] = << << {"("} >>, << Skip, deeper >> >>
        /\ alts[2] = << << {")"} >>, << Skip, higher >> >>
        /\ alts[3] = << << SimplifiedEnd(close, depth) >>, << Skip >> >>
        /\ alts[4] = << << {"EOF"} >>, << >> >>
        /\ alts[5] = << << >>, << Skip, again >> >>
    BY DEF SimplifiedAlternatives, deeper, higher, again
  <2> HIDE DEF alts
  <2>6. /\ alts[1][2] = << Skip, deeper >> /\ alts[2][2] = << Skip, higher >>
        /\ alts[3][2] = << Skip >> /\ alts[4][2] = << >> /\ alts[5][2] = << Skip, again >>
    BY <2>5
  <2>7. /\ Len(alts[1][1]) = 1 /\ Len(alts[2][1]) = 1 /\ Len(alts[3][1]) = 1
        /\ Len(alts[4][1]) = 1 /\ Len(alts[5][1]) = 0 /\ alts[5][1] = << >>
    BY <2>5
  <2>8. \A i \in 1 .. 5 : i = 1 \/ i = 2 \/ i = 3 \/ i = 4 \/ i = 5
    OBVIOUS
  <2>9. \A i \in 1 .. 5 : Flows(alts[i][2], 0)
    BY <2>4, <2>6, <2>8
  <2>10. \A i \in 1 .. 5 : Len(alts[i][1]) \in 0 .. 5
    BY <2>7, <2>8
  <2>11. AlternativesOf(h)
    BY <2>1, <2>5, <2>10 DEF AlternativesOf
  <2> QED BY <1>1, <2>1, <2>5, <2>9, <2>11 DEF Sound, Openers, Keepers
<1> QED BY <1>2, <1>3, <1>4 DEF Simplified

LEMMA CallableFlows ==
  ASSUME NEW f, NEW n, Callable(f, n)
  PROVE  Flows(Function(f, n), 0)
<1>1. \A b \in Bodies : Flows(b, 0)
  BY GrammarAssumption, BalancedFlows
<1>2. CASE f \in DOMAIN Functions
  <2>1. f \notin {"binary", "binary_rest", "simplified_rest"}
    BY <1>2, GrammarAssumption
  <2>2. Function(f, n) = Functions[f]
    BY <2>1 DEF Function
  <2>3. Functions[f] \in Bodies
    BY <1>2 DEF Bodies
  <2> QED BY <1>1, <2>2, <2>3
<1>3. CASE f = "binary" /\ \E least \in Levels : n = << least >>
  <2>1. PICK least \in Levels : n = << least >>
    BY <1>3
  <2>2. Function(f, n) = Binary(least)
    BY <1>3, <2>1 DEF Function
  <2>3. Binary(least) \in Bodies
    BY <2>1 DEF Bodies
  <2> QED BY <1>1, <2>2, <2>3
<1>4. CASE f = "binary_rest" /\ \E least \in Levels : n = << least >>
  <2>1. PICK least \in Levels : n = << least >>
    BY <1>4
  <2>2. Function(f, n) = BinaryRest(least)
    BY <1>4, <2>1 DEF Function
  <2>3. BinaryRest(least) \in Bodies
    BY <2>1 DEF Bodies
  <2> QED BY <1>1, <2>2, <2>3
<1>5. CASE f = "simplified_rest" /\ \E close \in Closings : n = << close, 0 >>
  BY <1>5, SimplifiedRestFlows
<1> QED BY <1>2, <1>3, <1>4, <1>5 DEF Callable, Closings

LEMMA StepSound ==
  ASSUME NEW h \in Steps
  PROVE  Sound(h)
<1>1. CASE h \in Simplified
  BY <1>1, SimplifiedSound
<1>2. CASE h \in Instructions
  <2>1. ShapeOf(h) /\ Effect(h) = Net[h]
    BY <1>2, InstructionShape DEF Effect
  <2>2. /\ h.op \in {"choice", "loop"} => AlternativesOf(h)
        /\ \A b \in Parts(h) : Flows(b, Effect(h))
    BY <1>2, <2>1, InstructionShape
  <2>3. h.op \in Openers => Effect(h) = 1 /\ h.node # "ROOT"
    BY <2>1 DEF ShapeOf, Openers
  <2>4. /\ h.op = "close" => Effect(h) = -1
        /\ h.op \in Keepers => Effect(h) = 0
        /\ h.op = "choice" => Effect(h) = 0 \/ \E i \in DOMAIN h.alts : h.alts[i][1] = << >>
        /\ h.op = "loop" => Effect(h) = 0
    BY <2>1 DEF ShapeOf, Keepers
  <2>5. h.op \in {"choice", "loop"} => \A i \in DOMAIN h.alts : Flows(h.alts[i][2], Effect(h))
    <3>1. h.op \in {"choice", "loop"} => \A i \in DOMAIN h.alts : h.alts[i][2] \in Parts(h)
      BY DEF Parts
    <3> QED BY <2>2, <3>1
  <2>6. h.op = "whengot" => Flows(h.body, Effect(h))
    <3>1. h.op = "whengot" => h.body \in Parts(h)
      BY DEF Parts
    <3> QED BY <2>2, <3>1
  <2>7. h.op = "call" => Effect(h) = 0 /\ Flows(Function(h.f, h.n), 0)
    <3>1. h.op = "call" => Effect(h) = 0 /\ Callable(h.f, h.n)
      BY <2>1 DEF ShapeOf
    <3> QED BY <3>1, CallableFlows
  <2> QED BY <2>2, <2>3, <2>4, <2>5, <2>6, <2>7 DEF Sound
<1> QED BY <1>1, <1>2 DEF Steps


LEMMA EffectInt ==
  ASSUME NEW h \in Steps
  PROVE  Effect(h) \in Int
<1>1. CASE h \in Simplified
  BY <1>1, SimplifiedEffect
<1>2. CASE h \in Instructions
  <2>1. ShapeOf(h) /\ Effect(h) = Net[h]
    BY <1>2, InstructionShape DEF Effect
  <2> QED BY <2>1 DEF ShapeOf
<1> QED BY <1>1, <1>2 DEF Steps

-----------------------------------------------------------------------------
(* The nodes that are open *)

\* How many nodes are open before each of the instructions left and at the end: n
\* now, the root alone in the end, never less, and each instruction does what it does
\* to them or gives up.
LevelsOf(l, steps, n) ==
  /\ l \in [1 .. Len(steps) + 1 -> Nat \ {0}]
  /\ l[1] = n /\ l[Len(steps) + 1] = 1
  /\ \A i \in 1 .. Len(steps) : l[i + 1] = l[i] + Effect(steps[i]) \/ GivesUp(steps[i])
Held(steps, n) == \E l : LevelsOf(l, steps, n)

LEMMA HeldPositive ==
  ASSUME NEW steps \in Seq(Steps), NEW n, Held(steps, n)
  PROVE  n \in Nat \ {0}
<1>1. PICK l : LevelsOf(l, steps, n)
  BY DEF Held
<1>2. 1 \in 1 .. Len(steps) + 1
  OBVIOUS
<1>3. l \in [1 .. Len(steps) + 1 -> Nat \ {0}] /\ l[1] = n
  BY <1>1 DEF LevelsOf
<1> QED BY <1>2, <1>3

LEMMA HeldTail ==
  ASSUME NEW steps \in Seq(Steps), steps # << >>, NEW n, Held(steps, n), ~GivesUp(Head(steps))
  PROVE  Held(Tail(steps), n + Effect(Head(steps)))
<1>1. PICK l : LevelsOf(l, steps, n)
  BY DEF Held
<1> DEFINE rest == Tail(steps)
           m == [i \in 1 .. Len(steps) |-> l[i + 1]]
<1>2. /\ rest \in Seq(Steps) /\ Len(rest) = Len(steps) - 1 /\ Len(steps) \in Nat \ {0}
      /\ \A i \in 1 .. Len(rest) : rest[i] = steps[i + 1]
      /\ Head(steps) = steps[1]
  OBVIOUS
<1> HIDE DEF rest
<1>3. /\ l \in [1 .. Len(steps) + 1 -> Nat \ {0}]
      /\ l[1] = n /\ l[Len(steps) + 1] = 1
      /\ \A i \in 1 .. Len(steps) : l[i + 1] = l[i] + Effect(steps[i]) \/ GivesUp(steps[i])
  BY <1>1 DEF LevelsOf
<1>4. \A i \in 1 .. Len(steps) : i + 1 \in 1 .. Len(steps) + 1
  BY <1>2
<1>5. m \in [1 .. Len(steps) -> Nat \ {0}]
  BY <1>3, <1>4
<1>6. \A i \in 1 .. Len(steps) : m[i] = l[i + 1]
  OBVIOUS
<1> HIDE DEF m
<1>7. m[1] = n + Effect(Head(steps))
  <2>1. 1 \in 1 .. Len(steps) /\ 1 + 1 = 2
    BY <1>2
  <2>2. l[1 + 1] = l[1] + Effect(steps[1])
    BY <1>2, <1>3, <2>1
  <2> QED BY <1>2, <1>3, <1>6, <2>1, <2>2
<1>8. m[Len(rest) + 1] = 1
  <2>1. Len(rest) + 1 = Len(steps) /\ Len(steps) \in 1 .. Len(steps)
    BY <1>2
  <2> QED BY <1>3, <1>6, <2>1
<1>9. ASSUME NEW i \in 1 .. Len(rest)
      PROVE  m[i + 1] = m[i] + Effect(rest[i]) \/ GivesUp(rest[i])
  <2>1. i \in 1 .. Len(steps) /\ i + 1 \in 1 .. Len(steps)
    BY <1>2
  <2>2. l[(i + 1) + 1] = l[i + 1] + Effect(steps[i + 1]) \/ GivesUp(steps[i + 1])
    BY <1>3, <2>1
  <2>3. m[i] = l[i + 1] /\ m[i + 1] = l[(i + 1) + 1] /\ rest[i] = steps[i + 1]
    BY <1>2, <1>6, <2>1
  <2> QED BY <2>2, <2>3
<1>10. m \in [1 .. Len(rest) + 1 -> Nat \ {0}]
  <2>1. Len(rest) + 1 = Len(steps)
    BY <1>2
  <2> QED BY <1>5, <2>1
<1>11. LevelsOf(m, rest, n + Effect(Head(steps)))
  BY <1>7, <1>8, <1>9, <1>10 DEF LevelsOf
<1> QED BY <1>11 DEF Held, rest

LEMMA HeldJoined ==
  ASSUME NEW b, NEW net \in Int, Flows(b, net), NEW rest \in Seq(Steps), NEW n \in Nat \ {0},
         Held(rest, n + net)
  PROVE  b \o rest \in Seq(Steps) /\ Held(b \o rest, n)
<1>1. PICK g : HeightsOf(g, b, net)
  BY DEF Flows
<1>2. PICK l : LevelsOf(l, rest, n + net)
  BY DEF Held
<1>3. b \in Seq(Steps)
  BY DEF Flows
<1>4. PICK steps \in Seq(Steps) : steps = b \o rest /\ Joined(steps, b, rest)
  BY <1>3, TwoParts, Zenon
<1> DEFINE k == Len(b)
           m == [i \in 1 .. Len(steps) + 1 |-> IF i <= k + 1 THEN n + g[i - 1] ELSE l[i - k]]
<1>5. /\ k \in Nat /\ Len(rest) \in Nat /\ Len(steps) = k + Len(rest)
      /\ \A i \in 1 .. k + Len(rest) : steps[i] = IF i <= k THEN b[i] ELSE rest[i - k]
  BY <1>3, <1>4 DEF Joined
<1>6. /\ g \in [0 .. k -> Int] /\ g[0] = 0 /\ g[k] = net
      /\ \A i \in 1 .. k : /\ g[i] >= 0 \/ g[i] >= net
                           /\ g[i] = g[i - 1] + Effect(b[i]) \/ GivesUp(b[i])
  BY <1>1 DEF HeightsOf
<1>7. /\ l \in [1 .. Len(rest) + 1 -> Nat \ {0}]
      /\ l[1] = n + net /\ l[Len(rest) + 1] = 1
      /\ \A i \in 1 .. Len(rest) : l[i + 1] = l[i] + Effect(rest[i]) \/ GivesUp(rest[i])
  BY <1>2 DEF LevelsOf
<1>8. n + net \in Nat \ {0}
  BY <1>7, <1>5
<1> HIDE DEF k
<1>9. \A i \in 0 .. k : n + g[i] \in Nat \ {0}
  <2> TAKE i \in 0 .. k
  <2>1. g[i] \in Int /\ (g[i] >= 0 \/ g[i] >= net)
    <3>1. i = 0 \/ i \in 1 .. k
      BY <1>5
    <3> QED BY <1>6, <3>1
  <2> QED BY <1>8, <2>1
<1>10. /\ \A i \in 1 .. k + 1 : i - 1 \in 0 .. k
       /\ \A i \in 1 .. Len(steps) + 1 : ~(i <= k + 1) => i - k \in 1 .. Len(rest) + 1
       /\ \A i \in 1 .. Len(steps) + 1 : i <= k + 1 => i \in 1 .. k + 1
  BY <1>5
<1>11. \A i \in 1 .. Len(steps) + 1 : m[i] = IF i <= k + 1 THEN n + g[i - 1] ELSE l[i - k]
  OBVIOUS
<1>12. m \in [1 .. Len(steps) + 1 -> Nat \ {0}]
  <2>1. \A i \in 1 .. Len(steps) + 1 : m[i] \in Nat \ {0}
    BY <1>7, <1>9, <1>10, <1>11
  <2>2. m = [i \in 1 .. Len(steps) + 1 |-> m[i]]
    OBVIOUS
  <2> HIDE DEF m
  <2> QED BY <2>1, <2>2
<1> HIDE DEF m
<1>13. m[1] = n
  <2>1. 1 \in 1 .. Len(steps) + 1 /\ 1 <= k + 1 /\ 1 - 1 = 0
    BY <1>5
  <2> QED BY <1>6, <1>11, <2>1
<1>14. \A i \in 1 .. Len(rest) + 1 : m[i + k] = l[i]
  <2> TAKE i \in 1 .. Len(rest) + 1
  <2>1. i + k \in 1 .. Len(steps) + 1 /\ (i + k) - k = i
    BY <1>5
  <2>2. CASE i = 1
    <3>1. i + k <= k + 1 /\ (i + k) - 1 = k
      BY <1>5, <2>2
    <3> QED BY <1>6, <1>7, <1>11, <2>1, <2>2, <3>1
  <2>3. CASE i # 1
    <3>1. ~(i + k <= k + 1)
      BY <1>5, <2>3
    <3> QED BY <1>11, <2>1, <3>1
  <2> QED BY <2>2, <2>3
<1>15. m[Len(steps) + 1] = 1
  <2>1. Len(rest) + 1 \in 1 .. Len(rest) + 1 /\ (Len(rest) + 1) + k = Len(steps) + 1
    BY <1>5
  <2> QED BY <1>7, <1>14, <2>1
<1>16. ASSUME NEW i \in 1 .. Len(steps)
       PROVE  m[i + 1] = m[i] + Effect(steps[i]) \/ GivesUp(steps[i])
  <2>1. CASE i <= k
    <3>1. /\ i \in 1 .. k /\ i \in 1 .. Len(steps) + 1 /\ i + 1 \in 1 .. Len(steps) + 1
          /\ i <= k + 1 /\ i + 1 <= k + 1 /\ (i + 1) - 1 = i /\ i - 1 \in 0 .. k /\ i \in 0 .. k
      BY <1>5, <2>1
    <3>2. m[i + 1] = n + g[i] /\ m[i] = n + g[i - 1] /\ steps[i] = b[i]
      BY <1>5, <1>11, <2>1, <3>1
    <3>3. Effect(b[i]) \in Int
      <4>1. b[i] \in Steps
        BY <1>3, <3>1 DEF k
      <4> QED BY <4>1, EffectInt
    <3>4. g[i] \in Int /\ g[i - 1] \in Int /\ (g[i] = g[i - 1] + Effect(b[i]) \/ GivesUp(b[i]))
      BY <1>6, <3>1
    <3>5. CASE g[i] = g[i - 1] + Effect(b[i])
      <4>1. n + g[i] = (n + g[i - 1]) + Effect(b[i])
        BY <3>3, <3>4, <3>5
      <4> QED BY <3>2, <4>1
    <3> QED BY <3>2, <3>4, <3>5
  <2>2. CASE ~(i <= k)
    <3>1. PICK j \in 1 .. Len(rest) : j = i - k
      BY <1>5, <2>2
    <3>2. /\ j + k = i /\ (j + 1) + k = i + 1 /\ j \in 1 .. Len(rest) + 1
          /\ j + 1 \in 1 .. Len(rest) + 1
      BY <1>5, <3>1
    <3>3. m[i] = l[j] /\ m[i + 1] = l[j + 1]
      BY <1>14, <3>2
    <3>4. steps[i] = rest[j]
      BY <1>5, <2>2, <3>1
    <3> QED BY <1>7, <3>3, <3>4
  <2> QED BY <2>1, <2>2
<1>17. LevelsOf(m, steps, n)
  BY <1>12, <1>13, <1>15, <1>16 DEF LevelsOf
<1>18. steps \in Seq(Steps) /\ Held(steps, n)
  BY <1>17 DEF Held
<1> QED BY <1>4, <1>18, Zenon


-----------------------------------------------------------------------------
(* The tree *)

\* The nodes that are open: the root, below those of other kinds.
GoodTree(t) ==
  /\ \E S : t \in Seq(S)
  /\ t # << >>
  /\ \A i \in 1 .. Len(t) : "kind" \in DOMAIN t[i]
  /\ t[1].kind = "ROOT"
  /\ \A i \in 2 .. Len(t) : t[i].kind # "ROOT"

\* A node that grows keeps its kind.
OfKind(node, kind) == "kind" \in DOMAIN node /\ node.kind = kind

LEMMA NewNodeKind == ASSUME NEW kind PROVE OfKind(NewNode(kind), kind)
BY DEF OfKind, NewNode

LEMMA GrownKind ==
  ASSUME NEW node, NEW kind, OfKind(node, kind), NEW x
  PROVE  /\ OfKind([node EXCEPT !.marks = x], kind)
         /\ OfKind([node EXCEPT !.texts = x], kind)
         /\ OfKind([node EXCEPT !.children = x], kind)
<1>1. ASSUME NEW field, field # "kind"
      PROVE  OfKind([node EXCEPT ![field] = x], kind)
  BY <1>1 DEF OfKind
<1>2. "marks" # "kind" /\ "texts" # "kind" /\ "children" # "kind"
  OBVIOUS
<1> QED BY <1>1, <1>2

LEMMA MarkedKind ==
  ASSUME NEW node, NEW kind, OfKind(node, kind), NEW mark
  PROVE  OfKind(WithMark(node, mark), kind)
<1>1. \/ WithMark(node, mark) = node
      \/ WithMark(node, mark) = [node EXCEPT !.marks = Append(node.marks, mark)]
  BY Zenon DEF WithMark
<1>2. OfKind([node EXCEPT !.marks = Append(node.marks, mark)], kind)
  BY GrownKind
<1> QED BY <1>1, <1>2, Zenon

LEMMA TokenKind ==
  ASSUME NEW node, NEW kind, OfKind(node, kind), NEW token
  PROVE  OfKind(WithToken(node, token), kind)
<1>1. \/ WithToken(node, token) = WithMark(node, token.text)
      \/ WithToken(node, token) = [node EXCEPT !.texts = Append(node.texts, Value(token))]
  BY Zenon DEF WithToken
<1>2. OfKind([node EXCEPT !.texts = Append(node.texts, Value(token))], kind)
  BY GrownKind
<1>3. OfKind(WithMark(node, token.text), kind)
  BY MarkedKind
<1> QED BY <1>1, <1>2, <1>3, Zenon

LEMMA ChildKind ==
  ASSUME NEW node, NEW kind, OfKind(node, kind), NEW child
  PROVE  OfKind(AddChild(node, child), kind) /\ OfKind(WithoutLastChild(node), kind)
<1> DEFINE more == Append(node.children, child)
           fewer == SubSeq(node.children, 1, Len(node.children) - 1)
<1>1. /\ AddChild(node, child) = [node EXCEPT !.children = more]
      /\ WithoutLastChild(node) = [node EXCEPT !.children = fewer]
  BY Zenon DEF AddChild, WithoutLastChild
<1> HIDE DEF more, fewer
<1>2. OfKind([node EXCEPT !.children = more], kind) /\ OfKind([node EXCEPT !.children = fewer], kind)
  BY GrownKind
<1> QED BY <1>1, <1>2, Zenon

LEMMA TreeSet ==
  ASSUME NEW t, GoodTree(t), NEW node, OfKind(node, t[Len(t)].kind)
  PROVE  /\ GoodTree([t EXCEPT ![Len(t)] = node])
         /\ Len([t EXCEPT ![Len(t)] = node]) = Len(t)
<1>1. PICK S : t \in Seq(S)
  BY DEF GoodTree
<1> DEFINE u == [t EXCEPT ![Len(t)] = node]
<1>2. t # << >> /\ Len(t) \in Nat \ {0}
  BY <1>1 DEF GoodTree
<1>3. /\ u \in Seq(S \union {node}) /\ Len(u) = Len(t)
      /\ \A i \in 1 .. Len(t) : u[i] = IF i = Len(t) THEN node ELSE t[i]
  BY <1>1, <1>2
<1> HIDE DEF u
<1>4. \A i \in 1 .. Len(t) : "kind" \in DOMAIN u[i] /\ u[i].kind = t[i].kind
  BY <1>3 DEF GoodTree, OfKind
<1>5. u # << >>
  BY <1>2, <1>3
<1>6. 1 \in 1 .. Len(t) /\ \A i \in 2 .. Len(t) : i \in 1 .. Len(t)
  BY <1>2
<1>7. GoodTree(u)
  BY <1>3, <1>4, <1>5, <1>6 DEF GoodTree
<1> QED BY <1>3, <1>7 DEF u

LEMMA TreeAppended ==
  ASSUME NEW t, GoodTree(t), NEW node, NEW kind, OfKind(node, kind), kind # "ROOT"
  PROVE  GoodTree(Append(t, node)) /\ Len(Append(t, node)) = Len(t) + 1
<1>1. PICK S : t \in Seq(S)
  BY DEF GoodTree
<1> DEFINE u == Append(t, node)
<1>2. t # << >> /\ Len(t) \in Nat \ {0}
  BY <1>1 DEF GoodTree
<1>3. /\ u \in Seq(S \union {node}) /\ Len(u) = Len(t) + 1
      /\ \A i \in 1 .. Len(t) : u[i] = t[i]
      /\ u[Len(t) + 1] = node
  BY <1>1
<1> HIDE DEF u
<1>4. \A i \in 1 .. Len(u) : i \in 1 .. Len(t) \/ i = Len(t) + 1
  BY <1>2, <1>3
<1>5. \A i \in 1 .. Len(u) : "kind" \in DOMAIN u[i]
  BY <1>3, <1>4 DEF GoodTree, OfKind
<1>6. u[1].kind = "ROOT"
  BY <1>2, <1>3 DEF GoodTree
<1>7. \A i \in 2 .. Len(u) : u[i].kind # "ROOT"
  <2>1. \A i \in 2 .. Len(u) : (i \in 1 .. Len(t) /\ i \in 2 .. Len(t)) \/ i = Len(t) + 1
    BY <1>2, <1>3
  <2> QED BY <1>3, <2>1 DEF GoodTree, OfKind
<1>8. u # << >>
  BY <1>2, <1>3
<1>9. GoodTree(u)
  BY <1>3, <1>5, <1>6, <1>7, <1>8 DEF GoodTree
<1> QED BY <1>3, <1>9 DEF u

LEMMA TreeCut ==
  ASSUME NEW t, GoodTree(t), Len(t) # 1
  PROVE  GoodTree(SubSeq(t, 1, Len(t) - 1)) /\ Len(SubSeq(t, 1, Len(t) - 1)) = Len(t) - 1
<1>1. PICK S : t \in Seq(S)
  BY DEF GoodTree
<1> DEFINE u == SubSeq(t, 1, Len(t) - 1)
<1>2. t # << >> /\ Len(t) \in Nat /\ Len(t) >= 2
  <2>1. t # << >>
    BY DEF GoodTree
  <2> QED BY <1>1, <2>1
<1>3. /\ u \in Seq(S) /\ Len(u) = Len(t) - 1
      /\ \A i \in 1 .. Len(t) - 1 : u[i] = t[i]
  <2>1. Len(t) - 1 \in 1 .. Len(t)
    BY <1>2
  <2>2. u \in Seq(S)
    BY <1>1, <2>1
  <2>3. Len(u) = Len(t) - 1
    BY <1>1, <2>1
  <2>4. \A i \in 1 .. Len(t) - 1 : u[i] = t[i]
    BY <1>1, <2>1
  <2> QED BY <2>2, <2>3, <2>4
<1> HIDE DEF u
<1>4. /\ 1 \in 1 .. Len(t) - 1
      /\ \A i \in 1 .. Len(t) - 1 : i \in 1 .. Len(t)
      /\ \A i \in 2 .. Len(t) - 1 : i \in 1 .. Len(t) - 1 /\ i \in 2 .. Len(t)
  BY <1>2
<1>5. u # << >>
  BY <1>2, <1>3
<1>6. GoodTree(u)
  BY <1>3, <1>4, <1>5 DEF GoodTree
<1> QED BY <1>3, <1>6 DEF u

\* The tree starts with its root.
LEMMA TreeStarted ==
  ASSUME NEW node, OfKind(node, "ROOT")
  PROVE  GoodTree(<< node >>) /\ Len(<< node >>) = 1
<1>1. PICK t : t = << node >>
  OBVIOUS
<1>2. t \in Seq({node}) /\ t # << >> /\ Len(t) = 1 /\ t[1] = node
  BY <1>1
<1>3. \A i \in 1 .. Len(t) : i = 1
  BY <1>2
<1>4. \A i \in 2 .. Len(t) : FALSE
  BY <1>2
<1>5. GoodTree(t)
  BY <1>2, <1>3, <1>4 DEF GoodTree, OfKind
<1> QED BY <1>1, <1>2, <1>5

\* Closing a node leaves those above it.
LEMMA TreeClosed ==
  ASSUME NEW t, GoodTree(t), Len(t) # 1, NEW child
  PROVE  LET outer == SubSeq(t, 1, Len(t) - 1)
             u == [outer EXCEPT ![Len(outer)] = AddChild(@, child)]
         IN  GoodTree(u) /\ Len(u) = Len(t) - 1
<1> DEFINE outer == SubSeq(t, 1, Len(t) - 1)
           u == [outer EXCEPT ![Len(outer)] = AddChild(@, child)]
<1>1. GoodTree(outer) /\ Len(outer) = Len(t) - 1
  BY TreeCut
<1> HIDE DEF outer
<1>2. PICK S : outer \in Seq(S)
  BY <1>1 DEF GoodTree
<1>3. outer # << >> /\ Len(outer) \in 1 .. Len(outer)
  <2>1. outer # << >>
    BY <1>1 DEF GoodTree
  <2> QED BY <1>2, <2>1
<1>4. OfKind(outer[Len(outer)], outer[Len(outer)].kind)
  BY <1>1, <1>3 DEF GoodTree, OfKind
<1>5. OfKind(AddChild(outer[Len(outer)], child), outer[Len(outer)].kind)
  BY <1>4, ChildKind
<1>6. u = [outer EXCEPT ![Len(outer)] = AddChild(outer[Len(outer)], child)]
  BY <1>2, <1>3
<1> DEFINE node == AddChild(outer[Len(outer)], child)
<1>7. GoodTree(u) /\ Len(u) = Len(outer)
  <2> HIDE DEF node
  <2>1. /\ GoodTree([outer EXCEPT ![Len(outer)] = node])
        /\ Len([outer EXCEPT ![Len(outer)] = node]) = Len(outer)
    BY <1>1, <1>5, TreeSet DEF node
  <2> QED BY <1>6, <2>1, Zenon DEF node
<1>8. GoodTree(u) /\ Len(u) = Len(t) - 1
  <2> HIDE DEF u
  <2> QED BY <1>1, <1>7
<1> QED BY <1>8, Zenon DEF outer


-----------------------------------------------------------------------------
(* The machine *)

\* The machine between two instructions: what is left to do fits the nodes that are
\* open, and a function that returned none has reported an error.
MachineInv ==
  /\ todo \in Seq(Steps)
  /\ got \in BOOLEAN /\ failed \in BOOLEAN
  /\ ~got => failed
  /\ failed => tree = << >>
  /\ ~failed => GoodTree(tree) /\ Held(todo, Len(tree))
  /\ result \in {"running", "accepted", "rejected", "overrun"}

LEMMA CurrentIs ==
  ASSUME MachineInv, Running
  PROVE  /\ todo # << >> /\ todo \in Seq(Steps) /\ Tail(todo) \in Seq(Steps)
         /\ Current \in Steps /\ Sound(Current) /\ Effect(Current) \in Int
<1>1. todo # << >> /\ todo \in Seq(Steps)
  BY DEF MachineInv, Running
<1>2. Tail(todo) \in Seq(Steps) /\ Head(todo) \in Steps
  BY <1>1
<1>3. Current \in Steps
  BY <1>2 DEF Current
<1> QED BY <1>1, <1>2, <1>3, StepSound, EffectInt

LEMMA NothingBefore == ASSUME NEW S, NEW s \in Seq(S) PROVE << >> \o s = s
BY ConcatEmptySeq

\* An instruction that has done its part.
LEMMA Done ==
  ASSUME MachineInv, Running, ~GivesUp(Current), Continue(<< >>),
         got' = got \/ got' = TRUE, failed' = failed, result' = result,
         failed => tree' = tree,
         ~failed => GoodTree(tree') /\ Len(tree') = Len(tree) + Effect(Current)
  PROVE  MachineInv'
<1>1. todo # << >> /\ todo \in Seq(Steps) /\ Tail(todo) \in Seq(Steps)
  BY CurrentIs
<1>2. todo' = Tail(todo)
  BY <1>1, NothingBefore, Zenon DEF Continue
<1>3. ASSUME ~failed PROVE Held(Tail(todo), Len(tree) + Effect(Head(todo)))
  BY <1>1, <1>3, HeldTail DEF MachineInv, Current
<1>4. ~failed' => GoodTree(tree') /\ Held(todo', Len(tree'))
  BY <1>2, <1>3 DEF Current
<1>5. /\ got' \in BOOLEAN /\ failed' \in BOOLEAN /\ (~got' => failed')
      /\ (failed' => tree' = << >>)
      /\ result' \in {"running", "accepted", "rejected", "overrun"}
  BY DEF MachineInv
<1>6. todo' \in Seq(Steps)
  BY <1>1, <1>2
<1> QED BY <1>4, <1>5, <1>6 DEF MachineInv

\* An instruction that reports an error.
LEMMA Rejected ==
  ASSUME MachineInv, Running, Continue(<< >>), Reject, got' \in BOOLEAN, result' = result
  PROVE  MachineInv'
<1>1. todo \in Seq(Steps) /\ Tail(todo) \in Seq(Steps)
  BY CurrentIs
<1>2. todo' = Tail(todo)
  BY <1>1, NothingBefore, Zenon DEF Continue
<1>3. todo' \in Seq(Steps)
  BY <1>1, <1>2
<1>4. failed' = TRUE /\ tree' = << >>
  BY DEF Reject
<1>5. result' \in {"running", "accepted", "rejected", "overrun"}
  BY DEF MachineInv
<1> QED BY <1>3, <1>4, <1>5 DEF MachineInv

\* An instruction whose place a body takes.
LEMMA Replaced ==
  ASSUME MachineInv, Running, ~GivesUp(Current), NEW b, b \in Seq(Steps), Continue(b),
         failed \/ Flows(b, Effect(Current)), UNCHANGED << tree, got, failed, result >>
  PROVE  MachineInv'
<1>1. todo # << >> /\ todo \in Seq(Steps) /\ Tail(todo) \in Seq(Steps) /\ Effect(Current) \in Int
  BY CurrentIs
<1>2. todo' = b \o Tail(todo)
  BY DEF Continue
<1>3. b \o Tail(todo) \in Seq(Steps)
  BY <1>1
<1>4. todo' \in Seq(Steps)
  BY <1>2, <1>3, Zenon
<1>5. ASSUME ~failed PROVE Held(b \o Tail(todo), Len(tree))
  <2>1. Held(Tail(todo), Len(tree) + Effect(Current))
    BY <1>1, <1>5, HeldTail DEF MachineInv, Current
  <2>2. Len(tree) \in Nat \ {0}
    BY <1>1, <1>5, HeldPositive DEF MachineInv
  <2>3. Flows(b, Effect(Current))
    BY <1>5
  <2> QED BY <1>1, <2>1, <2>2, <2>3, HeldJoined
<1>6. ~failed' => Held(todo', Len(tree'))
  BY <1>2, <1>5, Zenon
<1> QED BY <1>4, <1>6 DEF MachineInv

\* A loop that goes round once more.
LEMMA Repeated ==
  ASSUME MachineInv, Running, NEW b, b \in Seq(Steps), Continue(b \o << Current >>),
         failed \/ Flows(b, 0), UNCHANGED << tree, got, failed, result >>
  PROVE  MachineInv'
<1>1. todo # << >> /\ todo \in Seq(Steps) /\ Tail(todo) \in Seq(Steps) /\ Current \in Steps
  BY CurrentIs
<1>2. todo' = b \o todo
  <2>1. << Current >> \in Seq(Steps) /\ << Current >> \o Tail(todo) = todo
    BY <1>1 DEF Current
  <2>2. (b \o << Current >>) \o Tail(todo) = b \o (<< Current >> \o Tail(todo))
    BY <1>1, <2>1, ConcatAssociative
  <2> QED BY <2>1, <2>2, Zenon DEF Continue
<1>3. b \o todo \in Seq(Steps)
  BY <1>1
<1>4. todo' \in Seq(Steps)
  BY <1>2, <1>3, Zenon
<1>5. ASSUME ~failed PROVE Held(b \o todo, Len(tree))
  <2>1. Held(todo, Len(tree)) /\ Len(tree) \in Nat \ {0}
    BY <1>1, <1>5, HeldPositive DEF MachineInv
  <2>2. Held(todo, Len(tree) + 0)
    BY <2>1
  <2>3. Flows(b, 0) /\ 0 \in Int
    BY <1>5
  <2> QED BY <1>1, <2>1, <2>2, <2>3, HeldJoined
<1>6. ~failed' => Held(todo', Len(tree'))
  BY <1>2, <1>5, Zenon
<1> QED BY <1>4, <1>6 DEF MachineInv

\* Which alternative is taken.
LEMMA CandidateIs ==
  ASSUME NEW alts, Len(alts) \in Nat, DOMAIN alts = 1 .. Len(alts)
  PROVE  /\ Candidate(alts) \in DOMAIN alts => ~Refuted(alts[Candidate(alts)][1])
         /\ \A i \in DOMAIN alts : ~Refuted(alts[i][1]) => Candidate(alts) \in DOMAIN alts
<1> DEFINE S == {i \in 1 .. Len(alts) + 1 : i \in DOMAIN alts => ~Refuted(alts[i][1])}
<1>1. Len(alts) + 1 \in S
  OBVIOUS
<1>2. S \in SUBSET Nat
  OBVIOUS
<1> HIDE DEF S
<1>3. Min(S) \in S /\ \A i \in S : Min(S) <= i
  BY <1>1, <1>2, MinIsLeast
<1>4. Candidate(alts) = Min(S)
  BY DEF Candidate, S
<1>5. Min(S) \in DOMAIN alts => ~Refuted(alts[Min(S)][1])
  BY <1>3 DEF S
<1>6. ASSUME NEW i \in DOMAIN alts, ~Refuted(alts[i][1])
      PROVE  Min(S) \in DOMAIN alts
  <2>1. i \in S
    BY <1>6 DEF S
  <2>2. Min(S) <= i /\ Min(S) \in 1 .. Len(alts) + 1
    BY <1>3, <2>1 DEF S
  <2> QED BY <2>2
<1> QED BY <1>4, <1>5, <1>6

\* A condition on no token holds.
LEMMA NoneRefuted == ASSUME Unread \in Nat PROVE ~Refuted(<< >>)
<1> DEFINE S == {Len(<< >>), Unread}
<1>1. 0 \in S /\ S \in SUBSET Nat
  OBVIOUS
<1>2. Min(S) \in Nat /\ Min(S) <= 0
  <2> HIDE DEF S
  <2> QED BY <1>1, MinIsLeast
<1> QED BY <1>2 DEF Refuted

\* The body that is chosen is one of the instruction's and leaves what that does.
LEMMA ChosenFlows ==
  ASSUME MachineInv, Running, Unread \in Nat, Current.op \in {"choice", "loop"}
  PROVE  /\ Chosen(Current) \in Seq(Steps)
         /\ failed \/ Flows(Chosen(Current), Effect(Current))
<1>1. Sound(Current)
  BY CurrentIs
<1> DEFINE h == Current
           c == Candidate(h.alts)
<1> HIDE DEF h
<1>2. AlternativesOf(h) /\ \A i \in DOMAIN h.alts : Flows(h.alts[i][2], Effect(h))
  BY <1>1 DEF Sound, h
<1>3. CASE Bypassed(h)
  BY <1>3 DEF Chosen, Bypassed, h
<1>4. CASE ~Bypassed(h) /\ c \in DOMAIN h.alts
  <2>1. Chosen(h) = h.alts[c][2]
    BY <1>4 DEF Chosen
  <2>2. Flows(Chosen(h), Effect(h))
    BY <1>2, <1>4, <2>1
  <2> QED BY <2>2 DEF Flows, h
<1>5. CASE ~Bypassed(h) /\ c \notin DOMAIN h.alts
  <2>1. Chosen(h) = << >>
    BY <1>5 DEF Chosen
  <2>2. \A i \in DOMAIN h.alts : h.alts[i][1] # << >>
    BY <1>2, <1>5, CandidateIs, NoneRefuted DEF AlternativesOf
  <2>3. Effect(h) = 0
    BY <1>1, <2>2 DEF Sound, h
  <2> QED BY <2>1, <2>3, FlowsNone DEF h
<1> QED BY <1>3, <1>4, <1>5


LEMMA MachineInit == Init => MachineInv
<1> SUFFICES ASSUME Init PROVE MachineInv
  OBVIOUS
<1>1. /\ todo = << Call(input.entry) >> /\ tree = << NewNode("ROOT") >>
      /\ got = TRUE /\ failed = FALSE /\ result = "running"
      /\ input.entry \in DOMAIN Functions
  BY InputsAssumption DEF Init
<1> DEFINE h == Call(input.entry)
<1>2. Flows(<< h >>, 0)
  <2>1. << h >> \in Bodies
    BY <1>1 DEF Bodies
  <2> QED BY <2>1, GrammarAssumption, BalancedFlows
<1> HIDE DEF h
<1>3. << h >> \in Seq(Steps)
  BY <1>2 DEF Flows
<1>4. Held(<< h >>, 1)
  <2> DEFINE l == [i \in 1 .. 2 |-> 1]
  <2>1. PICK g : HeightsOf(g, << h >>, 0)
    BY <1>2 DEF Flows
  <2>2. g[0] = 0 /\ g[1] = 0 /\ (g[1] = g[0] + Effect(h) \/ GivesUp(h))
    BY <2>1 DEF HeightsOf
  <2>3. Effect(h) = 0 \/ GivesUp(h)
    <3>1. h \in Steps
      BY <1>3
    <3> QED BY <2>2, <3>1, EffectInt
  <2>4. LevelsOf(l, << h >>, 1)
    BY <2>3 DEF LevelsOf
  <2> HIDE DEF l
  <2> QED BY <2>4 DEF Held
<1>5. GoodTree(tree) /\ Len(tree) = 1
  <2>1. GoodTree(<< NewNode("ROOT") >>) /\ Len(<< NewNode("ROOT") >>) = 1
    BY NewNodeKind, TreeStarted
  <2> QED BY <1>1, <2>1
<1> QED BY <1>1, <1>3, <1>4, <1>5 DEF MachineInv, h

\* What the instructions that build make of a tree that is there.
LEMMA TopIs ==
  ASSUME MachineInv, ~failed
  PROVE  GoodTree(tree) /\ OfKind(Top, tree[Len(tree)].kind) /\ Len(tree) \in Nat \ {0}
<1>1. GoodTree(tree) /\ todo \in Seq(Steps) /\ Held(todo, Len(tree))
  BY DEF MachineInv
<1>2. Len(tree) \in Nat \ {0}
  BY <1>1, HeldPositive
<1>3. Len(tree) \in 1 .. Len(tree)
  BY <1>2
<1> QED BY <1>1, <1>2, <1>3 DEF Top, OfKind, GoodTree

LEMMA TopReplaced ==
  ASSUME MachineInv, NEW node, OfKind(node, tree[Len(tree)].kind), Build(SetTop(node)),
         Effect(Current) = 0
  PROVE  /\ failed => tree' = tree
         /\ ~failed => GoodTree(tree') /\ Len(tree') = Len(tree) + Effect(Current)
<1>1. CASE failed
  BY <1>1 DEF Build
<1>2. CASE ~failed
  <2>1. tree' = [tree EXCEPT ![Len(tree)] = node]
    BY <1>2 DEF Build, SetTop
  <2>2. GoodTree(tree) /\ Len(tree) \in Nat
    BY <1>2, TopIs
  <2>3. /\ GoodTree([tree EXCEPT ![Len(tree)] = node])
        /\ Len([tree EXCEPT ![Len(tree)] = node]) = Len(tree)
    BY <2>2, TreeSet
  <2>4. GoodTree(tree') /\ Len(tree') = Len(tree)
    BY <2>1, <2>3, Zenon
  <2> QED BY <1>2, <2>2, <2>4
<1> QED BY <1>1, <1>2

LEMMA NotGivingUp ==
  ASSUME Current.op \notin {"error", "fail"}
  PROVE  ~GivesUp(Current)
BY DEF GivesUp

\* Instructions that leave the nodes as many as they are.
LEMMA KeeperIs ==
  ASSUME MachineInv, NEW op \in Keepers, Ready(op)
  PROVE  Running /\ ~GivesUp(Current) /\ Effect(Current) = 0
<1>1. Running /\ Current.op = op
  BY DEF Ready
<1>2. Sound(Current)
  BY <1>1, CurrentIs
<1>3. op \notin {"error", "fail"}
  BY DEF Keepers
<1> QED BY <1>1, <1>2, <1>3 DEF Sound, GivesUp

LEMMA SkipKept == MachineInv /\ SkipToken => MachineInv'
<1> SUFFICES ASSUME MachineInv, SkipToken PROVE MachineInv'
  OBVIOUS
<1>1. Ready("skip") /\ Continue(<< >>) /\ UNCHANGED << tree, got, failed, result >>
  BY DEF SkipToken
<1>2. Running /\ ~GivesUp(Current) /\ Effect(Current) = 0
  BY <1>1, KeeperIs DEF Keepers
<1>3. ~failed => GoodTree(tree) /\ Len(tree) \in Nat
  BY TopIs
<1>4. ~failed => GoodTree(tree') /\ Len(tree') = Len(tree) + Effect(Current)
  BY <1>1, <1>2, <1>3
<1> QED BY <1>1, <1>2, <1>4, Done

LEMMA KeepKept == MachineInv /\ KeepToken => MachineInv'
<1> SUFFICES ASSUME MachineInv, KeepToken PROVE MachineInv'
  OBVIOUS
<1>1. /\ Ready("keep") /\ Continue(<< >>) /\ UNCHANGED << got, failed, result >>
      /\ Build(SetTop(WithToken(Top, Peek(0))))
  BY DEF KeepToken
<1>2. Running /\ ~GivesUp(Current) /\ Effect(Current) = 0
  BY <1>1, KeeperIs DEF Keepers
<1>3. ~failed => OfKind(WithToken(Top, Peek(0)), tree[Len(tree)].kind)
  BY TopIs, TokenKind
<1>4. /\ failed => tree' = tree
      /\ ~failed => GoodTree(tree') /\ Len(tree') = Len(tree) + Effect(Current)
  <2>1. CASE failed
    BY <1>1, <2>1 DEF Build
  <2>2. CASE ~failed
    BY <1>1, <1>2, <1>3, <2>2, TopReplaced
  <2> QED BY <2>1, <2>2
<1> QED BY <1>1, <1>2, <1>4, Done

\* A node of its own becomes a child of the one being built.
LEMMA ChildKept ==
  ASSUME MachineInv, NEW op \in Keepers, Ready(op), Continue(<< >>), NEW child,
         Build(SetTop(AddChild(Top, child))), got' = TRUE, UNCHANGED << failed, result >>
  PROVE  MachineInv'
<1>1. Running /\ ~GivesUp(Current) /\ Effect(Current) = 0
  BY KeeperIs
<1>2. ~failed => OfKind(AddChild(Top, child), tree[Len(tree)].kind)
  BY TopIs, ChildKind
<1>3. /\ failed => tree' = tree
      /\ ~failed => GoodTree(tree') /\ Len(tree') = Len(tree) + Effect(Current)
  <2>1. CASE failed
    BY <2>1 DEF Build
  <2>2. CASE ~failed
    BY <1>1, <1>2, <2>2, TopReplaced
  <2> QED BY <2>1, <2>2
<1> QED BY <1>1, <1>3, Done

LEMMA LeafKept == MachineInv /\ (MakeLeaf \/ MakeNumber) => MachineInv'
<1> SUFFICES ASSUME MachineInv, MakeLeaf \/ MakeNumber PROVE MachineInv'
  OBVIOUS
<1>1. CASE MakeLeaf
  <2> DEFINE child == WithToken(WithMark(NewNode(Current.node), Current.mark), Peek(0))
  <2>1. /\ Ready("leaf") /\ Continue(<< >>) /\ UNCHANGED << failed, result >> /\ got' = TRUE
        /\ Build(SetTop(AddChild(Top, child)))
    BY <1>1 DEF MakeLeaf
  <2> HIDE DEF child
  <2> QED BY <2>1, ChildKept DEF Keepers
<1>2. CASE MakeNumber
  <2> DEFINE child == WithToken(NewNode("LITERAL"), Peek(0))
  <2>1. /\ Ready("number") /\ Continue(<< >>) /\ UNCHANGED << failed, result >> /\ got' = TRUE
        /\ Build(SetTop(AddChild(Top, child)))
    BY <1>2 DEF MakeNumber
  <2> HIDE DEF child
  <2> QED BY <2>1, ChildKept DEF Keepers
<1> QED BY <1>1, <1>2

LEMMA ExpectKept == MachineInv /\ ExpectToken => MachineInv'
<1> SUFFICES ASSUME MachineInv, ExpectToken PROVE MachineInv'
  OBVIOUS
<1>1. Ready("expect") /\ Continue(<< >>) /\ UNCHANGED << got, result >>
  BY DEF ExpectToken
<1>2. Running /\ ~GivesUp(Current) /\ Effect(Current) = 0
  BY <1>1, KeeperIs DEF Keepers
<1>3. CASE Peek(0).kind = Current.kind
  <2>1. UNCHANGED << tree, failed >>
    BY <1>3 DEF ExpectToken
  <2>2. ~failed => GoodTree(tree) /\ Len(tree) \in Nat
    BY TopIs
  <2>3. ~failed => GoodTree(tree') /\ Len(tree') = Len(tree) + Effect(Current)
    BY <1>2, <2>1, <2>2
  <2> QED BY <1>1, <1>2, <2>1, <2>3, Done
<1>4. CASE Peek(0).kind # Current.kind
  <2>1. Reject /\ got' \in BOOLEAN
    BY <1>1, <1>4 DEF ExpectToken, MachineInv
  <2> QED BY <1>1, <1>2, <2>1, Rejected
<1> QED BY <1>3, <1>4

LEMMA ErrorKept == MachineInv /\ (ReportError \/ FailFunction) => MachineInv'
<1> SUFFICES ASSUME MachineInv, ReportError \/ FailFunction PROVE MachineInv'
  OBVIOUS
<1>1. Running /\ Reject /\ Continue(<< >>) /\ got' \in BOOLEAN /\ result' = result
  BY DEF ReportError, FailFunction, Ready, MachineInv
<1> QED BY <1>1, Rejected

LEMMA OpenKept == MachineInv /\ OpenNode => MachineInv'
<1> SUFFICES ASSUME MachineInv, OpenNode PROVE MachineInv'
  OBVIOUS
<1> DEFINE kind == Current.node
<1>1. /\ Running /\ Current.op = "open" /\ Continue(<< >>) /\ UNCHANGED << got, failed, result >>
      /\ Build(Append(tree, NewNode(kind)))
  BY DEF OpenNode, Ready
<1>2. Effect(Current) = 1 /\ kind # "ROOT" /\ ~GivesUp(Current)
  BY <1>1, CurrentIs DEF Sound, Openers, GivesUp
<1> HIDE DEF kind
<1>3. failed => tree' = tree
  BY <1>1 DEF Build
<1>4. ASSUME ~failed PROVE GoodTree(tree') /\ Len(tree') = Len(tree) + Effect(Current)
  <2>1. tree' = Append(tree, NewNode(kind))
    BY <1>1, <1>4 DEF Build
  <2>2. GoodTree(tree)
    BY <1>4, TopIs
  <2>3. /\ GoodTree(Append(tree, NewNode(kind)))
        /\ Len(Append(tree, NewNode(kind))) = Len(tree) + 1
    BY <1>2, <2>2, NewNodeKind, TreeAppended
  <2>4. GoodTree(tree') /\ Len(tree') = Len(tree) + 1
    BY <2>1, <2>3, Zenon
  <2> QED BY <1>2, <2>4
<1> QED BY <1>1, <1>2, <1>3, <1>4, Done

LEMMA AdoptKept == MachineInv /\ AdoptChild => MachineInv'
<1> SUFFICES ASSUME MachineInv, AdoptChild PROVE MachineInv'
  OBVIOUS
<1> DEFINE kind == Current.node
           node == AddChild(NewNode(kind), LastChild(Top))
           fewer == WithoutLastChild(Top)
           left == SetTop(fewer)
<1>1. /\ Running /\ Current.op = "adopt" /\ Continue(<< >>) /\ UNCHANGED << got, failed, result >>
      /\ Build(Append(left, node))
  BY DEF AdoptChild, Ready
<1>2. Effect(Current) = 1 /\ kind # "ROOT" /\ ~GivesUp(Current)
  BY <1>1, CurrentIs DEF Sound, Openers, GivesUp
<1>3. OfKind(node, kind)
  BY NewNodeKind, ChildKind
<1>4. ~failed => OfKind(fewer, tree[Len(tree)].kind)
  BY TopIs, ChildKind
<1> HIDE DEF kind, node, fewer, left
<1>5. failed => tree' = tree
  BY <1>1 DEF Build
<1>6. ASSUME ~failed PROVE GoodTree(tree') /\ Len(tree') = Len(tree) + Effect(Current)
  <2>1. tree' = Append(left, node)
    BY <1>1, <1>6 DEF Build
  <2>2. GoodTree(tree)
    BY <1>6, TopIs
  <2>3. GoodTree(left) /\ Len(left) = Len(tree)
    <3>1. /\ GoodTree([tree EXCEPT ![Len(tree)] = fewer])
          /\ Len([tree EXCEPT ![Len(tree)] = fewer]) = Len(tree)
      BY <1>4, <1>6, <2>2, TreeSet
    <3> QED BY <3>1, Zenon DEF left, SetTop
  <2>4. GoodTree(Append(left, node)) /\ Len(Append(left, node)) = Len(left) + 1
    BY <1>2, <1>3, <2>3, TreeAppended
  <2>5. GoodTree(tree') /\ Len(tree') = Len(left) + 1
    BY <2>1, <2>4, Zenon
  <2> QED BY <1>2, <2>3, <2>5
<1> QED BY <1>1, <1>2, <1>5, <1>6, Done

LEMMA MarkKept == MachineInv /\ MarkNode => MachineInv'
<1> SUFFICES ASSUME MachineInv, MarkNode PROVE MachineInv'
  OBVIOUS
<1>1. /\ Ready("mark") /\ Continue(<< >>) /\ UNCHANGED << got, failed, result >>
      /\ Build(SetTop(WithMark(Top, Current.mark)))
  BY DEF MarkNode
<1>2. Running /\ ~GivesUp(Current) /\ Effect(Current) = 0
  BY <1>1, KeeperIs DEF Keepers
<1>3. ~failed => OfKind(WithMark(Top, Current.mark), tree[Len(tree)].kind)
  BY TopIs, MarkedKind
<1>4. /\ failed => tree' = tree
      /\ ~failed => GoodTree(tree') /\ Len(tree') = Len(tree) + Effect(Current)
  <2>1. CASE failed
    BY <1>1, <2>1 DEF Build
  <2>2. CASE ~failed
    BY <1>1, <1>2, <1>3, <2>2, TopReplaced
  <2> QED BY <2>1, <2>2
<1> QED BY <1>1, <1>2, <1>4, Done

LEMMA CloseKept == MachineInv /\ CloseNode => MachineInv'
<1> SUFFICES ASSUME MachineInv, CloseNode PROVE MachineInv'
  OBVIOUS
<1> DEFINE outer == SubSeq(tree, 1, Len(tree) - 1)
           closed == [outer EXCEPT ![Len(outer)] = AddChild(@, Top)]
<1>1. /\ Running /\ Current.op = "close" /\ Continue(<< >>) /\ UNCHANGED << failed, result >>
      /\ got' = TRUE /\ Build(closed)
  BY DEF CloseNode, Ready
<1>2. Effect(Current) = -1 /\ ~GivesUp(Current)
  BY <1>1, CurrentIs DEF Sound, GivesUp
<1>3. failed => tree' = tree
  BY <1>1 DEF Build
<1>4. ASSUME ~failed PROVE GoodTree(tree') /\ Len(tree') = Len(tree) + Effect(Current)
  <2>1. tree' = closed
    BY <1>1, <1>4 DEF Build
  <2>2. GoodTree(tree) /\ Len(tree) \in Nat
    BY <1>4, TopIs
  <2>3. Len(tree) # 1
    <3>1. Held(Tail(todo), Len(tree) + Effect(Current)) /\ Tail(todo) \in Seq(Steps)
      BY <1>1, <1>2, <1>4, CurrentIs, HeldTail DEF MachineInv, Current
    <3>2. Len(tree) + Effect(Current) \in Nat \ {0}
      BY <3>1, HeldPositive
    <3> QED BY <1>2, <2>2, <3>2
  <2>4. GoodTree(closed) /\ Len(closed) = Len(tree) - 1
    BY <2>2, <2>3, TreeClosed, Zenon
  <2> HIDE DEF closed
  <2>5. GoodTree(tree') /\ Len(tree') = Len(tree) - 1
    BY <2>1, <2>4, Zenon
  <2> QED BY <1>2, <2>2, <2>5
<1> QED BY <1>1, <1>2, <1>3, <1>4, Done

LEMMA ChooseKept == MachineInv /\ Unread \in Nat /\ Choose => MachineInv'
<1> SUFFICES ASSUME MachineInv, Unread \in Nat, Choose PROVE MachineInv'
  OBVIOUS
<1>1. /\ Running /\ Current.op = "choice" /\ UNCHANGED << tree, got, failed, result >>
      /\ Continue(Chosen(Current))
  BY DEF Choose, Ready
<1>2. /\ Chosen(Current) \in Seq(Steps)
      /\ failed \/ Flows(Chosen(Current), Effect(Current))
  BY <1>1, ChosenFlows
<1>3. ~GivesUp(Current)
  BY <1>1, NotGivingUp
<1> QED BY <1>1, <1>2, <1>3, Replaced

LEMMA RepeatKept == MachineInv /\ Unread \in Nat /\ Repeat => MachineInv'
<1> SUFFICES ASSUME MachineInv, Unread \in Nat, Repeat PROVE MachineInv'
  OBVIOUS
<1> DEFINE b == Chosen(Current)
<1>1. /\ Running /\ Current.op = "loop" /\ UNCHANGED << tree, got, failed, result >>
      /\ Continue(IF b = << >> THEN << >> ELSE b \o << Current >>)
  BY DEF Repeat, Ready
<1>2. b \in Seq(Steps) /\ (failed \/ Flows(b, Effect(Current)))
  BY <1>1, ChosenFlows
<1>3. ~GivesUp(Current) /\ Effect(Current) = 0
  BY <1>1, NotGivingUp, CurrentIs DEF Sound
<1> HIDE DEF b
<1>4. CASE b = << >>
  <2>1. Continue(b)
    BY <1>1, <1>4
  <2> QED BY <1>1, <1>2, <1>3, <2>1, Replaced
<1>5. CASE b # << >>
  <2>1. Continue(b \o << Current >>)
    BY <1>1, <1>5, Zenon
  <2> QED BY <1>1, <1>2, <1>3, <2>1, Repeated
<1> QED BY <1>4, <1>5

LEMMA CallKept == MachineInv /\ CallFunction => MachineInv'
<1> SUFFICES ASSUME MachineInv, CallFunction PROVE MachineInv'
  OBVIOUS
<1> DEFINE b == Function(Current.f, Current.n)
<1>1. /\ Running /\ Current.op = "call" /\ UNCHANGED << tree, got, failed, result >>
      /\ Continue(b)
  BY DEF CallFunction, Ready
<1>2. Effect(Current) = 0 /\ Flows(b, 0) /\ ~GivesUp(Current)
  BY <1>1, CurrentIs, NotGivingUp DEF Sound
<1> HIDE DEF b
<1>3. b \in Seq(Steps) /\ Flows(b, Effect(Current))
  BY <1>2 DEF Flows
<1> QED BY <1>1, <1>2, <1>3, Replaced

LEMMA TestKept == MachineInv /\ TestResult => MachineInv'
<1> SUFFICES ASSUME MachineInv, TestResult PROVE MachineInv'
  OBVIOUS
<1> DEFINE b == IF got THEN Current.body ELSE << >>
<1>1. /\ Running /\ Current.op = "whengot" /\ UNCHANGED << tree, got, failed, result >>
      /\ Continue(b)
  BY DEF TestResult, Ready
<1>2. Flows(Current.body, Effect(Current)) /\ ~GivesUp(Current)
  BY <1>1, CurrentIs, NotGivingUp DEF Sound
<1>3. b \in Seq(Steps) /\ (failed \/ Flows(b, Effect(Current)))
  <2>1. CASE got
    BY <1>2, <2>1 DEF Flows
  <2>2. CASE ~got
    BY <2>2 DEF MachineInv
  <2> QED BY <2>1, <2>2
<1> HIDE DEF b
<1> QED BY <1>1, <1>2, <1>3, Replaced

LEMMA OthersKept ==
  MachineInv /\ (Lex \/ Overrun \/ Finish \/ UNCHANGED vars) => MachineInv'
<1> SUFFICES ASSUME MachineInv, Lex \/ Overrun \/ Finish \/ UNCHANGED vars PROVE MachineInv'
  OBVIOUS
<1>1. /\ UNCHANGED << todo, tree, got, failed >>
      /\ result' \in {result, "overrun", "accepted", "rejected"}
  BY DEF Lex, Overrun, Finish, vars
<1> QED BY <1>1 DEF MachineInv

LEMMA UnreadNat == WindowInv => Unread \in Nat
BY WindowAssumption DEF WindowInv, Unread

LEMMA MachineNext == MachineInv /\ WindowInv /\ [Next]_vars => MachineInv'
BY UnreadNat, SkipKept, KeepKept, LeafKept, ExpectKept, ErrorKept, OpenKept, AdoptKept,
   MarkKept, CloseKept, ChooseKept, RepeatKept, CallKept, TestKept, OthersKept, Zenon DEF Next

\* What is left to do fits the nodes that are open, wherever the parser is.
THEOREM MachineSafe == Spec => [](WindowInv /\ MachineInv)
<1>1. Init => WindowInv /\ MachineInv
  BY WindowInit, MachineInit
<1>2. WindowInv /\ MachineInv /\ [Next]_vars => (WindowInv /\ MachineInv)'
  BY WindowNext, MachineNext
<1> QED BY <1>1, <1>2, PTL DEF Spec

-----------------------------------------------------------------------------
(* The lookahead *)

\* The condition of create_is_graph_type is not refuted by these tokens alone.
LEMMA LongLookaheadKinds ==
  ASSUME Unread = 5, ~Refuted(LongLookahead)
  PROVE  /\ Peek(0).kind = "CREATE" /\ Peek(1).kind = "OR"
         /\ Peek(3).kind = "PROPERTY" /\ Peek(4).kind = "GRAPH"
<1>1. /\ Len(LongLookahead) = 6
      /\ LongLookahead[1] = {"CREATE"} /\ LongLookahead[2] = {"OR"}
      /\ LongLookahead[4] = {"PROPERTY"} /\ LongLookahead[5] = {"GRAPH"}
  BY DEF LongLookahead
<1>2. Min({6, 5}) = 5
  <2>1. {6, 5} \in SUBSET Nat /\ {6, 5} # {}
    OBVIOUS
  <2>2. Min({6, 5}) \in {6, 5} /\ \A m \in {6, 5} : Min({6, 5}) <= m
    BY <2>1, MinIsLeast
  <2> QED BY <2>2
<1>3. \A j \in 1 .. 5 : Is(Peek(j - 1), LongLookahead[j])
  BY <1>1, <1>2 DEF Refuted
<1>4. /\ Is(Peek(0), {"CREATE"}) /\ Is(Peek(1), {"OR"})
      /\ Is(Peek(3), {"PROPERTY"}) /\ Is(Peek(4), {"GRAPH"})
  <2>1. Is(Peek(1 - 1), LongLookahead[1]) /\ Is(Peek(2 - 1), LongLookahead[2])
    BY <1>3
  <2>2. Is(Peek(4 - 1), LongLookahead[4]) /\ Is(Peek(5 - 1), LongLookahead[5])
    BY <1>3
  <2> QED BY <1>1, <2>1, <2>2
<1>5. ASSUME NEW token, NEW kind \in {"CREATE", "OR", "PROPERTY", "GRAPH"}, Is(token, {kind})
      PROVE  token.kind = kind
  <2>1. {kind} \intersect Classes = {} /\ "except" \notin {kind}
    BY DEF Classes
  <2> QED BY <1>5, <2>1 DEF Is
<1> QED BY <1>4, <1>5

LEMMA InvariantsImplyLookahead == WindowInv /\ MachineInv => LookaheadFits
<1> SUFFICES ASSUME WindowInv, MachineInv, Running, Wanted(Current) > Unread,
                    Len(window) = CAPACITY \/ Unread > CAPACITY - THRESHOLD
             PROVE  /\ Unread = 5
                    /\ Peek(0).kind = "CREATE" /\ Peek(1).kind = "OR"
                    /\ Peek(3).kind = "PROPERTY" /\ Peek(4).kind = "GRAPH"
  BY DEF LookaheadFits
<1>1. Unread \in Nat /\ Unread >= 5
  BY WindowAssumption DEF WindowInv, Unread
<1>2. Sound(Current)
  BY CurrentIs
<1> DEFINE h == Current
           c == Candidate(h.alts)
           wanted == Wanted(h)
<1>3. wanted > Unread
  OBVIOUS
<1>4. \/ wanted \in {0, 1, 2}
      \/ /\ h.op \in {"choice", "loop"} /\ ~Bypassed(h) /\ c \in DOMAIN h.alts
         /\ wanted = Len(h.alts[c][1])
  <2> HIDE DEF h, c
  <2>1. CASE h.op \in {"skip", "keep", "leaf", "number"}
    BY <2>1 DEF Wanted
  <2>2. CASE h.op = "expect"
    BY <2>2 DEF Wanted
  <2>3. CASE h.op \in {"error", "fail"}
    BY <2>3 DEF Wanted
  <2>4. CASE h.op \in {"choice", "loop"}
    BY <2>4 DEF Wanted, c
  <2>5. CASE h.op \notin {"skip", "keep", "leaf", "number", "expect", "error", "fail", "choice", "loop"}
    BY <2>5 DEF Wanted
  <2> QED BY <2>1, <2>2, <2>3, <2>4, <2>5
<1> HIDE DEF wanted
<1>5. /\ h.op \in {"choice", "loop"} /\ c \in DOMAIN h.alts
      /\ wanted = Len(h.alts[c][1])
  BY <1>1, <1>3, <1>4
<1>6. AlternativesOf(h)
  BY <1>2, <1>5 DEF Sound
<1> HIDE DEF h
<1>7. h.alts[c][1] = LongLookahead
  <2>1. wanted \in 0 .. 5 \/ h.alts[c][1] = LongLookahead
    BY <1>5, <1>6 DEF AlternativesOf
  <2> QED BY <1>1, <1>3, <2>1
<1>8. ~Refuted(LongLookahead)
  BY <1>5, <1>6, <1>7, CandidateIs DEF AlternativesOf
<1>9. Len(LongLookahead) = 6
  BY DEF LongLookahead
<1>10. Unread = 5
  <2>1. 6 > Unread
    BY <1>3, <1>5, <1>7, <1>9
  <2> QED BY <1>1, <2>1
<1> QED BY <1>8, <1>10, LongLookaheadKinds

LEMMA InvariantsImplyTypes == WindowInv /\ MachineInv => TypeOK
<1> SUFFICES ASSUME WindowInv, MachineInv PROVE TypeOK
  OBVIOUS
<1>1. /\ cursor \in 1 .. Len(input.text) + 1
      /\ Len(window) \in index .. CAPACITY /\ index \in 0 .. THRESHOLD - 1
      /\ previous.next \in 1 .. cursor
  BY DEF WindowInv
<1>2. /\ got \in BOOLEAN /\ failed \in BOOLEAN
      /\ result \in {"running", "accepted", "rejected", "overrun"}
      /\ failed = (tree = << >>)
      /\ ~failed => tree[1].kind = "ROOT" /\ \A i \in 2 .. Len(tree) : tree[i].kind # "ROOT"
  BY DEF MachineInv, GoodTree
<1> QED BY <1>1, <1>2 DEF TypeOK

-----------------------------------------------------------------------------
(* The theorems *)

\* The parser's state stays in its types: fewer than THRESHOLD tokens of the window
\* are consumed ones, and nodes are held as long as no error was reported.
THEOREM TypeCorrect == Spec => []TypeOK
BY MachineSafe, InvariantsImplyTypes, PTL

\* What the parser reads next stands behind the token it took last.
THEOREM ReadsOn == Spec => []WindowIsText
BY WindowSafe, WindowImpliesText, PTL

\* lex_one takes the longest operator.
THEOREM TakesLongest == Spec => []LongestOperator
BY WindowSafe, WindowImpliesLongest, PTL

\* The window has a slot for every token looked at but the sixth of CREATE OR . PROPERTY
\* GRAPH TYPE.
THEOREM LookaheadHasRoom == Spec => []LookaheadFits
BY MachineSafe, InvariantsImplyLookahead, PTL
=================================================================================
