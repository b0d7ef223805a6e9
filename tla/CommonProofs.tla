------------------------------ MODULE CommonProofs ------------------------------
(* Facts about numbers, enumerations, folds and concatenations that the proofs     *)
(* about the components share.  The induction is over sets of numbers with their   *)
(* least element, and the step of a recursion is a function, so that every lemma   *)
(* can be instantiated by citing it.                                               *)
EXTENDS SequencesExt, Integers, FiniteSets, FiniteSetTheorems, FunctionTheorems,
        WellFoundedInduction, TLAPS

\* A set of numbers that is not empty has a least member.
LEMMA MinIsLeast ==
  ASSUME NEW S \in SUBSET Nat, S # {}
  PROVE  Min(S) \in S /\ \A i \in S : Min(S) <= i
<1>1. PICK x \in S : \A y \in S : ~(<<y, x>> \in OpToRel(<, Nat))
  BY NatLessThanWellFounded, WFMin
<1>2. \A y \in S : ~(y < x)
  BY <1>1 DEF OpToRel
<1>3. \A y \in S : x <= y
  BY <1>2
<1> QED BY <1>3 DEF Min

\* Induction: a set of numbers that holds 0 and the successor of each of its
\* members below n holds all numbers up to n.
LEMMA UpTo ==
  ASSUME NEW n \in Nat, NEW H \in SUBSET Nat, 0 \in H,
         \A i \in 0 .. n - 1 : i \in H => i + 1 \in H
  PROVE  0 .. n \subseteq H
<1> DEFINE Missing == {i \in 0 .. n : i \notin H}
<1> SUFFICES ASSUME Missing # {} PROVE FALSE
  OBVIOUS
<1>1. PICK least \in Missing : \A i \in Missing : least <= i
  <2>1. Missing \in SUBSET Nat
    OBVIOUS
  <2> HIDE DEF Missing
  <2>2. PICK x \in Missing : \A y \in Missing : ~(<<y, x>> \in OpToRel(<, Nat))
    BY <2>1, NatLessThanWellFounded, WFMin
  <2>3. \A y \in Missing : ~(y < x)
    BY <2>1, <2>2 DEF OpToRel
  <2> QED BY <2>1, <2>3
<1>2. least # 0 /\ least - 1 \in 0 .. n - 1 /\ least - 1 \in H
  BY <1>1
<1> QED BY <1>1, <1>2

\* The values g of a primitive recursion: step[i] maps the value at i - 1 to that at i.
Recurs(g, n, base, step) == g[0] = base /\ \A i \in 1 .. n : g[i] = step[i][g[i - 1]]

\* Primitive recursion up to n has a solution.
LEMMA Recursion ==
  ASSUME NEW n \in Nat, NEW T, NEW base \in T, NEW step \in [1 .. n -> [T -> T]]
  PROVE  \E g \in [0 .. n -> T] : Recurs(g, n, base, step)
<1> USE DEF Recurs
<1> DEFINE Solves(g, m) == Recurs(g, m, base, step)
           H == {m \in 0 .. n : \E g \in [0 .. m -> T] : Solves(g, m)}
<1>1. 0 \in H
  <2> DEFINE g == [i \in 0 .. 0 |-> base]
  <2>1. g \in [0 .. 0 -> T] /\ Solves(g, 0) /\ 0 \in 0 .. n
    OBVIOUS
  <2> HIDE DEF g, Solves
  <2> QED BY <2>1
<1>2. \A m \in 0 .. n - 1 : m \in H => m + 1 \in H
  <2> SUFFICES ASSUME NEW m \in 0 .. n - 1, NEW g \in [0 .. m -> T], Solves(g, m)
               PROVE  m + 1 \in H
    OBVIOUS
  <2> DEFINE h == [i \in 0 .. m + 1 |-> IF i <= m THEN g[i] ELSE step[i][g[m]]]
  <2>1. step[m + 1] \in [T -> T] /\ g[m] \in T
    OBVIOUS
  <2>2. h \in [0 .. m + 1 -> T]
    BY <2>1
  <2>3. Solves(h, m + 1)
    <3>1. h[0] = base
      OBVIOUS
    <3>2. ASSUME NEW i \in 1 .. m + 1
          PROVE  h[i] = step[i][h[i - 1]]
      <4>1. CASE i <= m
        BY <4>1
      <4>2. CASE i = m + 1
        BY <4>2
      <4> QED BY <4>1, <4>2
    <3> QED BY <3>1, <3>2
  <2>4. m + 1 \in 0 .. n
    OBVIOUS
  <2> HIDE DEF h, Solves
  <2> QED BY <2>2, <2>3, <2>4
<1>3. n \in H
  <2> HIDE DEF Recurs
  <2>1. H \in SUBSET Nat
    OBVIOUS
  <2> HIDE DEF H
  <2>2. 0 .. n \subseteq H
    BY <1>1, <1>2, <2>1, UpTo
  <2> QED BY <2>2
<1> HIDE DEF Recurs
<1> QED BY <1>3

-----------------------------------------------------------------------------
(* FlattenSeq *)

\* FlattenSeq concatenates its sequences one after the other.
LEMMA FlattenSteps ==
  ASSUME NEW S, NEW seqs \in Seq(Seq(S))
  PROVE  \E flat \in [0 .. Len(seqs) -> Seq(S)] :
           /\ flat[0] = <<>>
           /\ \A i \in 1 .. Len(seqs) : flat[i] = flat[i - 1] \o seqs[i]
           /\ flat[Len(seqs)] = FlattenSeq(seqs)
<1> DEFINE n == Len(seqs)
           step == [i \in 1 .. n |-> [s \in Seq(S) |-> s \o seqs[i]]]
           Equation(f) == f = [i \in 1 .. n |-> IF i = 1 THEN seqs[i] ELSE f[i - 1] \o seqs[i]]
           flatten == CHOOSE f : Equation(f)
<1>1. n \in Nat /\ \A i \in 1 .. n : seqs[i] \in Seq(S)
  OBVIOUS
<1>2. PICK g \in [0 .. n -> Seq(S)] : g[0] = <<>> /\ \A i \in 1 .. n : g[i] = g[i - 1] \o seqs[i]
  <2>1. step \in [1 .. n -> [Seq(S) -> Seq(S)]]
    <3> SUFFICES ASSUME NEW i \in 1 .. n, NEW s \in Seq(S) PROVE s \o seqs[i] \in Seq(S)
      OBVIOUS
    <3> QED BY <1>1
  <2>2. <<>> \in Seq(S)
    OBVIOUS
  <2> HIDE DEF n, step
  <2>3. PICK g \in [0 .. n -> Seq(S)] : Recurs(g, n, <<>>, step)
    BY <1>1, <2>1, <2>2, Recursion
  <2>4. \A i \in 1 .. n : step[i][g[i - 1]] = g[i - 1] \o seqs[i]
    <3> TAKE i \in 1 .. n
    <3>1. i - 1 \in 0 .. n
      BY <1>1
    <3>2. g[i - 1] \in Seq(S)
      BY <3>1
    <3> QED BY <3>2 DEF step
  <2> QED BY <2>3, <2>4 DEF Recurs
<1>3. CASE n = 0
  <2>1. seqs = <<>> /\ FlattenSeq(seqs) = <<>>
    BY <1>3 DEF FlattenSeq
  <2> QED BY <1>2, <1>3, <2>1
<1>4. CASE n > 0
  <2>1. Equation(flatten)
    <3> DEFINE f == [i \in 1 .. n |-> g[i]]
    <3>1. Equation(f)
      <4>1. ASSUME NEW i \in 1 .. n
            PROVE  f[i] = IF i = 1 THEN seqs[i] ELSE f[i - 1] \o seqs[i]
        <5>1. g[i] = g[i - 1] \o seqs[i]
          BY <1>2
        <5>2. CASE i = 1
          <6>1. seqs[1] \in Seq(S)
            BY <1>1, <1>4
          <6>0. i - 1 = 0
            BY <5>2
          <6>2. g[1] = g[0] \o seqs[1]
            BY <5>1, <5>2, <6>0
          <6>3. <<>> \o seqs[1] = seqs[1]
            BY <6>1
          <6> QED BY <1>2, <5>2, <6>2, <6>3
        <5>3. CASE i # 1
          <6>1. i - 1 \in 1 .. n
            BY <1>1, <5>3
          <6> QED BY <5>1, <5>3, <6>1
        <5> QED BY <5>2, <5>3
      <4> QED BY <4>1
    <3> HIDE DEF f, Equation
    <3> QED BY <3>1
  <2>2. FlattenSeq(seqs) = flatten[n]
    BY <1>4 DEF FlattenSeq
  <2>3. \A i \in 1 .. n : flatten[i] = IF i = 1 THEN seqs[i] ELSE flatten[i - 1] \o seqs[i]
    <3> HIDE DEF flatten
    <3> QED BY <2>1
  <2> DEFINE H == {i \in 0 .. n : i = 0 \/ flatten[i] = g[i]}
  <2>4. \A i \in 0 .. n - 1 : i \in H => i + 1 \in H
    <3> HIDE DEF flatten, n
    <3> SUFFICES ASSUME NEW i \in 0 .. n - 1, i \in H PROVE flatten[i + 1] = g[i + 1]
      BY <1>1
    <3>0. i + 1 \in 1 .. n /\ (i + 1) - 1 = i
      BY <1>1
    <3>1. g[i + 1] = g[i] \o seqs[i + 1] /\ seqs[i + 1] \in Seq(S)
      BY <1>1, <1>2, <3>0
    <3>2. flatten[i + 1] = IF i = 0 THEN seqs[i + 1] ELSE flatten[i] \o seqs[i + 1]
      <4> PICK k \in 1 .. n : k = i + 1
        BY <3>0
      <4>1. k - 1 = i /\ (k = 1 <=> i = 0)
        BY <3>0
      <4>2. flatten[k] = IF k = 1 THEN seqs[k] ELSE flatten[k - 1] \o seqs[k]
        BY <2>3
      <4> QED BY <4>1, <4>2
    <3>3. CASE i = 0
      <4>1. <<>> \o seqs[i + 1] = seqs[i + 1]
        BY <3>1
      <4>2. g[i] = <<>>
        BY <1>2, <3>3
      <4> QED BY <3>1, <3>2, <3>3, <4>1, <4>2
    <3>4. CASE i # 0
      <4>1. flatten[i] = g[i]
        BY <3>4
      <4> QED BY <3>1, <3>2, <3>4, <4>1
    <3> QED BY <3>3, <3>4
  <2>5. n \in H
    <3>1. 0 \in H /\ H \in SUBSET Nat
      OBVIOUS
    <3> HIDE DEF H, n
    <3>2. 0 .. n \subseteq H
      BY <1>1, <2>4, <3>1, UpTo
    <3> QED BY <1>1, <3>2
  <2> HIDE DEF flatten
  <2>6. flatten[n] = g[n]
    BY <1>4, <2>5
  <2>7. flatten[n] = FlattenSeq(seqs) /\ g[n] = FlattenSeq(seqs)
    BY <2>2, <2>6
  <2> HIDE DEF n
  <2>8. g[Len(seqs)] = FlattenSeq(seqs) /\ Len(seqs) = n
    BY <2>7 DEF n
  <2> QED BY <1>2, <2>8
<1>5. n = 0 \/ n > 0
  BY <1>1
<1> HIDE DEF n
<1> QED BY <1>3, <1>4, <1>5

-----------------------------------------------------------------------------
(* FoldLeft *)

\* The largest of the positions of a sequence.
LEMMA MaxOfPositions ==
  ASSUME NEW n \in Nat, NEW s \in SUBSET (1 .. n), s # {}
  PROVE  Max(s) \in s /\ \A i \in s : i <= Max(s)
<1> DEFINE H == {m \in 0 .. n : \E x \in s : x >= n - m}
<1>1. H \in SUBSET Nat /\ n \in H
  <2> PICK x \in s : TRUE
    OBVIOUS
  <2>1. x >= n - n
    OBVIOUS
  <2> QED BY <2>1
<1>2. PICK m \in H : \A k \in H : m <= k
  <2> HIDE DEF H
  <2>1. PICK m \in H : \A k \in H : ~(<<k, m>> \in OpToRel(<, Nat))
    BY <1>1, NatLessThanWellFounded, WFMin
  <2>2. \A k \in H : ~(k < m)
    BY <1>1, <2>1 DEF OpToRel
  <2> QED BY <1>1, <2>2
<1>3. PICK x \in s : x >= n - m
  BY <1>2
<1>4. \A i \in s : i <= x
  <2> SUFFICES ASSUME NEW i \in s, i > x PROVE FALSE
    OBVIOUS
  <2>1. n - i \in H
    OBVIOUS
  <2> QED BY <1>2, <1>3, <2>1
<1>5. \E y \in s : \A i \in s : y >= i
  BY <1>4
<1> HIDE DEF H
<1> QED BY <1>5 DEF Max

\* The recursion over sets of positions behind FoldLeft.
FoldsSets(iter, n, base, step) ==
  \A s \in SUBSET (1 .. n) :
    iter[s] = IF s = {} THEN base ELSE step[Max(s)][iter[s \ {Max(s)}]]

\* It has a solution.
LEMMA SetRecursion ==
  ASSUME NEW n \in Nat, NEW T, NEW base \in T, NEW step \in [1 .. n -> [T -> T]]
  PROVE  \E iter \in [SUBSET (1 .. n) -> T] : FoldsSets(iter, n, base, step)
<1> DEFINE H == {m \in 0 .. n : \E iter \in [SUBSET (1 .. m) -> T] : FoldsSets(iter, m, base, step)}
<1>1. 0 \in H
  <2> DEFINE iter == [s \in SUBSET (1 .. 0) |-> base]
  <2>1. iter \in [SUBSET (1 .. 0) -> T] /\ 0 \in 0 .. n
    OBVIOUS
  <2>2. \A s \in SUBSET (1 .. 0) : s = {}
    OBVIOUS
  <2>3. FoldsSets(iter, 0, base, step)
    BY <2>2 DEF FoldsSets
  <2> HIDE DEF iter
  <2> QED BY <2>1, <2>3
<1>2. \A m \in 0 .. n - 1 : m \in H => m + 1 \in H
  <2> SUFFICES ASSUME NEW m \in 0 .. n - 1,
                      NEW iter \in [SUBSET (1 .. m) -> T], FoldsSets(iter, m, base, step)
               PROVE  m + 1 \in H
    OBVIOUS
  <2> DEFINE k == m + 1
             next == [s \in SUBSET (1 .. k) |-> IF k \in s THEN step[k][iter[s \ {k}]] ELSE iter[s]]
  <2>1. k \in 1 .. n /\ m \in Nat /\ k \in Nat
    OBVIOUS
  <2>2. \A s \in SUBSET (1 .. k) : s \ {k} \in SUBSET (1 .. m)
    OBVIOUS
  <2>3. next \in [SUBSET (1 .. k) -> T]
    <3>1. \A s \in SUBSET (1 .. k) : k \notin s => s \in SUBSET (1 .. m)
      OBVIOUS
    <3> HIDE DEF k
    <3> QED BY <2>1, <2>2, <3>1
  <2>4. ASSUME NEW s \in SUBSET (1 .. k)
        PROVE  next[s] = IF s = {} THEN base ELSE step[Max(s)][next[s \ {Max(s)}]]
    <3>1. CASE k \in s
      <4>1. Max(s) = k
        <5>1. Max(s) \in s /\ k <= Max(s)
          BY <2>1, <3>1, MaxOfPositions
        <5>2. \A x \in 1 .. k : k <= x => x = k
          BY <2>1
        <5> HIDE DEF k
        <5> QED BY <5>1, <5>2
      <4>2. s \ {k} \in SUBSET (1 .. k) /\ k \notin s \ {k}
        OBVIOUS
      <4> HIDE DEF k
      <4>3. next[s] = step[k][iter[s \ {k}]] /\ next[s \ {k}] = iter[s \ {k}]
        BY <3>1, <4>2
      <4> QED BY <3>1, <4>1, <4>3
    <3>2. CASE k \notin s
      <4>1. s \in SUBSET (1 .. m)
        BY <3>2
      <4>2. iter[s] = IF s = {} THEN base ELSE step[Max(s)][iter[s \ {Max(s)}]]
        BY <4>1 DEF FoldsSets
      <4>3. s \ {Max(s)} \in SUBSET (1 .. k) /\ k \notin s \ {Max(s)}
        BY <3>2
      <4> HIDE DEF k
      <4>4. next[s] = iter[s] /\ next[s \ {Max(s)}] = iter[s \ {Max(s)}]
        BY <3>2, <4>3
      <4> QED BY <4>2, <4>4
    <3> QED BY <3>1, <3>2
  <2> HIDE DEF next
  <2>5. FoldsSets(next, k, base, step)
    BY <2>4 DEF FoldsSets
  <2>6. k \in 0 .. n
    BY <2>1
  <2> QED BY <2>3, <2>5, <2>6
<1>3. n \in H
  <2>1. H \in SUBSET Nat /\ n \in 0 .. n
    OBVIOUS
  <2> HIDE DEF H
  <2>2. 0 .. n \subseteq H
    BY <1>1, <1>2, <2>1, UpTo
  <2> QED BY <2>1, <2>2
<1> QED BY <1>3

\* What a fold does at each position, once the recursion is known to have a solution.
LEMMA SetRecursionSteps ==
  ASSUME NEW n \in Nat, NEW i \in 1 .. n
  PROVE  1 .. i \in SUBSET (1 .. n) /\ 1 .. i # {} /\ Max(1 .. i) = i
         /\ (1 .. i) \ {i} = 1 .. (i - 1)
<1>1. 1 .. i \in SUBSET (1 .. n) /\ 1 .. i # {} /\ i \in 1 .. i
  OBVIOUS
<1>2. Max(1 .. i) \in 1 .. i /\ i <= Max(1 .. i)
  BY <1>1, MaxOfPositions
<1>3. (1 .. i) \ {i} = 1 .. (i - 1)
  OBVIOUS
<1> QED BY <1>1, <1>2, <1>3

-----------------------------------------------------------------------------
(* Enumeration *)

\* The members of a finite set of numbers in ascending order.
InOrder(S) ==
  [i \in 1 .. Cardinality(S) |-> CHOOSE x \in S : Cardinality({y \in S : y < x}) = i - 1]

\* None is left out.
LEMMA InOrderEnumerates ==
  ASSUME NEW S \in SUBSET Nat, IsFiniteSet(S)
  PROVE  /\ InOrder(S) \in Seq(S)
         /\ Len(InOrder(S)) = Cardinality(S)
         /\ \A i, j \in DOMAIN InOrder(S) : i < j => InOrder(S)[i] < InOrder(S)[j]
         /\ \A x \in S : \E i \in DOMAIN InOrder(S) : InOrder(S)[i] = x
<1> DEFINE Below(x) == {y \in S : y < x}
           n == Cardinality(S)
           f == [x \in S |-> Cardinality(Below(x)) + 1]
<1>1. n \in Nat
  BY FS_CardinalityType
<1>2. \A x \in S : IsFiniteSet(Below(x)) /\ Cardinality(Below(x)) \in 0 .. n - 1
  <2> TAKE x \in S
  <2>1. Below(x) \in SUBSET S /\ Below(x) # S
    OBVIOUS
  <2>2. /\ IsFiniteSet(Below(x)) /\ Cardinality(Below(x)) <= n
        /\ n = Cardinality(Below(x)) => S = Below(x)
    BY <2>1, FS_Subset
  <2>3. Cardinality(Below(x)) \in Nat
    BY <2>2, FS_CardinalityType
  <2> HIDE DEF Below, n
  <2> QED BY <1>1, <2>1, <2>2, <2>3
<1>3. \A x, y \in S : x < y => Cardinality(Below(x)) < Cardinality(Below(y))
  <2> SUFFICES ASSUME NEW x \in S, NEW y \in S, x < y
               PROVE  Cardinality(Below(x)) < Cardinality(Below(y))
    OBVIOUS
  <2>a. \A z \in S : z \in Nat
    OBVIOUS
  <2>b. x \in Below(y) /\ x \notin Below(x)
    BY <2>a
  <2>c. \A z \in S : z < x => z < y
    BY <2>a
  <2>1. Below(x) \in SUBSET Below(y) /\ x \in Below(y) /\ x \notin Below(x)
    BY <2>b, <2>c
  <2>2. IsFiniteSet(Below(y)) /\ Cardinality(Below(x)) \in Int /\ Cardinality(Below(y)) \in Int
    BY <1>2
  <2> HIDE DEF Below
  <2>3. /\ Cardinality(Below(x)) <= Cardinality(Below(y))
        /\ Cardinality(Below(y)) = Cardinality(Below(x)) => Below(y) = Below(x)
    BY <2>1, <2>2, FS_Subset
  <2> QED BY <2>1, <2>2, <2>3
<1> HIDE DEF Below
<1>4. f \in Injection(S, 1 .. n)
  <2>1. f \in [S -> 1 .. n]
    BY <1>1, <1>2
  <2>2. \A x, y \in S : x # y => f[x] # f[y]
    <3> TAKE x, y \in S
    <3>1. Cardinality(Below(x)) \in Int /\ Cardinality(Below(y)) \in Int
      BY <1>2
    <3> QED BY <1>3, <3>1
  <2> QED BY <2>1, <2>2 DEF Injection, IsInjective
<1>5. IsFiniteSet(1 .. n) /\ Cardinality(1 .. n) = n
  BY <1>1, FS_Interval
<1>6. f \in Surjection(S, 1 .. n)
  <2> HIDE DEF f, n
  <2>1. n = Cardinality(S)
    BY DEF n
  <2> QED BY <1>4, <1>5, <2>1, FS_Injection
<1>7. \A i \in 1 .. n : \E x \in S : Cardinality(Below(x)) = i - 1
  <2> TAKE i \in 1 .. n
  <2>1. PICK x \in S : f[x] = i
    BY <1>6 DEF Surjection
  <2> QED BY <2>1, <1>1, <1>2
<1>8. InOrder(S) = [i \in 1 .. n |-> CHOOSE x \in S : Cardinality(Below(x)) = i - 1]
  BY DEF InOrder, Below
<1>9. \A i \in 1 .. n : InOrder(S)[i] \in S /\ Cardinality(Below(InOrder(S)[i])) = i - 1
  BY <1>7, <1>8
<1>10. InOrder(S) \in Seq(S) /\ Len(InOrder(S)) = n /\ DOMAIN InOrder(S) = 1 .. n
  BY <1>1, <1>8, <1>9
<1>11. ASSUME NEW i \in 1 .. n, NEW j \in 1 .. n, i < j
       PROVE  InOrder(S)[i] < InOrder(S)[j]
  <2> PICK x \in S, y \in S : x = InOrder(S)[i] /\ y = InOrder(S)[j]
    BY <1>9
  <2>1. Cardinality(Below(x)) = i - 1 /\ Cardinality(Below(y)) = j - 1
    BY <1>9
  <2>2. ~(y < x) /\ x # y
    BY <1>3, <2>1, <1>1, <1>11
  <2> QED BY <2>2
<1>12. ASSUME NEW x \in S
       PROVE  \E i \in 1 .. n : InOrder(S)[i] = x
  <2> PICK i \in 1 .. n : i = f[x]
    BY <1>4 DEF Injection
  <2>1. Cardinality(Below(x)) = i - 1
    BY <1>2
  <2> PICK y \in S : y = InOrder(S)[i]
    BY <1>9
  <2>2. Cardinality(Below(y)) = i - 1
    BY <1>9
  <2>3. x = y
    <3>1. ~(x < y) /\ ~(y < x)
      BY <1>1, <1>3, <2>1, <2>2
    <3> QED BY <3>1
  <2> QED BY <2>3
<1> QED BY <1>10, <1>11, <1>12
=================================================================================
