---------------------------- MODULE ConfigsProofs ----------------------------
(***************************************************************************)
(* Proofs about Configs, for any configuration files: the order in which   *)
(* they are merged, the values they leave, and what is replaced in them.   *)
(***************************************************************************)
EXTENDS Configs, SequenceTheorems, FiniteSetTheorems, WellFoundedInduction, TLAPS

-----------------------------------------------------------------------------
(* Loops: a recursive function over 0..n.                                  *)

LEMMA LeastIndex ==
  ASSUME NEW I \in SUBSET Nat, I # {}
  PROVE  \E x \in I : \A y \in I : x =< y
<1>1. \E x \in I : \A y \in I : ~(<<y, x>> \in OpToRel(<, Nat))
  BY WFMin, NatLessThanWellFounded
<1>2. \A x, y \in Nat : x =< y \/ <<y, x>> \in OpToRel(<, Nat)
  BY DEF OpToRel
<1>3. QED BY <1>1, <1>2

(* A set with 0 that goes from each number to the next has all of them.    *)
LEMMA Upto ==
  ASSUME NEW n \in Nat, NEW G, 0 \in G, \A i \in 1 .. n : i - 1 \in G => i \in G
  PROVE  \A i \in 0 .. n : i \in G
<1> DEFINE bad == {i \in 0 .. n : i \notin G}
<1>1. SUFFICES ASSUME bad # {} PROVE FALSE
  OBVIOUS
<1>2. bad \in SUBSET Nat
  OBVIOUS
<1> HIDE DEF bad
<1>3. PICK x \in bad : \A y \in bad : x =< y
  BY <1>1, <1>2, LeastIndex
<1>4. x \in 0 .. n /\ x \notin G
  BY DEF bad
<1>5. x \in 1 .. n /\ x - 1 \in 0 .. n
  BY <1>4
<1>6. x - 1 \notin bad
  BY <1>3, <1>5, <1>2
<1>7. QED BY <1>4, <1>5, <1>6 DEF bad

IsLoop(f, n, a, F) == f = [i \in 0 .. n |-> IF i = 0 THEN a ELSE F[i][f[i - 1]]]

(* The function that such a loop defines exists.                           *)
LEMMA Loop ==
  ASSUME NEW n \in Nat, NEW X, NEW a \in X, NEW F \in [1 .. n -> [X -> X]]
  PROVE  \E f \in [0 .. n -> X] : IsLoop(f, n, a, F)
<1> DEFINE Is(f, m) == /\ f \in [0 .. m -> X] /\ f[0] = a
                       /\ \A i \in 1 .. m : f[i] = F[i][f[i - 1]]
           G == {m \in 0 .. n : \E f : Is(f, m)}
<1>1. 0 \in G
  <2>1. Is([i \in 0 .. 0 |-> a], 0)
    OBVIOUS
  <2> HIDE DEF Is
  <2>2. 0 \in 0 .. n
    OBVIOUS
  <2>3. QED BY <2>1, <2>2
<1>2. ASSUME NEW m \in 1 .. n, m - 1 \in G PROVE m \in G
  <2>1. PICK g : Is(g, m - 1)
    BY <1>2
  <2>2. /\ g \in [0 .. (m - 1) -> X] /\ g[0] = a
        /\ \A i \in 1 .. (m - 1) : g[i] = F[i][g[i - 1]]
    BY <2>1
  <2>3. m \in Nat /\ m # 0 /\ m - 1 \in 0 .. (m - 1) /\ \A i \in 0 .. m : i # m => i \in 0 .. (m - 1)
    OBVIOUS
  <2> DEFINE f == [i \in 0 .. m |-> IF i = m THEN F[m][g[m - 1]] ELSE g[i]]
  <2>4. g[m - 1] \in X
    BY <2>2, <2>3
  <2>5. F[m][g[m - 1]] \in X
    BY <2>4
  <2>6. f \in [0 .. m -> X] /\ \A i \in 0 .. m : f[i] = IF i = m THEN F[m][g[m - 1]] ELSE g[i]
    BY <2>2, <2>3, <2>5
  <2> HIDE DEF f
  <2>7. f[0] = a
    <3>1. 0 \in 0 .. m
      OBVIOUS
    <3>2. QED BY <2>2, <2>3, <2>6, <3>1
  <2>8. ASSUME NEW i \in 1 .. m PROVE f[i] = F[i][f[i - 1]]
    <3>1. i \in 0 .. m /\ i - 1 \in 0 .. m /\ i - 1 # m
      OBVIOUS
    <3>2. CASE i = m
      BY <3>1, <3>2, <2>6
    <3>3. CASE i # m
      <4>1. i \in 1 .. (m - 1)
        BY <3>3
      <4>2. f[i] = g[i] /\ f[i - 1] = g[i - 1]
        BY <3>1, <3>3, <2>6
      <4>3. QED BY <4>1, <4>2, <2>2
    <3>4. QED BY <3>2, <3>3
  <2>9. Is(f, m)
    BY <2>6, <2>7, <2>8
  <2>10. m \in 0 .. n
    OBVIOUS
  <2>11. QED BY <2>9, <2>10
<1> HIDE DEF G
<1>3. n \in G
  <2>1. \A i \in 0 .. n : i \in G
    BY <1>1, <1>2, Upto
  <2>2. n \in 0 .. n
    OBVIOUS
  <2>3. QED BY <2>1, <2>2
<1>4. PICK f : Is(f, n)
  BY <1>3 DEF G
<1>5. f = [i \in 0 .. n |-> IF i = 0 THEN a ELSE F[i][f[i - 1]]]
  <2>1. f = [i \in 0 .. n |-> f[i]]
    BY <1>4
  <2>2. \A i \in 0 .. n : i # 0 => i \in 1 .. n
    OBVIOUS
  <2>3. \A i \in 0 .. n : f[i] = IF i = 0 THEN a ELSE F[i][f[i - 1]]
    BY <2>2, <1>4
  <2>4. QED BY <2>1, <2>3
<1>6. QED BY <1>4, <1>5 DEF IsLoop

-----------------------------------------------------------------------------
(* Sequences, and FlattenSeq.                                              *)

LEMMA RangeIs ==
  ASSUME NEW S, NEW s \in Seq(S)
  PROVE  Range(s) = {s[i] : i \in 1 .. Len(s)} /\ Range(s) \subseteq S
  BY DEF Range

(* FlattenSeq joins one sequence after the other.                          *)
LEMMA FlattenSteps ==
  ASSUME NEW S, NEW ss \in Seq(Seq(S))
  PROVE  \E f \in [0 .. Len(ss) -> Seq(S)] :
            /\ f[0] = <<>>
            /\ \A i \in 1 .. Len(ss) : f[i] = f[i - 1] \o ss[i]
            /\ FlattenSeq(ss) = f[Len(ss)]
<1> DEFINE n == Len(ss)
           X == Seq(S)
           e == <<>>
           F == [i \in 1 .. n |-> [x \in X |-> x \o ss[i]]]
           Added(k) == [i \in 1 .. n |-> IF i = 1 THEN ss[i] ELSE k[i - 1] \o ss[i]]
           added == CHOOSE k : k = Added(k)
<1>1. n \in Nat /\ \A i \in 1 .. n : ss[i] \in X
  BY LenProperties
<1>2. e \in X
  OBVIOUS
<1>3. \A i \in 1 .. n : \A x \in X : x \o ss[i] \in X
  BY <1>1
<1> HIDE DEF X, n
<1>4. F \in [1 .. n -> [X -> X]]
  BY <1>3
<1>5. PICK f \in [0 .. n -> X] : IsLoop(f, n, e, F)
  <2> HIDE DEF F, e
  <2>1. QED BY <1>1, <1>2, <1>4, Loop
<1>6. f[0] = e /\ \A i \in 1 .. n : f[i] = f[i - 1] \o ss[i]
  <2>1. f = [i \in 0 .. n |-> IF i = 0 THEN e ELSE F[i][f[i - 1]]]
    BY <1>5 DEF IsLoop
  <2>2. 0 \in 0 .. n
    BY <1>1
  <2>3. f[0] = e
    <3> HIDE DEF F, e
    <3>1. QED BY <2>1, <2>2
  <2>4. ASSUME NEW i \in 1 .. n PROVE f[i] = f[i - 1] \o ss[i]
    <3>1. i \in 0 .. n /\ i # 0 /\ i - 1 \in 0 .. n
      BY <1>1
    <3>2. f[i] = F[i][f[i - 1]] /\ f[i - 1] \in X
      <4> HIDE DEF F, e
      <4>1. QED BY <2>1, <3>1
    <3>3. QED BY <3>2
  <2>5. QED BY <2>3, <2>4
<1>7. CASE n = 0
  <2>1. ss = <<>> /\ FlattenSeq(ss) = ss
    BY <1>7 DEF n, FlattenSeq
  <2>2. QED BY <1>6, <1>7, <2>1 DEF n, X
<1>8. CASE n # 0
  <2>1. FlattenSeq(ss) = added[n]
    BY <1>8 DEF FlattenSeq, n
  <2> DEFINE g == [i \in 1 .. n |-> f[i]]
  <2>2. g = Added(g)
    <3>1. ASSUME NEW i \in 1 .. n PROVE f[i] = IF i = 1 THEN ss[i] ELSE g[i - 1] \o ss[i]
      <4>1. CASE i = 1
        <5>1. f[1] = f[0] \o ss[1] /\ ss[1] \in Seq(S)
          <6>1. 1 \in 1 .. n /\ 1 - 1 = 0
            BY <4>1
          <6>2. QED BY <6>1, <1>6, <1>1 DEF X
        <5>2. f[1] = ss[1]
          BY <5>1, <1>6
        <5>3. QED BY <5>2, <4>1
      <4>2. CASE i # 1
        <5>1. i - 1 \in 1 .. n
          BY <4>2, <1>1
        <5>2. g[i - 1] = f[i - 1]
          BY <5>1
        <5>3. QED BY <5>2, <4>2, <1>6
      <4>3. QED BY <4>1, <4>2
    <3>2. QED BY <3>1
  <2>3. added = Added(added)
    BY <2>2
  <2> HIDE DEF added, g
  <2>4. \A i \in 1 .. n : added[i] = IF i = 1 THEN ss[i] ELSE added[i - 1] \o ss[i]
    BY <2>3
  <2> DEFINE G == {i \in 0 .. n : i # 0 => added[i] = f[i]}
  <2>5. 0 \in G
    BY <1>1
  <2>6. ASSUME NEW i \in 1 .. n, i - 1 \in G PROVE i \in G
    <3>1. i \in 0 .. n
      BY <1>1
    <3>2. CASE i = 1
      <4>1. 1 \in 1 .. n /\ 1 - 1 = 0
        BY <3>2
      <4>2. f[1] = f[0] \o ss[1] /\ ss[1] \in Seq(S) /\ added[1] = ss[1]
        BY <4>1, <1>6, <1>1, <2>4 DEF X
      <4>3. f[1] = ss[1]
        BY <4>2, <1>6
      <4>4. QED BY <4>2, <4>3, <3>2, <3>1
    <3>3. CASE i # 1
      <4>1. i - 1 # 0
        BY <3>3, <1>1
      <4>2. added[i - 1] = f[i - 1]
        BY <4>1, <2>6
      <4>3. QED BY <4>2, <3>1, <3>3, <2>4, <1>6
    <3>4. QED BY <3>2, <3>3
  <2> HIDE DEF G
  <2>7. \A i \in 0 .. n : i \in G
    BY <2>5, <2>6, <1>1, Upto
  <2>8. n \in 0 .. n
    BY <1>1
  <2>9. added[n] = f[n]
    BY <2>7, <2>8, <1>8 DEF G
  <2>10. QED BY <2>1, <2>9, <1>6 DEF n, X
<1>9. QED BY <1>7, <1>8

LEMMA FlattenType ==
  ASSUME NEW S, NEW ss \in Seq(Seq(S))
  PROVE  FlattenSeq(ss) \in Seq(S)
<1>1. PICK f \in [0 .. Len(ss) -> Seq(S)] : FlattenSeq(ss) = f[Len(ss)]
  BY FlattenSteps
<1>2. Len(ss) \in 0 .. Len(ss)
  BY LenProperties
<1>3. QED BY <1>1, <1>2

LEMMA FlattenEmpty == FlattenSeq(<<>>) = <<>>
  BY DEF FlattenSeq

LEMMA FlattenOne ==
  ASSUME NEW S, NEW s \in Seq(S)
  PROVE  FlattenSeq(<<s>>) = s
<1> DEFINE ss == <<s>>
<1>1. ss \in Seq(Seq(S)) /\ Len(ss) = 1 /\ ss[1] = s
  OBVIOUS
<1> HIDE DEF ss
<1>2. PICK f \in [0 .. Len(ss) -> Seq(S)] :
            /\ f[0] = <<>>
            /\ \A i \in 1 .. Len(ss) : f[i] = f[i - 1] \o ss[i]
            /\ FlattenSeq(ss) = f[Len(ss)]
  BY <1>1, FlattenSteps
<1>3. FlattenSeq(ss) = s
  <2>1. 1 \in 1 .. Len(ss) /\ 1 - 1 = 0
    BY <1>1
  <2>2. f[1] = f[1 - 1] \o ss[1]
    BY <1>2, <2>1
  <2>3. f[1] = <<>> \o s
    BY <1>1, <1>2, <2>1, <2>2
  <2>4. QED BY <1>1, <1>2, <2>3
<1>4. QED BY <1>3 DEF ss

(* Its elements are those of the sequences.                                *)
LEMMA FlattenRange ==
  ASSUME NEW S, NEW ss \in Seq(Seq(S))
  PROVE  Range(FlattenSeq(ss)) = UNION {Range(ss[i]) : i \in 1 .. Len(ss)}
<1> DEFINE n == Len(ss)
<1>1. PICK f \in [0 .. n -> Seq(S)] :
            /\ f[0] = <<>>
            /\ \A i \in 1 .. n : f[i] = f[i - 1] \o ss[i]
            /\ FlattenSeq(ss) = f[n]
  BY FlattenSteps
<1>2. n \in Nat /\ \A i \in 1 .. n : ss[i] \in Seq(S)
  BY LenProperties
<1> HIDE DEF n
<1> DEFINE G == {i \in 0 .. n : Range(f[i]) = UNION {Range(ss[j]) : j \in 1 .. i}}
<1>3. 0 \in G
  <2>1. 0 \in 0 .. n /\ 1 .. 0 = {}
    BY <1>2
  <2>2. Range(<<>>) = {}
    BY DEF Range
  <2>3. QED BY <2>1, <2>2, <1>1
<1>4. ASSUME NEW i \in 1 .. n, i - 1 \in G PROVE i \in G
  <2>1. i \in 0 .. n /\ i - 1 \in 0 .. n /\ 1 .. i = (1 .. (i - 1)) \cup {i}
    BY <1>2
  <2>2. f[i - 1] \in Seq(S) /\ ss[i] \in Seq(S)
    BY <1>1, <1>2, <2>1
  <2>3. Range(f[i]) = Range(f[i - 1]) \cup Range(ss[i])
    <3>1. f[i] = f[i - 1] \o ss[i]
      BY <1>1
    <3>2. QED BY <3>1, <2>2, RangeConcatenation
  <2>4. Range(f[i - 1]) = UNION {Range(ss[j]) : j \in 1 .. (i - 1)}
    BY <1>4
  <2>5. QED BY <2>1, <2>3, <2>4
<1> HIDE DEF G
<1>5. n \in G
  <2>1. \A i \in 0 .. n : i \in G
    BY <1>2, <1>3, <1>4, Upto
  <2>2. n \in 0 .. n
    BY <1>2
  <2>3. QED BY <2>1, <2>2
<1>6. QED BY <1>1, <1>5 DEF G, n

LEMMA FlattenConcat ==
  ASSUME NEW S, NEW a \in Seq(Seq(S)), NEW b \in Seq(Seq(S))
  PROVE  FlattenSeq(a \o b) = FlattenSeq(a) \o FlattenSeq(b)
<1> DEFINE m == Len(a)
           n == Len(b)
           c == a \o b
<1>1. /\ c \in Seq(Seq(S)) /\ Len(c) = m + n /\ m \in Nat /\ n \in Nat
      /\ \A i \in 1 .. m : c[i] = a[i]
      /\ \A i \in 1 .. n : c[m + i] = b[i]
      /\ \A i \in 1 .. m : a[i] \in Seq(S)
      /\ \A i \in 1 .. n : b[i] \in Seq(S)
  BY ConcatProperties, LenProperties
<1> HIDE DEF c
<1>2. PICK f \in [0 .. m -> Seq(S)] :
            /\ f[0] = <<>>
            /\ \A i \in 1 .. m : f[i] = f[i - 1] \o a[i]
            /\ FlattenSeq(a) = f[m]
  BY FlattenSteps
<1>3. PICK g \in [0 .. n -> Seq(S)] :
            /\ g[0] = <<>>
            /\ \A i \in 1 .. n : g[i] = g[i - 1] \o b[i]
            /\ FlattenSeq(b) = g[n]
  BY FlattenSteps
<1>4. PICK h \in [0 .. (m + n) -> Seq(S)] :
            /\ h[0] = <<>>
            /\ \A i \in 1 .. (m + n) : h[i] = h[i - 1] \o c[i]
            /\ FlattenSeq(c) = h[m + n]
  <2>1. PICK h \in [0 .. Len(c) -> Seq(S)] :
            /\ h[0] = <<>>
            /\ \A i \in 1 .. Len(c) : h[i] = h[i - 1] \o c[i]
            /\ FlattenSeq(c) = h[Len(c)]
    BY <1>1, FlattenSteps
  <2>2. QED BY <2>1, <1>1
<1> HIDE DEF m, n
<1> DEFINE G == {i \in 0 .. m : h[i] = f[i]}
<1>5. 0 \in G
  BY <1>1, <1>2, <1>4
<1>6. ASSUME NEW i \in 1 .. m, i - 1 \in G PROVE i \in G
  <2>1. i \in 0 .. m /\ i \in 1 .. (m + n) /\ h[i - 1] = f[i - 1]
    BY <1>1, <1>6
  <2>2. h[i] = h[i - 1] \o c[i] /\ f[i] = f[i - 1] \o a[i] /\ c[i] = a[i]
    BY <2>1, <1>1, <1>2, <1>4
  <2>3. QED BY <2>1, <2>2
<1> HIDE DEF G
<1>7. \A i \in 0 .. m : i \in G
  BY <1>1, <1>5, <1>6, Upto
<1>8. h[m] = f[m] /\ f[m] \in Seq(S)
  <2>1. m \in 0 .. m
    BY <1>1
  <2>2. QED BY <2>1, <1>7, <1>2 DEF G
<1> DEFINE K == {i \in 0 .. n : h[m + i] = f[m] \o g[i]}
<1>9. 0 \in K
  <2>1. 0 \in 0 .. n /\ m + 0 = m
    BY <1>1
  <2>2. f[m] \o <<>> = f[m]
    BY <1>8
  <2>3. QED BY <2>1, <2>2, <1>3, <1>8
<1>10. ASSUME NEW i \in 1 .. n, i - 1 \in K PROVE i \in K
  <2>1. i \in 0 .. n /\ i - 1 \in 0 .. n /\ m + i \in 1 .. (m + n) /\ (m + i) - 1 = m + (i - 1)
    BY <1>1
  <2>2. h[m + i] = h[m + (i - 1)] \o c[m + i] /\ c[m + i] = b[i]
    BY <2>1, <1>1, <1>4
  <2>3. h[m + (i - 1)] = f[m] \o g[i - 1]
    BY <1>10
  <2>4. g[i - 1] \in Seq(S) /\ b[i] \in Seq(S) /\ g[i] = g[i - 1] \o b[i]
    BY <2>1, <1>1, <1>3
  <2>5. (f[m] \o g[i - 1]) \o b[i] = f[m] \o (g[i - 1] \o b[i])
    <3>1. \A x, y, z \in Seq(S) : (x \o y) \o z = x \o (y \o z)
      BY ConcatAssociative
    <3>2. QED BY <3>1, <2>4, <1>8
  <2>6. QED BY <2>1, <2>2, <2>3, <2>4, <2>5
<1> HIDE DEF K
<1>11. \A i \in 0 .. n : i \in K
  BY <1>1, <1>9, <1>10, Upto
<1>12. h[m + n] = f[m] \o g[n]
  <2>1. n \in 0 .. n
    BY <1>1
  <2>2. QED BY <2>1, <1>11 DEF K
<1>13. QED BY <1>2, <1>3, <1>4, <1>12 DEF c

-----------------------------------------------------------------------------
(* What can be resolved at all: Resolvable is the least fixed point.       *)

LEMMA ReadyMono ==
  ASSUME NEW nodes, NEW A, NEW B, A \subseteq B, NEW d, NEW e, d => e
  PROVE  Ready(nodes, A, d) \subseteq Ready(nodes, B, e)
<1>1. ASSUME NEW x, Grounded(A, d, x) PROVE Grounded(B, e, x)
  BY <1>1 DEF Grounded
<1>2. QED BY <1>1 DEF Ready

LEMMA PathsFinite ==
  ASSUME NEW S, NEW nodes \in Seq(S)
  PROVE  IsFiniteSet(Paths(nodes)) /\ Cardinality(Paths(nodes)) =< Len(nodes)
<1> DEFINE n == Len(nodes)
           f == [i \in 1 .. n |-> nodes[i].path]
<1>1. n \in Nat /\ DOMAIN nodes = 1 .. n
  BY LenProperties
<1>2. IsFiniteSet(1 .. n) /\ Cardinality(1 .. n) = n
  <2>1. 1 \in Int /\ n \in Int
    BY <1>1
  <2>2. QED BY <2>1, <1>1, FS_Interval
<1>3. f \in Surjection(1 .. n, Paths(nodes))
  BY <1>1 DEF Surjection, Paths
<1> HIDE DEF f, n
<1>4. QED BY <1>2, <1>3, FS_Surjection DEF n

LEMMA ResolvableSteps ==
  ASSUME NEW S, NEW nodes \in Seq(S), NEW d
  PROVE  \E f \in [0 .. Len(nodes) -> SUBSET Paths(nodes)] :
            /\ f[0] = {}
            /\ \A i \in 1 .. Len(nodes) : f[i] = Ready(nodes, f[i - 1], d)
            /\ Resolvable(nodes, d) = f[Len(nodes)]
<1> DEFINE n == Len(nodes)
           X == SUBSET Paths(nodes)
           e == {}
           R(x) == Ready(nodes, x, d)
           Added(k) == [i \in 0 .. n |-> IF i = 0 THEN e ELSE R(k[i - 1])]
           added == CHOOSE k : k = Added(k)
           F == [i \in 1 .. n |-> [x \in X |-> R(x)]]
<1>1. Resolvable(nodes, d) = added[n]
  BY DEF Resolvable
<1>2. n \in Nat
  BY LenProperties
<1>3. e \in X
  OBVIOUS
<1>4. ASSUME NEW x \in X PROVE R(x) \in X
  BY DEF Ready, Paths
<1> HIDE DEF R, X, n
<1>5. F \in [1 .. n -> [X -> X]]
  BY <1>4
<1>6. PICK f \in [0 .. n -> X] : IsLoop(f, n, e, F)
  <2> HIDE DEF F, e
  <2>1. QED BY <1>2, <1>3, <1>5, Loop
<1>7. f = Added(f)
  <2>1. ASSUME NEW i \in 0 .. n, i # 0 PROVE F[i][f[i - 1]] = R(f[i - 1])
    <3>1. i \in 1 .. n /\ i - 1 \in 0 .. n
      BY <2>1, <1>2
    <3>2. f[i - 1] \in X
      <4> HIDE DEF F, e
      <4>1. QED BY <3>1, <1>6
    <3>3. QED BY <3>1, <3>2
  <2> HIDE DEF F
  <2>2. QED BY <2>1, <1>6 DEF IsLoop
<1>8. added = Added(added)
  BY <1>7
<1> HIDE DEF added
<1>9. \A i \in 0 .. n : added[i] = IF i = 0 THEN e ELSE R(added[i - 1])
  BY <1>8
<1> DEFINE G == {i \in 0 .. n : added[i] \in X}
<1>10. 0 \in G
  BY <1>2, <1>3, <1>9
<1>11. ASSUME NEW i \in 1 .. n, i - 1 \in G PROVE i \in G
  <2>1. i \in 0 .. n /\ i # 0
    BY <1>2
  <2>2. QED BY <2>1, <1>4, <1>9, <1>11
<1> HIDE DEF G
<1>12. \A i \in 0 .. n : i \in G
  BY <1>2, <1>10, <1>11, Upto
<1>13. added \in [0 .. n -> X]
  <2>1. added = [i \in 0 .. n |-> added[i]]
    BY <1>8
  <2>2. QED BY <2>1, <1>12 DEF G
<1>14. added[0] = {}
  BY <1>2, <1>9
<1>15. ASSUME NEW i \in 1 .. n PROVE added[i] = Ready(nodes, added[i - 1], d)
  <2>1. i \in 0 .. n /\ i # 0
    BY <1>2
  <2>2. QED BY <2>1, <1>9 DEF R
<1>16. QED BY <1>1, <1>13, <1>14, <1>15 DEF X, n

(* A set that has what is ready once it is resolved has all of it.         *)
LEMMA ResolvableLeast ==
  ASSUME NEW S, NEW nodes \in Seq(S), NEW d, NEW T, Ready(nodes, T, d) \subseteq T
  PROVE  Resolvable(nodes, d) \subseteq T
<1> DEFINE n == Len(nodes)
<1>1. PICK f \in [0 .. n -> SUBSET Paths(nodes)] :
            /\ f[0] = {}
            /\ \A i \in 1 .. n : f[i] = Ready(nodes, f[i - 1], d)
            /\ Resolvable(nodes, d) = f[n]
  BY ResolvableSteps
<1>2. n \in Nat
  BY LenProperties
<1> HIDE DEF n
<1> DEFINE G == {i \in 0 .. n : f[i] \subseteq T}
<1>3. 0 \in G
  BY <1>1, <1>2
<1>4. ASSUME NEW i \in 1 .. n, i - 1 \in G PROVE i \in G
  <2>1. i \in 0 .. n /\ f[i - 1] \subseteq T /\ f[i] = Ready(nodes, f[i - 1], d)
    BY <1>1, <1>2, <1>4
  <2>2. Ready(nodes, f[i - 1], d) \subseteq Ready(nodes, T, d)
    BY <2>1, ReadyMono
  <2>3. QED BY <2>1, <2>2
<1> HIDE DEF G
<1>5. \A i \in 0 .. n : i \in G
  BY <1>2, <1>3, <1>4, Upto
<1>6. n \in 0 .. n
  BY <1>2
<1>7. QED BY <1>1, <1>5, <1>6 DEF G

(* As many turns as there are nodes are enough.                            *)
LEMMA ResolvableFixed ==
  ASSUME NEW S, NEW nodes \in Seq(S), NEW d
  PROVE  /\ Resolvable(nodes, d) \subseteq Paths(nodes)
         /\ Ready(nodes, Resolvable(nodes, d), d) \subseteq Resolvable(nodes, d)
<1> DEFINE n == Len(nodes)
           P == Paths(nodes)
           R(x) == Ready(nodes, x, d)
<1>1. PICK f \in [0 .. n -> SUBSET P] :
            /\ f[0] = {}
            /\ \A i \in 1 .. n : f[i] = R(f[i - 1])
            /\ Resolvable(nodes, d) = f[n]
  BY ResolvableSteps
<1>2. n \in Nat /\ IsFiniteSet(P) /\ Cardinality(P) =< n
  BY LenProperties, PathsFinite
<1>3. \A x : R(x) \subseteq P
  BY DEF Ready, Paths
<1>4. \A A, B : A \subseteq B => R(A) \subseteq R(B)
  BY ReadyMono
<1>5. Cardinality(P) \in Nat
  BY <1>2, FS_CardinalityType
<1>6. \A x \in SUBSET P : IsFiniteSet(x) /\ Cardinality(x) \in Nat
                          /\ Cardinality(x) =< Cardinality(P) /\ (Cardinality(x) = Cardinality(P) => x = P)
  BY <1>2, FS_Subset, FS_CardinalityType
<1> HIDE DEF R, P, n
<1> DEFINE G == {i \in 0 .. n : f[i] \subseteq R(f[i]) /\ (i =< Cardinality(f[i]) \/ R(f[i]) = f[i])}
<1>7. 0 \in G
  <2>1. 0 \in 0 .. n /\ f[0] \subseteq R(f[0])
    BY <1>1, <1>2
  <2>2. f[0] \in SUBSET P
    BY <2>1, <1>1
  <2>3. Cardinality(f[0]) \in Nat
    BY <2>2, <1>6
  <2>4. QED BY <2>1, <2>3
<1>8. ASSUME NEW i \in 1 .. n, i - 1 \in G PROVE i \in G
  <2> DEFINE A == f[i - 1]
             B == f[i]
  <2>1. i \in 0 .. n /\ i - 1 \in 0 .. n
    BY <1>2
  <2>2. A \in SUBSET P /\ B \in SUBSET P /\ B = R(A)
    BY <2>1, <1>1
  <2>3. A \subseteq B /\ (i - 1 =< Cardinality(A) \/ B = A)
    BY <2>2, <1>8
  <2> HIDE DEF A, B
  <2>4. B \subseteq R(B)
    BY <2>2, <2>3, <1>4
  <2>5. CASE B = A
    BY <2>5, <2>1, <2>2, <2>4 DEF A, B
  <2>6. CASE B # A
    <3>1. i - 1 =< Cardinality(A)
      BY <2>3, <2>6
    <3>2. IsFiniteSet(B) /\ Cardinality(B) \in Nat /\ Cardinality(A) \in Nat
      BY <2>2, <1>6
    <3>3. Cardinality(A) =< Cardinality(B) /\ Cardinality(A) # Cardinality(B)
      BY <2>3, <2>6, <3>2, FS_Subset
    <3>4. i =< Cardinality(B)
      BY <3>1, <3>2, <3>3, <1>2
    <3>5. QED BY <3>4, <2>1, <2>4 DEF B
  <2>7. QED BY <2>5, <2>6
<1> HIDE DEF G
<1>9. \A i \in 0 .. n : i \in G
  BY <1>2, <1>7, <1>8, Upto
<1>10. n \in 0 .. n
  BY <1>2
<1>11. f[n] \subseteq R(f[n]) /\ (n =< Cardinality(f[n]) \/ R(f[n]) = f[n])
  BY <1>9, <1>10 DEF G
<1>12. f[n] \in SUBSET P
  BY <1>1, <1>10
<1>13. R(f[n]) \subseteq f[n]
  <2>1. CASE R(f[n]) = f[n]
    BY <2>1
  <2>2. CASE n =< Cardinality(f[n])
    <3>1. Cardinality(f[n]) \in Nat /\ Cardinality(f[n]) =< Cardinality(P)
      BY <1>12, <1>6
    <3>2. Cardinality(f[n]) = Cardinality(P)
      BY <2>2, <3>1, <1>2, <1>5
    <3>3. f[n] = P
      BY <3>2, <1>12, <1>6
    <3>4. QED BY <3>3, <1>3
  <2>3. QED BY <1>11, <2>1, <2>2
<1>14. QED BY <1>1, <1>12, <1>13 DEF R, P

(* What needs no default can be had with defaults.                         *)
LEMMA ResolvableEasy ==
  ASSUME NEW S, NEW nodes \in Seq(S)
  PROVE  Resolvable(nodes, FALSE) \subseteq Resolvable(nodes, TRUE)
<1> DEFINE T == Resolvable(nodes, TRUE)
<1>1. Ready(nodes, T, TRUE) \subseteq T
  BY ResolvableFixed
<1>2. Ready(nodes, T, FALSE) \subseteq Ready(nodes, T, TRUE)
  BY ReadyMono
<1> HIDE DEF T
<1>3. Resolvable(nodes, FALSE) \subseteq T
  <2>1. Ready(nodes, T, FALSE) \subseteq T
    BY <1>1, <1>2
  <2>2. QED BY <2>1, ResolvableLeast
<1>4. QED BY <1>3 DEF T

-----------------------------------------------------------------------------
(* One text of each set.                                                   *)

Joined(A, B) == {a \o b : a \in A, b \in B}

LEMMA InJoined ==
  ASSUME NEW A, NEW B, NEW x, \E a \in A, b \in B : x = a \o b
  PROVE  x \in Joined(A, B)
  BY DEF Joined

LEMMA JoinedIs ==
  ASSUME NEW S, NEW A \in SUBSET Seq(S), NEW B \in SUBSET Seq(S)
  PROVE  Joined(A, B) \in SUBSET Seq(S)
<1>1. ASSUME NEW x \in Joined(A, B) PROVE x \in Seq(S)
  <2>1. PICK a \in A, b \in B : x = a \o b
    BY DEF Joined
  <2>2. QED BY <2>1
<1>2. QED BY <1>1

LEMMA JoinedMono ==
  ASSUME NEW A, NEW B, NEW C, NEW D, A \subseteq C, B \subseteq D
  PROVE  Joined(A, B) \subseteq Joined(C, D)
<1>1. ASSUME NEW x \in Joined(A, B) PROVE x \in Joined(C, D)
  <2>1. PICK a \in A, b \in B : x = a \o b
    BY DEF Joined
  <2>2. a \in C /\ b \in D
    OBVIOUS
  <2>3. \E c \in C, e \in D : x = c \o e
    BY <2>1, <2>2, Zenon
  <2>4. QED BY <2>3, InJoined
<1>2. QED BY <1>1

LEMMA ConcatsSteps ==
  ASSUME NEW S, NEW offers \in Seq(SUBSET Seq(S))
  PROVE  \E f \in [0 .. Len(offers) -> SUBSET Seq(S)] :
            /\ f[0] = {<<>>}
            /\ \A i \in 1 .. Len(offers) : f[i] = Joined(f[i - 1], offers[i])
            /\ Concats(offers) = f[Len(offers)]
<1> DEFINE n == Len(offers)
           X == SUBSET Seq(S)
           e == {<<>>}
           R(x, i) == Joined(x, offers[i])
           Added(k) == [i \in 0 .. n |-> IF i = 0 THEN e ELSE R(k[i - 1], i)]
           added == CHOOSE k : k = Added(k)
           F == [i \in 1 .. n |-> [x \in X |-> R(x, i)]]
<1>1. Concats(offers) = added[n]
  BY DEF Concats, Joined
<1>2. n \in Nat /\ \A i \in 1 .. n : offers[i] \in X
  BY LenProperties
<1>3. e \in X
  OBVIOUS
<1>4. ASSUME NEW i \in 1 .. n, NEW x \in X PROVE R(x, i) \in X
  <2>1. offers[i] \in SUBSET Seq(S) /\ x \in SUBSET Seq(S)
    BY <1>2
  <2>2. QED BY <2>1, JoinedIs
<1> HIDE DEF R, X, n
<1>5. F \in [1 .. n -> [X -> X]]
  BY <1>4
<1>6. PICK f \in [0 .. n -> X] : IsLoop(f, n, e, F)
  <2> HIDE DEF F, e
  <2>1. QED BY <1>2, <1>3, <1>5, Loop
<1>7. f = Added(f)
  <2>1. ASSUME NEW i \in 0 .. n, i # 0 PROVE F[i][f[i - 1]] = R(f[i - 1], i)
    <3>1. i \in 1 .. n /\ i - 1 \in 0 .. n
      BY <2>1, <1>2
    <3>2. f[i - 1] \in X
      <4> HIDE DEF F, e
      <4>1. QED BY <3>1, <1>6
    <3>3. QED BY <3>1, <3>2
  <2> HIDE DEF F
  <2>2. QED BY <2>1, <1>6 DEF IsLoop
<1>8. added = Added(added)
  BY <1>7
<1> HIDE DEF added
<1>9. \A i \in 0 .. n : added[i] = IF i = 0 THEN e ELSE R(added[i - 1], i)
  BY <1>8
<1> DEFINE G == {i \in 0 .. n : added[i] \in X}
<1>10. 0 \in G
  BY <1>2, <1>3, <1>9
<1>11. ASSUME NEW i \in 1 .. n, i - 1 \in G PROVE i \in G
  <2>1. i \in 0 .. n /\ i # 0
    BY <1>2
  <2>2. QED BY <2>1, <1>4, <1>9, <1>11
<1> HIDE DEF G
<1>12. \A i \in 0 .. n : i \in G
  BY <1>2, <1>10, <1>11, Upto
<1>13. added \in [0 .. n -> X]
  <2>1. added = [i \in 0 .. n |-> added[i]]
    BY <1>8
  <2>2. QED BY <2>1, <1>12 DEF G
<1>14. added[0] = {<<>>}
  BY <1>2, <1>9
<1>15. ASSUME NEW i \in 1 .. n PROVE added[i] = Joined(added[i - 1], offers[i])
  <2>1. i \in 0 .. n /\ i # 0
    BY <1>2
  <2>2. QED BY <2>1, <1>9 DEF R
<1>16. QED BY <1>1, <1>13, <1>14, <1>15 DEF X, n

LEMMA ConcatsMono ==
  ASSUME NEW S, NEW a \in Seq(SUBSET Seq(S)), NEW b \in Seq(SUBSET Seq(S)),
         Len(a) = Len(b), \A i \in 1 .. Len(a) : a[i] \subseteq b[i]
  PROVE  Concats(a) \subseteq Concats(b)
<1> DEFINE n == Len(a)
<1>1. PICK f \in [0 .. n -> SUBSET Seq(S)] :
            /\ f[0] = {<<>>}
            /\ \A i \in 1 .. n : f[i] = Joined(f[i - 1], a[i])
            /\ Concats(a) = f[n]
  BY ConcatsSteps
<1>2. PICK g \in [0 .. n -> SUBSET Seq(S)] :
            /\ g[0] = {<<>>}
            /\ \A i \in 1 .. n : g[i] = Joined(g[i - 1], b[i])
            /\ Concats(b) = g[n]
  <2>1. PICK g \in [0 .. Len(b) -> SUBSET Seq(S)] :
            /\ g[0] = {<<>>}
            /\ \A i \in 1 .. Len(b) : g[i] = Joined(g[i - 1], b[i])
            /\ Concats(b) = g[Len(b)]
    BY ConcatsSteps
  <2>2. QED BY <2>1
<1>3. n \in Nat /\ \A i \in 1 .. n : a[i] \subseteq b[i]
  BY LenProperties
<1> HIDE DEF n
<1> DEFINE G == {i \in 0 .. n : f[i] \subseteq g[i]}
<1>4. 0 \in G
  BY <1>1, <1>2, <1>3
<1>5. ASSUME NEW i \in 1 .. n, i - 1 \in G PROVE i \in G
  <2>1. i \in 0 .. n /\ f[i - 1] \subseteq g[i - 1] /\ a[i] \subseteq b[i]
    BY <1>3, <1>5
  <2>2. f[i] = Joined(f[i - 1], a[i]) /\ g[i] = Joined(g[i - 1], b[i])
    BY <1>1, <1>2
  <2>3. f[i] \subseteq g[i]
    BY <2>1, <2>2, JoinedMono
  <2>4. QED BY <2>1, <2>3
<1> HIDE DEF G
<1>6. \A i \in 0 .. n : i \in G
  BY <1>3, <1>4, <1>5, Upto
<1>7. n \in 0 .. n
  BY <1>3
<1>8. QED BY <1>1, <1>2, <1>6, <1>7 DEF G

-----------------------------------------------------------------------------
(* The pieces of a string, one after the other.                            *)

Accs == [ok : BOOLEAN, raised : BOOLEAN, text : Seq(Strings), waits : SUBSET Seq(Strings)]

Typed(s) ==
  /\ s.nodes \in Seq(Range(s.nodes))
  /\ s.resolved \subseteq Paths(s.nodes)
  /\ s.text \in [Paths(s.nodes) -> Seq(Strings)]
  /\ s.unresolved \subseteq Seq(Strings)

(* What is wrong with a piece, what lets it wait, and what lets it pass.   *)
IllPiece(nodes, p) ==
  /\ p.t # "lit"
  /\ \/ Unsupported(nodes, p.to)
     \/ p.t = "join" /\ p.to \in Paths(nodes) /\ NodeAt(nodes, p.to).t # "list"
Stuck(s, d, p) == p.t # "lit" /\ p.to \notin s.resolved /\ ~(d /\ p.def # NoDefault)
Handled(s, d, p) == ~IllPiece(s.nodes, p) /\ ~Stuck(s, d, p)

LEMMA PieceTypes ==
  ASSUME NEW p \in Pieces
  PROVE  /\ p.t \in {"lit", "ref", "join"} /\ p.def \in Strings \cup {NoDefault}
         /\ p.t = "lit" => p.to \in Strings
         /\ p.t # "lit" => p.to \in Seq(Strings)
         /\ p.t = "join" => p.def = NoDefault
<1>1. CASE p \in [t : {"lit"}, to : Strings, def : {NoDefault}]
  BY <1>1
<1>2. CASE p \in [t : {"ref"}, to : Seq(Strings), def : Strings \cup {NoDefault}]
  BY <1>2
<1>3. CASE p \in [t : {"join"}, to : Seq(Strings), def : {NoDefault}]
  BY <1>3
<1>4. QED BY <1>1, <1>2, <1>3 DEF Pieces

LEMMA TextAtType ==
  ASSUME NEW nodes, nodes \in Seq(Range(nodes)), NEW text \in [Paths(nodes) -> Seq(Strings)], NEW path
  PROVE  TextAt(nodes, text, path) \in Seq(Strings)
<1> DEFINE ss == [i \in DOMAIN nodes |->
                    IF nodes[i].t = "str" /\ IsPrefix(path, nodes[i].path) THEN text[nodes[i].path] ELSE <<>>]
<1>1. DOMAIN nodes = 1 .. Len(nodes) /\ Len(nodes) \in Nat
  BY LenProperties
<1>2. \A i \in DOMAIN nodes : ss[i] \in Seq(Strings)
  <2>1. \A i \in DOMAIN nodes : nodes[i].path \in Paths(nodes)
    BY DEF Paths
  <2>2. <<>> \in Seq(Strings)
    OBVIOUS
  <2>3. \A i \in DOMAIN nodes : text[nodes[i].path] \in Seq(Strings)
    BY <2>1
  <2>4. QED BY <2>2, <2>3
<1>3. ss \in Seq(Seq(Strings))
  <2>1. ss = [i \in 1 .. Len(nodes) |-> ss[i]]
    BY <1>1
  <2> HIDE DEF ss
  <2>2. ss \in [1 .. Len(nodes) -> Seq(Strings)]
    BY <2>1, <1>1, <1>2
  <2>3. QED BY <2>2, <1>1, IsASeq
<1> HIDE DEF ss
<1>4. FlattenSeq(ss) \in Seq(Strings)
  BY <1>3, FlattenType
<1>5. QED BY <1>4 DEF TextAt, ss

(* What a piece makes of what the string has become so far.                *)
PieceOutcome(s, d, easy, acc, p, r) ==
  /\ r \in Accs
  /\ acc.waits \ s.resolved \subseteq r.waits
  /\ ~acc.ok \/ acc.raised => r = acc
  /\ acc.ok /\ ~acc.raised =>
       \/ /\ r.ok /\ ~r.raised /\ Handled(s, d, p)
          /\ \E b \in Offers(s.nodes, s.text, easy, s.resolved, p) : r.text = acc.text \o b
       \/ r.raised /\ r.ok /\ IllPiece(s.nodes, p)
       \/ ~r.ok /\ ~r.raised /\ Stuck(s, d, p) /\ p.to \in r.waits

LEMMA PieceStep ==
  ASSUME NEW s, Typed(s), NEW d \in BOOLEAN, NEW easy, d => easy \subseteq s.resolved,
         NEW acc \in Accs, NEW p \in Pieces
  PROVE  PieceOutcome(s, d, easy, acc, p, Piece(d, s, acc, p))
<1> DEFINE r == Piece(d, s, acc, p)
           missing == p.to \notin s.resolved
<1> USE DEF PieceOutcome
<1>1. /\ p.t \in {"lit", "ref", "join"} /\ p.def \in Strings \cup {NoDefault}
      /\ p.t = "lit" => p.to \in Strings
      /\ p.t # "lit" => p.to \in Seq(Strings)
      /\ p.t = "join" => p.def = NoDefault
  BY PieceTypes
<1>2. acc.ok \in BOOLEAN /\ acc.raised \in BOOLEAN /\ acc.text \in Seq(Strings) /\ acc.waits \in SUBSET Seq(Strings)
  BY DEF Accs
<1>3. \A w \in Strings : Append(acc.text, w) = acc.text \o <<w>> /\ Append(acc.text, w) \in Seq(Strings)
  BY <1>2, AppendIsConcat, AppendProperties
<1>4. CASE ~acc.ok \/ acc.raised
  <2>1. r = acc
    BY <1>4 DEF Piece
  <2>2. QED BY <2>1, <1>4
<1>5. CASE acc.ok /\ ~acc.raised /\ p.t = "lit"
  <2>1. r = [acc EXCEPT !.text = Append(acc.text, p.to)]
    BY <1>5 DEF Piece
  <2>2. r \in Accs /\ r.ok = acc.ok /\ r.raised = acc.raised /\ r.waits = acc.waits /\ r.text = Append(acc.text, p.to)
    BY <2>1, <1>1, <1>3, <1>5 DEF Accs
  <2>3. Offers(s.nodes, s.text, easy, s.resolved, p) = {<<p.to>>}
    BY <1>5 DEF Offers
  <2>4. r.text = acc.text \o <<p.to>>
    BY <2>2, <1>1, <1>3, <1>5
  <2>5. Handled(s, d, p)
    BY <1>5 DEF Handled, IllPiece, Stuck
  <2>6. QED BY <2>2, <2>3, <2>4, <2>5, <1>5
<1>6. CASE acc.ok /\ ~acc.raised /\ p.t # "lit" /\ Unsupported(s.nodes, p.to)
  <2>1. r = [acc EXCEPT !.raised = TRUE]
    BY <1>6 DEF Piece
  <2>2. r \in Accs /\ r.raised = TRUE /\ r.ok = acc.ok /\ r.waits = acc.waits
    BY <2>1 DEF Accs
  <2>3. QED BY <2>2, <1>6 DEF IllPiece
<1>7. CASE /\ acc.ok /\ ~acc.raised /\ p.t # "lit" /\ ~Unsupported(s.nodes, p.to)
           /\ missing /\ d /\ p.def # NoDefault
  <2>1. r = [acc EXCEPT !.text = Append(acc.text, p.def), !.waits = acc.waits \cup {p.to}]
    BY <1>7 DEF Piece
  <2>2. /\ r \in Accs /\ r.ok = acc.ok /\ r.raised = acc.raised /\ r.waits = acc.waits \cup {p.to}
        /\ r.text = Append(acc.text, p.def)
    BY <2>1, <1>1, <1>2, <1>3, <1>7 DEF Accs
  <2>3. p.to \notin easy
    BY <1>7
  <2>4. <<p.def>> \in Offers(s.nodes, s.text, easy, s.resolved, p)
    BY <2>3, <1>7 DEF Offers
  <2>5. r.text = acc.text \o <<p.def>>
    BY <2>2, <1>1, <1>3
  <2>6. Handled(s, d, p)
    BY <1>1, <1>7 DEF Handled, IllPiece, Stuck
  <2>7. QED BY <2>2, <2>4, <2>5, <2>6, <1>7
<1>8. CASE /\ acc.ok /\ ~acc.raised /\ p.t # "lit" /\ ~Unsupported(s.nodes, p.to)
           /\ missing /\ ~(d /\ p.def # NoDefault)
  <2>1. r = [acc EXCEPT !.ok = FALSE, !.waits = acc.waits \cup {p.to}]
    BY <1>8 DEF Piece
  <2>2. r \in Accs /\ r.ok = FALSE /\ r.raised = acc.raised /\ r.waits = acc.waits \cup {p.to}
    BY <2>1, <1>1, <1>2, <1>8 DEF Accs
  <2>3. QED BY <2>2, <1>8 DEF Stuck
<1>9. CASE /\ acc.ok /\ ~acc.raised /\ p.t # "lit" /\ ~Unsupported(s.nodes, p.to)
           /\ ~missing /\ p.t = "join" /\ NodeAt(s.nodes, p.to).t # "list"
  <2>1. r = [acc EXCEPT !.raised = TRUE]
    BY <1>9 DEF Piece
  <2>2. r \in Accs /\ r.raised = TRUE /\ r.ok = acc.ok /\ r.waits = acc.waits
    BY <2>1 DEF Accs
  <2>3. p.to \in Paths(s.nodes)
    BY <1>9 DEF Typed
  <2>4. QED BY <2>2, <2>3, <1>9 DEF IllPiece
<1>10. CASE /\ acc.ok /\ ~acc.raised /\ p.t # "lit" /\ ~Unsupported(s.nodes, p.to)
            /\ ~missing /\ ~(p.t = "join" /\ NodeAt(s.nodes, p.to).t # "list")
  <2> DEFINE t == TextAt(s.nodes, s.text, p.to)
  <2>1. t \in Seq(Strings)
    BY TextAtType DEF Typed
  <2>2. r = [acc EXCEPT !.text = acc.text \o t, !.waits = acc.waits \ {p.to}]
    BY <1>10 DEF Piece
  <2>3. t \in Offers(s.nodes, s.text, easy, s.resolved, p)
    BY <1>10 DEF Offers
  <2> HIDE DEF t
  <2>4. acc.text \o t \in Seq(Strings)
    BY <2>1, <1>2
  <2>5. /\ r \in Accs /\ r.ok = acc.ok /\ r.raised = acc.raised /\ r.waits = acc.waits \ {p.to}
        /\ r.text = acc.text \o t
    BY <2>2, <2>4, <1>2 DEF Accs
  <2>6. Handled(s, d, p)
    BY <1>10 DEF Handled, IllPiece, Stuck
  <2>7. QED BY <2>3, <2>5, <2>6, <1>10
<1>11. QED BY <1>4, <1>5, <1>6, <1>7, <1>8, <1>9, <1>10, <1>1, <1>2

LEMMA OffersType ==
  ASSUME NEW nodes, nodes \in Seq(Range(nodes)), NEW text \in [Paths(nodes) -> Seq(Strings)],
         NEW easy, NEW all, NEW p \in Pieces
  PROVE  Offers(nodes, text, easy, all, p) \in SUBSET Seq(Strings)
<1>1. TextAt(nodes, text, p.to) \in Seq(Strings)
  BY TextAtType
<1>2. (p.t = "lit" => p.to \in Strings) /\ p.def \in Strings \cup {NoDefault}
  BY PieceTypes
<1>3. \A w \in Strings : <<w>> \in Seq(Strings)
  OBVIOUS
<1>4. CASE p.t = "lit"
  BY <1>2, <1>3, <1>4 DEF Offers
<1>5. CASE p.t # "lit"
  <2>1. p.def # NoDefault => <<p.def>> \in Seq(Strings)
    BY <1>2, <1>3
  <2>2. QED BY <2>1, <1>1, <1>5 DEF Offers
<1>6. QED BY <1>4, <1>5

OffersOf(nodes, text, easy, all, pieces) ==
  [k \in DOMAIN pieces |-> Offers(nodes, text, easy, all, pieces[k])]

LEMMA OffersOfIs ==
  ASSUME NEW nodes, nodes \in Seq(Range(nodes)), NEW text \in [Paths(nodes) -> Seq(Strings)],
         NEW easy, NEW all, NEW pieces \in Seq(Pieces)
  PROVE  LET os == OffersOf(nodes, text, easy, all, pieces)
         IN  /\ os \in Seq(SUBSET Seq(Strings)) /\ Len(os) = Len(pieces)
             /\ \A k \in 1 .. Len(pieces) : os[k] = Offers(nodes, text, easy, all, pieces[k])
<1> DEFINE os == OffersOf(nodes, text, easy, all, pieces)
           n == Len(pieces)
<1>1. n \in Nat /\ DOMAIN pieces = 1 .. n /\ \A k \in 1 .. n : pieces[k] \in Pieces
  BY LenProperties
<1>2. \A k \in 1 .. n : Offers(nodes, text, easy, all, pieces[k]) \in SUBSET Seq(Strings)
  BY <1>1, OffersType
<1>3. DOMAIN os = 1 .. n /\ \A k \in 1 .. n : os[k] = Offers(nodes, text, easy, all, pieces[k])
  BY <1>1 DEF OffersOf
<1>4. os = [k \in 1 .. n |-> os[k]]
  BY <1>1 DEF OffersOf
<1> HIDE DEF os, n
<1>5. os \in [1 .. n -> SUBSET Seq(Strings)]
  BY <1>2, <1>3, <1>4
<1>6. os \in Seq(SUBSET Seq(Strings)) /\ Len(os) = n
  BY <1>1, <1>5
<1>7. QED BY <1>3, <1>6 DEF os, n

LEMMA ProcessSteps ==
  ASSUME NEW s, Typed(s), NEW d \in BOOLEAN, NEW pieces \in Seq(Pieces)
  PROVE  \E f \in [0 .. Len(pieces) -> Accs] :
            /\ f[0] = [ok |-> TRUE, raised |-> FALSE, text |-> <<>>, waits |-> s.unresolved]
            /\ \A i \in 1 .. Len(pieces) : f[i] = Piece(d, s, f[i - 1], pieces[i])
            /\ Process(d, s, pieces) = f[Len(pieces)]
<1> DEFINE n == Len(pieces)
           e == [ok |-> TRUE, raised |-> FALSE, text |-> <<>>, waits |-> s.unresolved]
           R(x, i) == Piece(d, s, x, pieces[i])
           Added(k) == [i \in 0 .. n |-> IF i = 0 THEN e ELSE R(k[i - 1], i)]
           added == CHOOSE k : k = Added(k)
           F == [i \in 1 .. n |-> [x \in Accs |-> R(x, i)]]
<1>1. Process(d, s, pieces) = added[n]
  BY DEF Process
<1>2. n \in Nat /\ \A i \in 1 .. n : pieces[i] \in Pieces
  BY LenProperties
<1>3. e \in Accs
  BY DEF Accs, Typed
<1>4. ASSUME NEW i \in 1 .. n, NEW x \in Accs PROVE R(x, i) \in Accs
  <2>1. pieces[i] \in Pieces /\ (d => {} \subseteq s.resolved)
    BY <1>2
  <2>2. PieceOutcome(s, d, {}, x, pieces[i], R(x, i))
    BY <2>1, PieceStep
  <2>3. QED BY <2>2 DEF PieceOutcome
<1> HIDE DEF R, n, e
<1>5. F \in [1 .. n -> [Accs -> Accs]]
  BY <1>4
<1>6. PICK f \in [0 .. n -> Accs] : IsLoop(f, n, e, F)
  <2> HIDE DEF F
  <2>1. QED BY <1>2, <1>3, <1>5, Loop
<1>7. f = Added(f)
  <2>1. ASSUME NEW i \in 0 .. n, i # 0 PROVE F[i][f[i - 1]] = R(f[i - 1], i)
    <3>1. i \in 1 .. n /\ i - 1 \in 0 .. n
      BY <2>1, <1>2
    <3>2. f[i - 1] \in Accs
      <4> HIDE DEF F
      <4>1. QED BY <3>1, <1>6
    <3>3. QED BY <3>1, <3>2
  <2> HIDE DEF F
  <2>2. QED BY <2>1, <1>6 DEF IsLoop
<1>8. added = Added(added)
  BY <1>7
<1> HIDE DEF added
<1>9. \A i \in 0 .. n : added[i] = IF i = 0 THEN e ELSE R(added[i - 1], i)
  BY <1>8
<1> DEFINE G == {i \in 0 .. n : added[i] \in Accs}
<1>10. 0 \in G
  BY <1>2, <1>3, <1>9
<1>11. ASSUME NEW i \in 1 .. n, i - 1 \in G PROVE i \in G
  <2>1. i \in 0 .. n /\ i # 0
    BY <1>2
  <2>2. QED BY <2>1, <1>4, <1>9, <1>11
<1> HIDE DEF G
<1>12. \A i \in 0 .. n : i \in G
  BY <1>2, <1>10, <1>11, Upto
<1>13. added \in [0 .. n -> Accs]
  <2>1. added = [i \in 0 .. n |-> added[i]]
    BY <1>8
  <2>2. QED BY <2>1, <1>12 DEF G
<1>14. added[0] = e
  BY <1>2, <1>9
<1>15. ASSUME NEW i \in 1 .. n PROVE added[i] = Piece(d, s, added[i - 1], pieces[i])
  <2>1. i \in 0 .. n /\ i # 0
    BY <1>2
  <2>2. QED BY <2>1, <1>9 DEF R
<1>16. QED BY <1>1, <1>13, <1>14, <1>15 DEF n, e

(* What becomes of a string: all pieces pass and the text has one offer    *)
(* for each, or one of them raises or waits.                               *)
ProcessOutcome(s, d, easy, pieces, r) ==
  /\ r \in Accs
  /\ s.unresolved \ s.resolved \subseteq r.waits
  /\ r.raised => \E j \in 1 .. Len(pieces) : IllPiece(s.nodes, pieces[j])
  /\ r.ok /\ ~r.raised =>
       /\ \A j \in 1 .. Len(pieces) : Handled(s, d, pieces[j])
       /\ r.text \in Concats(OffersOf(s.nodes, s.text, easy, s.resolved, pieces))
  /\ ~r.ok => \E j \in 1 .. Len(pieces) : Stuck(s, d, pieces[j]) /\ pieces[j].to \in r.waits

LEMMA ProcessIs ==
  ASSUME NEW s, Typed(s), NEW d \in BOOLEAN, NEW easy, d => easy \subseteq s.resolved,
         NEW pieces \in Seq(Pieces)
  PROVE  ProcessOutcome(s, d, easy, pieces, Process(d, s, pieces))
<1> DEFINE n == Len(pieces)
           os == OffersOf(s.nodes, s.text, easy, s.resolved, pieces)
<1>1. n \in Nat /\ \A i \in 1 .. n : pieces[i] \in Pieces
  BY LenProperties
<1>2. /\ os \in Seq(SUBSET Seq(Strings)) /\ Len(os) = n
      /\ \A k \in 1 .. n : os[k] = Offers(s.nodes, s.text, easy, s.resolved, pieces[k])
  BY OffersOfIs DEF Typed
<1>3. PICK f \in [0 .. n -> Accs] :
            /\ f[0] = [ok |-> TRUE, raised |-> FALSE, text |-> <<>>, waits |-> s.unresolved]
            /\ \A i \in 1 .. n : f[i] = Piece(d, s, f[i - 1], pieces[i])
            /\ Process(d, s, pieces) = f[n]
  BY ProcessSteps
<1> HIDE DEF os
<1>4. PICK g \in [0 .. n -> SUBSET Seq(Strings)] :
            /\ g[0] = {<<>>}
            /\ \A i \in 1 .. n : g[i] = Joined(g[i - 1], os[i])
            /\ Concats(os) = g[n]
  <2>1. PICK g \in [0 .. Len(os) -> SUBSET Seq(Strings)] :
            /\ g[0] = {<<>>}
            /\ \A i \in 1 .. Len(os) : g[i] = Joined(g[i - 1], os[i])
            /\ Concats(os) = g[Len(os)]
    BY <1>2, ConcatsSteps
  <2>2. QED BY <2>1, <1>2
<1> HIDE DEF n
<1> DEFINE Good(r, i) ==
             /\ s.unresolved \ s.resolved \subseteq r.waits
             /\ r.raised => \E j \in 1 .. i : IllPiece(s.nodes, pieces[j])
             /\ r.ok /\ ~r.raised =>
                  /\ \A j \in 1 .. i : Handled(s, d, pieces[j])
                  /\ r.text \in g[i]
             /\ ~r.ok => \E j \in 1 .. i : Stuck(s, d, pieces[j]) /\ pieces[j].to \in r.waits
           G == {i \in 0 .. n : Good(f[i], i)}
<1>5. 0 \in G
  <2>1. 0 \in 0 .. n /\ 1 .. 0 = {}
    BY <1>1
  <2>2. f[0].ok = TRUE /\ f[0].raised = FALSE /\ f[0].text = <<>> /\ f[0].waits = s.unresolved
    BY <1>3
  <2>3. QED BY <2>1, <2>2, <1>4
<1>6. ASSUME NEW i \in 1 .. n, i - 1 \in G PROVE i \in G
  <2> DEFINE acc == f[i - 1]
             r == f[i]
             p == pieces[i]
  <2>1. i \in 0 .. n /\ i - 1 \in 0 .. n /\ i \in Nat /\ 1 .. i = (1 .. (i - 1)) \cup {i} /\ i \in 1 .. i
    BY <1>1
  <2>2. acc \in Accs /\ r \in Accs /\ p \in Pieces /\ r = Piece(d, s, acc, p)
    BY <2>1, <1>1, <1>3
  <2>3. Good(acc, i - 1)
    BY <1>6
  <2>4. g[i] = Joined(g[i - 1], os[i]) /\ os[i] = Offers(s.nodes, s.text, easy, s.resolved, p)
    BY <1>2, <1>4
  <2> HIDE DEF acc, r, p
  <2>5. /\ acc.waits \ s.resolved \subseteq r.waits
        /\ ~acc.ok \/ acc.raised => r = acc
        /\ acc.ok /\ ~acc.raised =>
              \/ /\ r.ok /\ ~r.raised /\ Handled(s, d, p)
                 /\ \E b \in Offers(s.nodes, s.text, easy, s.resolved, p) : r.text = acc.text \o b
              \/ r.raised /\ r.ok /\ IllPiece(s.nodes, p)
              \/ ~r.ok /\ ~r.raised /\ Stuck(s, d, p) /\ p.to \in r.waits
    <3>1. PieceOutcome(s, d, easy, acc, p, r)
      BY <2>2, PieceStep
    <3>2. QED BY <3>1 DEF PieceOutcome
  <2>6. s.unresolved \ s.resolved \subseteq r.waits
    BY <2>3, <2>5
  <2>7. ASSUME NEW j \in 1 .. (i - 1) PROVE j \in 1 .. i
    BY <2>1
  <2>8. CASE ~acc.ok \/ acc.raised
    <3>1. r = acc
      BY <2>5, <2>8
    <3>2. r.raised => \E j \in 1 .. i : IllPiece(s.nodes, pieces[j])
      BY <2>3, <2>7, <3>1
    <3>3. ~r.ok => \E j \in 1 .. i : Stuck(s, d, pieces[j]) /\ pieces[j].to \in r.waits
      BY <2>3, <2>7, <3>1
    <3>4. Good(r, i)
      BY <2>6, <2>8, <3>1, <3>2, <3>3
    <3>5. QED BY <3>4, <2>1 DEF r
  <2>9. CASE acc.ok /\ ~acc.raised
    <3>1. r.ok \in BOOLEAN /\ r.raised \in BOOLEAN
      BY <2>2 DEF Accs
    <3>2. CASE r.raised /\ r.ok /\ IllPiece(s.nodes, p)
      <4>1. \E j \in 1 .. i : IllPiece(s.nodes, pieces[j])
        BY <3>2, <2>1 DEF p
      <4>2. Good(r, i)
        BY <4>1, <2>6, <3>2
      <4>3. QED BY <4>2, <2>1 DEF r
    <3>3. CASE ~r.ok /\ ~r.raised /\ Stuck(s, d, p) /\ p.to \in r.waits
      <4>1. \E j \in 1 .. i : Stuck(s, d, pieces[j]) /\ pieces[j].to \in r.waits
        BY <3>3, <2>1 DEF p
      <4>2. Good(r, i)
        BY <4>1, <2>6, <3>3
      <4>3. QED BY <4>2, <2>1 DEF r
    <3>4. CASE /\ r.ok /\ ~r.raised /\ Handled(s, d, p)
               /\ \E b \in Offers(s.nodes, s.text, easy, s.resolved, p) : r.text = acc.text \o b
      <4>1. \A j \in 1 .. i : Handled(s, d, pieces[j])
        <5>1. \A j \in 1 .. (i - 1) : Handled(s, d, pieces[j])
          BY <2>3, <2>9
        <5>2. Handled(s, d, pieces[i])
          BY <3>4 DEF p
        <5>3. QED BY <5>1, <5>2, <2>1
      <4>2. r.text \in g[i]
        <5>1. acc.text \in g[i - 1]
          BY <2>3, <2>9
        <5>2. \E a \in g[i - 1], b \in os[i] : r.text = a \o b
          BY <5>1, <3>4, <2>4
        <5>3. r.text \in Joined(g[i - 1], os[i])
          BY <5>2, InJoined
        <5>4. QED BY <5>3, <2>4
      <4>3. Good(r, i)
        BY <4>1, <4>2, <2>6, <3>4
      <4>4. QED BY <4>3, <2>1 DEF r
    <3>5. QED BY <2>5, <2>9, <3>2, <3>3, <3>4
  <2>10. acc.ok \in BOOLEAN /\ acc.raised \in BOOLEAN
    BY <2>2 DEF Accs
  <2>11. QED BY <2>8, <2>9, <2>10
<1> HIDE DEF G, Good
<1>7. \A i \in 0 .. n : i \in G
  BY <1>1, <1>5, <1>6, Upto
<1>8. n \in 0 .. n
  BY <1>1
<1>9. Good(f[n], n) /\ f[n] \in Accs
  BY <1>7, <1>8, <1>3 DEF G
<1>10. QED BY <1>9, <1>3, <1>4 DEF Good, n, os, ProcessOutcome

-----------------------------------------------------------------------------
(* Trees, and what a SubScript knows of one at any time.                   *)

(* The nodes that a configuration has: each path once, and below a         *)
(* container only what is at or below one of its members.                  *)
NodeOf(nodes, x) ==
  /\ x.t = "str" => x.pieces \in Seq(Pieces) /\ Range(x.kids) = {}
  /\ x.t # "str" => x.pieces = <<>> /\ Range(x.kids) \subseteq Paths(nodes)
  /\ Len(x.path) \in 1 .. 3
  /\ \A k \in Range(x.kids) : Len(k) = Len(x.path) + 1

IsTree(nodes) ==
  /\ nodes \in Seq(Range(nodes))
  /\ \A x \in Range(nodes) : NodeOf(nodes, x)
  /\ \A x, y \in Range(nodes) :
        /\ x.path = y.path => x = y
        /\ IsStrictPrefix(x.path, y.path) => \E k \in Range(x.kids) : IsPrefix(k, y.path)

(* What holds the leaves, and each container whose members it holds, holds *)
(* all.                                                                    *)
LEMMA TreeInduction ==
  ASSUME NEW nodes, IsTree(nodes), NEW R,
         \A x \in Range(nodes) : x.t = "str" => x.path \in R,
         \A x \in Range(nodes) : x.t # "str" /\ Range(x.kids) \subseteq R => x.path \in R
  PROVE  Paths(nodes) \subseteq R
<1>1. \A x \in Range(nodes) : NodeOf(nodes, x)
  BY DEF IsTree
<1>2. \A p \in Paths(nodes) : \E x \in Range(nodes) : x.path = p
  BY DEF Paths, Range
<1>3. ASSUME NEW x \in Range(nodes)
      PROVE  /\ Len(x.path) \in 1 .. 3 /\ \A k \in Range(x.kids) : Len(k) = Len(x.path) + 1
             /\ x.t # "str" => Range(x.kids) \subseteq Paths(nodes)
  BY <1>1 DEF NodeOf
<1>4. \A k \in Paths(nodes) : Len(k) \in 1 .. 3
  BY <1>2, <1>3
<1>5. ASSUME NEW x \in Range(nodes), Len(x.path) = 3 PROVE x.path \in R
  <2>1. \A k \in Range(x.kids) : Len(k) = 4
    <3>1. Len(x.path) + 1 = 4
      BY <1>5
    <3>2. QED BY <3>1, <1>3
  <2>2. x.t # "str" => \A k \in Range(x.kids) : Len(k) \in 1 .. 3
    BY <1>3, <1>4
  <2>3. ~(4 \in 1 .. 3)
    OBVIOUS
  <2>4. x.t # "str" => Range(x.kids) = {}
    BY <2>1, <2>2, <2>3
  <2>5. QED BY <2>4
<1>6. ASSUME NEW x \in Range(nodes), Len(x.path) = 2 PROVE x.path \in R
  <2>1. \A k \in Range(x.kids) : Len(k) = 3
    <3>1. Len(x.path) + 1 = 3
      BY <1>6
    <3>2. QED BY <3>1, <1>3
  <2>2. x.t # "str" => \A k \in Range(x.kids) : k \in R
    BY <1>2, <1>3, <1>5, <2>1
  <2>3. QED BY <2>2
<1>7. ASSUME NEW x \in Range(nodes), Len(x.path) = 1 PROVE x.path \in R
  <2>1. \A k \in Range(x.kids) : Len(k) = 2
    <3>1. Len(x.path) + 1 = 2
      BY <1>7
    <3>2. QED BY <3>1, <1>3
  <2>2. x.t # "str" => \A k \in Range(x.kids) : k \in R
    BY <1>2, <1>3, <1>6, <2>1
  <2>3. QED BY <2>2
<1>8. ASSUME NEW x \in Range(nodes) PROVE x.path \in R
  <2>1. Len(x.path) = 1 \/ Len(x.path) = 2 \/ Len(x.path) = 3
    BY <1>3
  <2>2. QED BY <2>1, <1>5, <1>6, <1>7
<1>9. QED BY <1>2, <1>8

ScriptType(s) ==
  s \in [nodes : {s.nodes}, resolved : SUBSET Paths(s.nodes), text : [Paths(s.nodes) -> Seq(Strings)],
         unresolved : SUBSET Seq(Strings), at : 1 .. (Len(s.nodes) + 1), count : Nat,
         complete : BOOLEAN, raised : BOOLEAN]

Easy(s) == Resolvable(s.nodes, FALSE)
IllNode(s, x) == \E j \in DOMAIN x.pieces : IllPiece(s.nodes, x.pieces[j])

(* A leaf that is not resolved waits for something that is not either.     *)
Waits(s, x) == x.t = "str" => \E j \in DOMAIN x.pieces : x.pieces[j].to \in s.unresolved \ s.resolved

(* What has text: it can be had, with what is below it, and agrees with    *)
(* what it refers to, as far as that has text.                             *)
ResolvedOK(s) ==
  /\ s.resolved \subseteq Resolvable(s.nodes, TRUE)
  /\ \A p \in s.resolved : \A q \in Paths(s.nodes) : IsPrefix(p, q) => q \in s.resolved
  /\ \A x \in Range(s.nodes) : x.t = "str" /\ x.path \in s.resolved =>
        /\ ~IllNode(s, x)
        /\ s.text[x.path] \in Concats(OffersOf(s.nodes, s.text, Easy(s), s.resolved, x.pieces))

(* What a pass knows of the nodes it has been at.                          *)
PassOK(s, d) ==
  /\ s.complete => \A i \in 1 .. (s.at - 1) : s.nodes[i].path \in s.resolved
  /\ s.count = 0 /\ ~s.raised =>
        /\ \A i \in 1 .. (s.at - 1) :
              \/ s.nodes[i].path \in s.resolved
              \/ ~Grounded(s.resolved, d, s.nodes[i]) /\ Waits(s, s.nodes[i])
        /\ ~s.complete => \E i \in 1 .. (s.at - 1) : s.nodes[i].path \notin s.resolved

ScriptOK(s, d) ==
  /\ IsTree(s.nodes) /\ ScriptType(s)
  /\ s.raised => Ill(s.nodes)
  /\ d => Easy(s) \subseteq s.resolved
  /\ ResolvedOK(s)
  /\ PassOK(s, d)

(* What process_one makes of a node: nothing, its text, or a reason to     *)
(* leave it to the next pass.                                              *)
Same(s, x, r) == (s.raised \/ x.path \in s.resolved) /\ r = s

Got(s, d, x, r) ==
  /\ x.path \notin s.resolved /\ ~s.raised /\ Grounded(s.resolved, d, x)
  /\ \E t \in Seq(Strings), u \in SUBSET Seq(Strings) :
        /\ r = [s EXCEPT !.resolved = s.resolved \cup {x.path}, !.text = [s.text EXCEPT ![x.path] = t],
                         !.count = s.count + 1, !.unresolved = u]
        /\ x.t = "str" => /\ ~IllNode(s, x)
                          /\ t \in Concats(OffersOf(s.nodes, s.text, Easy(s), s.resolved, x.pieces))

Left(s, d, x, r) ==
  /\ x.path \notin s.resolved /\ ~s.raised
  /\ \E u \in SUBSET Seq(Strings), b \in BOOLEAN :
        /\ r = [s EXCEPT !.complete = FALSE, !.unresolved = u, !.raised = b]
        /\ s.unresolved \ s.resolved \subseteq u
        /\ b => IllNode(s, x)
        /\ ~b => ~Grounded(s.resolved, d, x) /\ Waits(r, x)

LEMMA ScriptFields ==
  ASSUME NEW s, ScriptType(s)
  PROVE  /\ s.resolved \in SUBSET Paths(s.nodes) /\ s.text \in [Paths(s.nodes) -> Seq(Strings)]
         /\ s.unresolved \in SUBSET Seq(Strings) /\ s.at \in 1 .. (Len(s.nodes) + 1)
         /\ s.count \in Nat /\ s.complete \in BOOLEAN /\ s.raised \in BOOLEAN
  BY DEF ScriptType

LEMMA ProcessOneIs ==
  ASSUME NEW s, ScriptType(s), s.nodes \in Seq(Range(s.nodes)), NEW d \in BOOLEAN,
         d => Easy(s) \subseteq s.resolved, NEW x \in Range(s.nodes), NodeOf(s.nodes, x)
  PROVE  LET r == ProcessOne(d, s, x) IN Same(s, x, r) \/ Got(s, d, x, r) \/ Left(s, d, x, r)
<1> DEFINE r == ProcessOne(d, s, x)
<1>1. x.path \in Paths(s.nodes)
  BY DEF Range, Paths
<1>2. CASE s.raised \/ x.path \in s.resolved
  BY <1>2 DEF ProcessOne, Same
<1>3. CASE ~s.raised /\ x.path \notin s.resolved /\ x.t # "str"
  <2>1. x.pieces = <<>> /\ (Grounded(s.resolved, d, x) <=> Range(x.kids) \subseteq s.resolved)
    BY <1>3 DEF NodeOf, Grounded
  <2>2. CASE Range(x.kids) \subseteq s.resolved
    <3>1. r = [s EXCEPT !.resolved = s.resolved \cup {x.path}, !.text[x.path] = NoText, !.count = s.count + 1]
      BY <1>3, <2>2 DEF ProcessOne, Resolved
    <3>2. /\ NoText \in Seq(Strings) /\ s.unresolved \in SUBSET Seq(Strings)
      BY ScriptFields DEF NoText
    <3>3. r = [s EXCEPT !.resolved = s.resolved \cup {x.path}, !.text = [s.text EXCEPT ![x.path] = NoText],
                        !.count = s.count + 1, !.unresolved = s.unresolved]
      BY <3>1 DEF ScriptType
    <3> HIDE DEF r
    <3>4. Got(s, d, x, r)
      BY <1>3, <2>1, <2>2, <3>2, <3>3 DEF Got
    <3>5. QED BY <3>4 DEF r
  <2>3. CASE ~(Range(x.kids) \subseteq s.resolved)
    <3>1. r = [s EXCEPT !.complete = FALSE]
      BY <1>3, <2>3 DEF ProcessOne
    <3>2. s.unresolved \in SUBSET Seq(Strings)
      BY ScriptFields
    <3>3. r = [s EXCEPT !.complete = FALSE, !.unresolved = s.unresolved, !.raised = FALSE]
      BY <3>1, <1>3 DEF ScriptType
    <3> HIDE DEF r
    <3>4. Waits(r, x)
      BY <1>3 DEF Waits
    <3>5. Left(s, d, x, r)
      BY <1>3, <2>1, <2>3, <3>2, <3>3, <3>4 DEF Left
    <3>6. QED BY <3>5 DEF r
  <2>4. QED BY <2>2, <2>3
<1>4. CASE ~s.raised /\ x.path \notin s.resolved /\ x.t = "str"
  <2> DEFINE p == Process(d, s, x.pieces)
             os == OffersOf(s.nodes, s.text, Easy(s), s.resolved, x.pieces)
  <2>1. x.pieces \in Seq(Pieces)
    BY <1>4 DEF NodeOf
  <2>2. DOMAIN x.pieces = 1 .. Len(x.pieces)
    BY <2>1, LenProperties
  <2>3. Typed(s)
    BY ScriptFields DEF Typed
  <2>4. /\ p \in Accs
        /\ s.unresolved \ s.resolved \subseteq p.waits
        /\ p.raised => \E j \in DOMAIN x.pieces : IllPiece(s.nodes, x.pieces[j])
        /\ p.ok /\ ~p.raised =>
             /\ \A j \in DOMAIN x.pieces : Handled(s, d, x.pieces[j])
             /\ p.text \in Concats(os)
        /\ ~p.ok => \E j \in DOMAIN x.pieces : Stuck(s, d, x.pieces[j]) /\ x.pieces[j].to \in p.waits
    <3>1. ProcessOutcome(s, d, Easy(s), x.pieces, p)
      BY <2>1, <2>3, ProcessIs
    <3> HIDE DEF p
    <3>2. QED BY <2>2, <3>1 DEF ProcessOutcome
  <2>5. r = LET t == [s EXCEPT !.unresolved = p.waits, !.raised = p.raised]
            IN  IF p.ok /\ ~p.raised THEN Resolved(t, x.path, p.text) ELSE [t EXCEPT !.complete = FALSE]
    BY <1>4 DEF ProcessOne
  <2> HIDE DEF p, os, r
  <2>6. p.ok \in BOOLEAN /\ p.raised \in BOOLEAN /\ p.text \in Seq(Strings) /\ p.waits \in SUBSET Seq(Strings)
    BY <2>4 DEF Accs
  <2>7. CASE p.ok /\ ~p.raised
    <3>1. r = [s EXCEPT !.resolved = s.resolved \cup {x.path}, !.text = [s.text EXCEPT ![x.path] = p.text],
                        !.count = s.count + 1, !.unresolved = p.waits]
      BY <2>5, <2>6, <2>7, <1>4 DEF Resolved, ScriptType
    <3>2. \A j \in DOMAIN x.pieces : Handled(s, d, x.pieces[j])
      BY <2>4, <2>7
    <3>3. Grounded(s.resolved, d, x)
      BY <3>2, <1>4 DEF Grounded, Handled, Stuck
    <3>4. ~IllNode(s, x)
      BY <3>2 DEF IllNode, Handled
    <3>5. Got(s, d, x, r)
      BY <1>4, <2>4, <2>6, <2>7, <3>1, <3>3, <3>4 DEF Got, os
    <3>6. QED BY <3>5 DEF r
  <2>8. CASE ~p.ok \/ p.raised
    <3>1. r = [s EXCEPT !.complete = FALSE, !.unresolved = p.waits, !.raised = p.raised]
      BY <2>5, <2>6, <2>8 DEF ScriptType
    <3>2. r.unresolved = p.waits /\ r.resolved = s.resolved
      BY <3>1 DEF ScriptType
    <3>3. p.raised => IllNode(s, x)
      BY <2>4 DEF IllNode
    <3>4. ~p.raised => ~Grounded(s.resolved, d, x) /\ Waits(r, x)
      <4>1. SUFFICES ASSUME ~p.raised PROVE ~Grounded(s.resolved, d, x) /\ Waits(r, x)
        OBVIOUS
      <4>2. PICK j \in DOMAIN x.pieces : Stuck(s, d, x.pieces[j]) /\ x.pieces[j].to \in p.waits
        BY <4>1, <2>4, <2>8
      <4>3. QED BY <4>2, <3>2, <1>4 DEF Grounded, Waits, Stuck
    <3>5. Left(s, d, x, r)
      BY <1>4, <2>4, <2>6, <3>1, <3>3, <3>4 DEF Left
    <3>6. QED BY <3>5 DEF r
  <2>9. QED BY <2>6, <2>7, <2>8
<1>5. s.raised \in BOOLEAN
  BY ScriptFields
<1>6. QED BY <1>2, <1>3, <1>4, <1>5

LEMMA NodesIn ==
  ASSUME NEW s, IsTree(s.nodes)
  PROVE  /\ DOMAIN s.nodes = 1 .. Len(s.nodes) /\ Len(s.nodes) \in Nat
         /\ \A i \in 1 .. Len(s.nodes) : s.nodes[i] \in Range(s.nodes) /\ s.nodes[i].path \in Paths(s.nodes)
         /\ \A x \in Range(s.nodes) : x.path \in Paths(s.nodes)
         /\ \A x \in Range(s.nodes) : \E i \in 1 .. Len(s.nodes) : x = s.nodes[i]
         /\ \A p \in Paths(s.nodes) : \E x \in Range(s.nodes) : x.path = p
<1>1. DOMAIN s.nodes = 1 .. Len(s.nodes) /\ Len(s.nodes) \in Nat
  BY LenProperties DEF IsTree
<1>2. QED BY <1>1 DEF Range, Paths

LEMMA IllNodeIll ==
  ASSUME NEW s, IsTree(s.nodes)
  PROVE  Ill(s.nodes) <=> \E x \in Range(s.nodes) : IllNode(s, x)
<1>1. Ill(s.nodes) <=> \E i \in DOMAIN s.nodes : IllNode(s, s.nodes[i])
  BY DEF Ill, IllNode, IllPiece
<1>2. QED BY <1>1, NodesIn

(* A text stays the same where nothing at or below its path is new.        *)
LEMMA TextAtSame ==
  ASSUME NEW nodes, NEW text \in [Paths(nodes) -> Seq(Strings)], NEW other \in [Paths(nodes) -> Seq(Strings)],
         NEW p, \A q \in Paths(nodes) : IsPrefix(p, q) => text[q] = other[q]
  PROVE  TextAt(nodes, text, p) = TextAt(nodes, other, p)
<1>1. \A i \in DOMAIN nodes : nodes[i].path \in Paths(nodes)
  BY DEF Paths
<1>2. \A i \in DOMAIN nodes : (IF nodes[i].t = "str" /\ IsPrefix(p, nodes[i].path) THEN text[nodes[i].path] ELSE <<>>)
                                = (IF nodes[i].t = "str" /\ IsPrefix(p, nodes[i].path) THEN other[nodes[i].path] ELSE <<>>)
  BY <1>1
<1>3. [i \in DOMAIN nodes |-> IF nodes[i].t = "str" /\ IsPrefix(p, nodes[i].path) THEN text[nodes[i].path] ELSE <<>>]
       = [i \in DOMAIN nodes |-> IF nodes[i].t = "str" /\ IsPrefix(p, nodes[i].path) THEN other[nodes[i].path] ELSE <<>>]
  BY <1>2
<1>4. QED BY <1>3 DEF TextAt

(* What a leaf may be replaced with stays possible when another node has   *)
(* its text.                                                               *)
LEMMA OffersGrow ==
  ASSUME NEW nodes, nodes \in Seq(Range(nodes)),
         NEW text \in [Paths(nodes) -> Seq(Strings)], NEW other \in [Paths(nodes) -> Seq(Strings)],
         NEW A, NEW B, A \subseteq B, NEW easy, NEW pieces \in Seq(Pieces),
         \A p \in A : \A q \in Paths(nodes) : IsPrefix(p, q) => text[q] = other[q]
  PROVE  Concats(OffersOf(nodes, text, easy, A, pieces)) \subseteq Concats(OffersOf(nodes, other, easy, B, pieces))
<1> DEFINE a == OffersOf(nodes, text, easy, A, pieces)
           b == OffersOf(nodes, other, easy, B, pieces)
<1>1. /\ a \in Seq(SUBSET Seq(Strings)) /\ Len(a) = Len(pieces)
      /\ \A k \in 1 .. Len(pieces) : a[k] = Offers(nodes, text, easy, A, pieces[k])
  BY OffersOfIs
<1>2. /\ b \in Seq(SUBSET Seq(Strings)) /\ Len(b) = Len(pieces)
      /\ \A k \in 1 .. Len(pieces) : b[k] = Offers(nodes, other, easy, B, pieces[k])
  BY OffersOfIs
<1>3. ASSUME NEW p PROVE Offers(nodes, text, easy, A, p) \subseteq Offers(nodes, other, easy, B, p)
  <2>1. p.to \in A => TextAt(nodes, text, p.to) = TextAt(nodes, other, p.to)
    BY TextAtSame
  <2>2. QED BY <2>1 DEF Offers
<1>4. \A k \in 1 .. Len(pieces) : a[k] \subseteq b[k]
  BY <1>1, <1>2, <1>3
<1> HIDE DEF a, b
<1>5. Concats(a) \subseteq Concats(b)
  BY <1>1, <1>2, <1>4, ConcatsMono
<1>6. QED BY <1>5 DEF a, b

LEMMA GotKeeps ==
  ASSUME NEW s, NEW d \in BOOLEAN, ScriptOK(s, d), NEW x \in Range(s.nodes), NEW r, Got(s, d, x, r)
  PROVE  ResolvedOK(r) /\ s.resolved \subseteq r.resolved
<1>1. PICK t \in Seq(Strings), u \in SUBSET Seq(Strings) :
        /\ r = [s EXCEPT !.resolved = s.resolved \cup {x.path}, !.text = [s.text EXCEPT ![x.path] = t],
                         !.count = s.count + 1, !.unresolved = u]
        /\ x.t = "str" => /\ ~IllNode(s, x)
                          /\ t \in Concats(OffersOf(s.nodes, s.text, Easy(s), s.resolved, x.pieces))
  BY DEF Got
<1>2. IsTree(s.nodes) /\ ScriptType(s) /\ ResolvedOK(s) /\ s.nodes \in Seq(Range(s.nodes))
  BY DEF ScriptOK, IsTree
<1>3. x.path \in Paths(s.nodes) /\ x.path \notin s.resolved /\ NodeOf(s.nodes, x)
  BY <1>2, NodesIn DEF Got, IsTree
<1>4. /\ s.resolved \in SUBSET Paths(s.nodes) /\ s.text \in [Paths(s.nodes) -> Seq(Strings)]
      /\ s.unresolved \in SUBSET Seq(Strings)
  BY <1>2, ScriptFields
<1> DEFINE text == [s.text EXCEPT ![x.path] = t]
<1>5. r.nodes = s.nodes /\ r.resolved = s.resolved \cup {x.path} /\ r.text = text
  BY <1>1, <1>2 DEF ScriptType
<1>6. text \in [Paths(s.nodes) -> Seq(Strings)] /\ text[x.path] = t
      /\ \A q \in Paths(s.nodes) : q # x.path => text[q] = s.text[q]
  BY <1>3, <1>4
<1> HIDE DEF text
<1>7. r.resolved \subseteq Resolvable(r.nodes, TRUE)
  <2> DEFINE T == Resolvable(s.nodes, TRUE)
  <2>1. Ready(s.nodes, T, TRUE) \subseteq T
    BY <1>2, ResolvableFixed
  <2>2. s.resolved \subseteq T
    BY <1>2 DEF ResolvedOK
  <2> HIDE DEF T
  <2>3. x.path \in Ready(s.nodes, s.resolved, d)
    BY DEF Got, Ready, Range
  <2>4. Ready(s.nodes, s.resolved, d) \subseteq Ready(s.nodes, T, TRUE)
    BY <2>2, ReadyMono
  <2>5. QED BY <2>1, <2>2, <2>3, <2>4, <1>5 DEF T
<1>8. \A p \in r.resolved : \A q \in Paths(r.nodes) : IsPrefix(p, q) => q \in r.resolved
  <2>1. \A p \in s.resolved : \A q \in Paths(s.nodes) : IsPrefix(p, q) => q \in s.resolved
    BY <1>2 DEF ResolvedOK
  <2>2. ASSUME NEW q \in Paths(s.nodes), IsPrefix(x.path, q), q # x.path PROVE q \in s.resolved
    <3>1. IsStrictPrefix(x.path, q)
      BY <2>2 DEF IsStrictPrefix
    <3>2. PICK y \in Range(s.nodes) : y.path = q
      BY <1>2, NodesIn
    <3>3. PICK k \in Range(x.kids) : IsPrefix(k, q)
      BY <1>2, <3>1, <3>2 DEF IsTree
    <3>4. x.t # "str"
      BY <3>3, <1>3 DEF NodeOf
    <3>5. k \in s.resolved
      BY <3>3, <3>4 DEF Got, Grounded
    <3>6. QED BY <3>3, <3>5, <2>1
  <2>3. QED BY <2>1, <2>2, <1>5
<1>9. ASSUME NEW y \in Range(s.nodes), y.t = "str", y.path \in r.resolved
      PROVE  /\ ~IllNode(s, y)
             /\ text[y.path] \in Concats(OffersOf(s.nodes, text, Easy(s), r.resolved, y.pieces))
  <2>1. y.pieces \in Seq(Pieces) /\ y.path \in Paths(s.nodes)
    BY <1>2, <1>9, NodesIn DEF IsTree, NodeOf
  <2>2. \A p \in s.resolved : \A q \in Paths(s.nodes) : IsPrefix(p, q) => s.text[q] = text[q]
    BY <1>2, <1>3, <1>6 DEF ResolvedOK
  <2>3. Concats(OffersOf(s.nodes, s.text, Easy(s), s.resolved, y.pieces))
          \subseteq Concats(OffersOf(s.nodes, text, Easy(s), r.resolved, y.pieces))
    <3>1. s.nodes \in Seq(Range(s.nodes)) /\ s.resolved \subseteq r.resolved
      BY <1>2, <1>5
    <3>2. QED BY <3>1, <1>4, <1>6, <2>1, <2>2, OffersGrow
  <2>4. CASE y.path \in s.resolved
    <3>1. ~IllNode(s, y) /\ s.text[y.path] \in Concats(OffersOf(s.nodes, s.text, Easy(s), s.resolved, y.pieces))
      BY <1>2, <1>9, <2>4 DEF ResolvedOK
    <3>2. text[y.path] = s.text[y.path]
      BY <1>3, <1>6, <2>1, <2>4
    <3>3. QED BY <3>1, <3>2, <2>3
  <2>5. CASE y.path = x.path
    <3>1. y = x
      BY <1>2, <2>5 DEF IsTree
    <3>2. QED BY <3>1, <1>1, <1>6, <1>9, <2>3
  <2>6. QED BY <2>4, <2>5, <1>5, <1>9
<1>10. Easy(r) = Easy(s) /\ \A y : IllNode(r, y) <=> IllNode(s, y)
  BY <1>5 DEF Easy, IllNode
<1>11. QED BY <1>5, <1>7, <1>8, <1>9, <1>10 DEF ResolvedOK

LEMMA StartOK ==
  ASSUME NEW nodes, IsTree(nodes)
  PROVE  ScriptOK(StartScript(nodes), FALSE)
<1> DEFINE s == StartScript(nodes)
<1>1. /\ s.nodes = nodes /\ s.resolved = {} /\ s.unresolved = {} /\ s.at = 1 /\ s.count = 0
      /\ s.complete = TRUE /\ s.raised = FALSE
  BY DEF StartScript
<1>2. Len(nodes) \in Nat
  BY LenProperties DEF IsTree
<1>3. ScriptType(s)
  <2>1. [p \in Paths(nodes) |-> NoText] \in [Paths(nodes) -> Seq(Strings)]
    BY DEF NoText
  <2>2. 1 \in 1 .. (Len(nodes) + 1)
    BY <1>2
  <2>3. QED BY <2>1, <2>2 DEF StartScript, ScriptType
<1> HIDE DEF s
<1>4. ResolvedOK(s)
  BY <1>1 DEF ResolvedOK
<1>5. PassOK(s, FALSE)
  <2>1. 1 .. (s.at - 1) = {}
    BY <1>1
  <2>2. QED BY <1>1, <2>1 DEF PassOK
<1>6. ScriptOK(s, FALSE)
  BY <1>1, <1>3, <1>4, <1>5 DEF ScriptOK
<1>7. QED BY <1>6 DEF s

LEMMA ParseKeeps ==
  ASSUME NEW s, NEW d \in BOOLEAN, ScriptOK(s, d), s.at =< Len(s.nodes), ~s.raised
  PROVE  LET r == [ProcessOne(d, s, s.nodes[s.at]) EXCEPT !.at = @ + 1]
         IN  r.nodes = s.nodes /\ ScriptOK(r, d)
<1> DEFINE x == s.nodes[s.at]
           o == ProcessOne(d, s, x)
           r == [o EXCEPT !.at = @ + 1]
<1>1. IsTree(s.nodes) /\ ScriptType(s) /\ ResolvedOK(s) /\ PassOK(s, d) /\ s.nodes \in Seq(Range(s.nodes))
      /\ (d => Easy(s) \subseteq s.resolved)
  BY DEF ScriptOK, IsTree
<1>2. /\ s.resolved \in SUBSET Paths(s.nodes) /\ s.text \in [Paths(s.nodes) -> Seq(Strings)]
      /\ s.unresolved \in SUBSET Seq(Strings) /\ s.at \in 1 .. (Len(s.nodes) + 1)
      /\ s.count \in Nat /\ s.complete \in BOOLEAN /\ s.raised \in BOOLEAN
  BY <1>1, ScriptFields
<1>3. Len(s.nodes) \in Nat /\ s.at \in 1 .. Len(s.nodes)
  <2>1. Len(s.nodes) \in Nat
    BY <1>1, NodesIn
  <2>2. QED BY <2>1, <1>2
<1>4. x \in Range(s.nodes) /\ x.path \in Paths(s.nodes) /\ NodeOf(s.nodes, x)
  <2>1. x \in Range(s.nodes) /\ x.path \in Paths(s.nodes)
    BY <1>1, <1>3, NodesIn
  <2>2. QED BY <2>1, <1>1 DEF IsTree
<1>5. /\ s.at + 1 \in 1 .. (Len(s.nodes) + 1) /\ (s.at + 1) - 1 = s.at
      /\ 1 .. s.at = (1 .. (s.at - 1)) \cup {s.at}
  BY <1>3
<1>6. Same(s, x, o) \/ Got(s, d, x, o) \/ Left(s, d, x, o)
  <2> HIDE DEF x
  <2>1. QED BY <1>1, <1>4, ProcessOneIs
<1> HIDE DEF x, o
<1>7. CASE Same(s, x, o)
  <2>1. x.path \in s.resolved /\ r = [s EXCEPT !.at = s.at + 1]
    BY <1>7 DEF Same
  <2>2. /\ r.nodes = s.nodes /\ r.resolved = s.resolved /\ r.text = s.text /\ r.unresolved = s.unresolved
        /\ r.at = s.at + 1 /\ r.count = s.count /\ r.complete = s.complete /\ r.raised = s.raised
    BY <2>1, <1>1 DEF ScriptType
  <2>3. ScriptType(r)
    BY <2>1, <1>1, <1>2, <1>5 DEF ScriptType
  <2> HIDE DEF r
  <2>4. ResolvedOK(r)
    BY <1>1, <2>2 DEF ResolvedOK, Easy, IllNode
  <2>5. \A y : Waits(s, y) <=> Waits(r, y)
    BY <2>2 DEF Waits
  <2>6. PassOK(r, d)
    <3>1. r.complete => \A i \in 1 .. s.at : s.nodes[i].path \in s.resolved
      BY <1>1, <1>5, <2>1, <2>2 DEF PassOK, x
    <3>2. r.count = 0 => \A i \in 1 .. s.at :
              \/ s.nodes[i].path \in s.resolved
              \/ ~Grounded(s.resolved, d, s.nodes[i]) /\ Waits(r, s.nodes[i])
      BY <1>1, <1>5, <2>1, <2>2, <2>5 DEF PassOK, x
    <3>3. r.count = 0 /\ ~r.complete => \E i \in 1 .. s.at : s.nodes[i].path \notin s.resolved
      BY <1>1, <1>5, <2>2 DEF PassOK
    <3>4. QED BY <3>1, <3>2, <3>3, <2>2, <1>5 DEF PassOK
  <2>7. r.nodes = s.nodes /\ ScriptOK(r, d)
    BY <1>1, <2>2, <2>3, <2>4, <2>6 DEF ScriptOK, Easy
  <2>8. QED BY <2>7 DEF r, o, x
<1>8. CASE Got(s, d, x, o)
  <2>1. PICK t \in Seq(Strings), u \in SUBSET Seq(Strings) :
          o = [s EXCEPT !.resolved = s.resolved \cup {x.path}, !.text = [s.text EXCEPT ![x.path] = t],
                        !.count = s.count + 1, !.unresolved = u]
    BY <1>8 DEF Got
  <2>2. [s.text EXCEPT ![x.path] = t] \in [Paths(s.nodes) -> Seq(Strings)]
    BY <1>2
  <2>3. s.resolved \cup {x.path} \in SUBSET Paths(s.nodes)
    BY <1>2, <1>4
  <2>4. o.at = s.at
    BY <2>1, <1>1 DEF ScriptType
  <2>5. /\ r.nodes = o.nodes /\ r.resolved = o.resolved /\ r.text = o.text
        /\ o.nodes = s.nodes /\ r.resolved = s.resolved \cup {x.path}
        /\ r.at = s.at + 1 /\ r.count = s.count + 1 /\ r.complete = s.complete /\ r.raised = s.raised
    BY <2>1, <1>1 DEF ScriptType
  <2>6. ScriptType(r)
    <3> DEFINE A == s.resolved \cup {x.path}
               T == [s.text EXCEPT ![x.path] = t]
    <3>1. r = [s EXCEPT !.resolved = A, !.text = T, !.count = s.count + 1, !.unresolved = u, !.at = s.at + 1]
      BY <2>1, <2>4, <1>1 DEF ScriptType
    <3>2. A \in SUBSET Paths(s.nodes) /\ T \in [Paths(s.nodes) -> Seq(Strings)] /\ s.count + 1 \in Nat
      BY <2>2, <2>3, <1>2
    <3> HIDE DEF A, T, r
    <3>3. QED BY <3>1, <3>2, <1>1, <1>2, <1>5 DEF ScriptType
  <2> HIDE DEF r
  <2>7. ResolvedOK(r)
    <3>1. ResolvedOK(o)
      BY <1>4, <1>8, GotKeeps
    <3>2. QED BY <3>1, <2>5 DEF ResolvedOK, Easy, IllNode
  <2>8. PassOK(r, d)
    <3>1. r.count # 0
      BY <2>5, <1>2
    <3>2. r.complete => \A i \in 1 .. s.at : s.nodes[i].path \in r.resolved
      BY <1>1, <1>5, <2>5 DEF PassOK, x
    <3>3. QED BY <3>1, <3>2, <2>5, <1>5 DEF PassOK
  <2>9. r.nodes = s.nodes /\ ScriptOK(r, d)
    BY <1>1, <2>5, <2>6, <2>7, <2>8 DEF ScriptOK, Easy
  <2>10. QED BY <2>9 DEF r, o, x
<1>9. CASE Left(s, d, x, o)
  <2>1. PICK u \in SUBSET Seq(Strings), b \in BOOLEAN :
          /\ o = [s EXCEPT !.complete = FALSE, !.unresolved = u, !.raised = b]
          /\ s.unresolved \ s.resolved \subseteq u
          /\ b => IllNode(s, x)
          /\ ~b => ~Grounded(s.resolved, d, x) /\ Waits(o, x)
    BY <1>9 DEF Left
  <2>2. o.at = s.at /\ o.resolved = s.resolved /\ o.unresolved = u
    BY <2>1, <1>1 DEF ScriptType
  <2>3. /\ r.nodes = s.nodes /\ r.resolved = s.resolved /\ r.text = s.text /\ r.unresolved = u
        /\ r.at = s.at + 1 /\ r.count = s.count /\ r.complete = FALSE /\ r.raised = b
    BY <2>1, <1>1 DEF ScriptType
  <2>4. ScriptType(r)
    BY <2>1, <1>1, <1>2, <1>5 DEF ScriptType
  <2> HIDE DEF r
  <2>5. ResolvedOK(r)
    BY <1>1, <2>3 DEF ResolvedOK, Easy, IllNode
  <2>6. \A y : Waits(s, y) \/ Waits(o, y) => Waits(r, y)
    BY <2>1, <2>2, <2>3 DEF Waits
  <2>7. PassOK(r, d)
    <3>1. r.count = 0 /\ ~r.raised => \A i \in 1 .. s.at :
              \/ s.nodes[i].path \in s.resolved
              \/ ~Grounded(s.resolved, d, s.nodes[i]) /\ Waits(r, s.nodes[i])
      BY <1>1, <1>5, <2>1, <2>3, <2>6 DEF PassOK, x
    <3>2. \E i \in 1 .. s.at : s.nodes[i].path \notin s.resolved
      BY <1>5, <1>9 DEF Left, x
    <3>3. QED BY <3>1, <3>2, <2>3, <1>5 DEF PassOK
  <2>8. r.raised => Ill(s.nodes)
    BY <1>1, <1>4, <2>1, <2>3, IllNodeIll
  <2>9. r.nodes = s.nodes /\ ScriptOK(r, d)
    BY <1>1, <2>3, <2>4, <2>5, <2>7, <2>8 DEF ScriptOK, Easy
  <2>10. QED BY <2>9 DEF r, o, x
<1>10. QED BY <1>6, <1>7, <1>8, <1>9

(* A pass that has resolved nothing: nothing else can be resolved.         *)
LEMMA NothingMore ==
  ASSUME NEW s, NEW d \in BOOLEAN, ScriptOK(s, d), s.at > Len(s.nodes), ~s.raised, s.count = 0
  PROVE  /\ \A x \in Range(s.nodes) : x.path \in s.resolved \/ (~Grounded(s.resolved, d, x) /\ Waits(s, x))
         /\ Resolvable(s.nodes, d) \subseteq s.resolved
<1>1. IsTree(s.nodes) /\ ScriptType(s) /\ PassOK(s, d) /\ s.nodes \in Seq(Range(s.nodes))
  BY DEF ScriptOK, IsTree
<1>2. Len(s.nodes) \in Nat /\ s.at \in 1 .. (Len(s.nodes) + 1)
  BY <1>1, NodesIn, ScriptFields
<1>3. s.at - 1 = Len(s.nodes)
  BY <1>2
<1>4. \A i \in 1 .. Len(s.nodes) :
         s.nodes[i].path \in s.resolved \/ (~Grounded(s.resolved, d, s.nodes[i]) /\ Waits(s, s.nodes[i]))
  BY <1>1, <1>3 DEF PassOK
<1>5. \A x \in Range(s.nodes) : x.path \in s.resolved \/ (~Grounded(s.resolved, d, x) /\ Waits(s, x))
  <2>1. \A x \in Range(s.nodes) : \E i \in 1 .. Len(s.nodes) : x = s.nodes[i]
    BY <1>1, NodesIn
  <2>2. QED BY <2>1, <1>4
<1>6. Ready(s.nodes, s.resolved, d) \subseteq s.resolved
  <2>1. \A i \in DOMAIN s.nodes : s.nodes[i] \in Range(s.nodes)
    BY DEF Range
  <2>2. QED BY <2>1, <1>5 DEF Ready
<1>7. QED BY <1>1, <1>5, <1>6, ResolvableLeast

LEMMA PassKeeps ==
  ASSUME NEW s, NEW d \in BOOLEAN, ScriptOK(s, d), s.at > Len(s.nodes), ~s.raised
  PROVE  /\ StartPass(s).nodes = s.nodes
         /\ ScriptOK(StartPass(s), d \/ TakeDefaults(s))
<1> DEFINE r == StartPass(s)
           e == d \/ TakeDefaults(s)
<1>1. IsTree(s.nodes) /\ ScriptType(s) /\ ResolvedOK(s) /\ s.nodes \in Seq(Range(s.nodes))
      /\ (d => Easy(s) \subseteq s.resolved)
  BY DEF ScriptOK, IsTree
<1>2. Len(s.nodes) \in Nat
  BY <1>1, NodesIn
<1>3. /\ r.nodes = s.nodes /\ r.resolved = s.resolved /\ r.text = s.text /\ r.unresolved = s.unresolved
      /\ r.at = 1 /\ r.count = 0 /\ r.complete = TRUE /\ r.raised = FALSE
  BY <1>1 DEF StartPass, ScriptType
<1>4. ScriptType(r)
  <2>1. 1 \in 1 .. (Len(s.nodes) + 1) /\ 0 \in Nat /\ TRUE \in BOOLEAN
    BY <1>2
  <2>2. r = [s EXCEPT !.at = 1, !.count = 0, !.complete = TRUE]
    BY DEF StartPass
  <2> HIDE DEF r
  <2>3. QED BY <2>1, <2>2, <1>1 DEF ScriptType
<1> HIDE DEF r
<1>5. ResolvedOK(r)
  BY <1>1, <1>3 DEF ResolvedOK, Easy, IllNode
<1>6. PassOK(r, e)
  <2>1. 1 .. (r.at - 1) = {}
    BY <1>3
  <2>2. QED BY <2>1, <1>3 DEF PassOK
<1>7. e => Easy(s) \subseteq s.resolved
  <2>1. CASE d
    BY <2>1, <1>1
  <2>2. CASE ~d
    <3>1. e => s.count = 0
      BY <2>2 DEF TakeDefaults
    <3>2. s.count = 0 => Resolvable(s.nodes, FALSE) \subseteq s.resolved
      <4>1. d = FALSE
        BY <2>2
      <4>2. QED BY <4>1, NothingMore
    <3>3. QED BY <3>1, <3>2 DEF Easy
  <2>3. QED BY <2>1, <2>2
<1>8. ScriptOK(r, e)
  BY <1>1, <1>3, <1>4, <1>5, <1>6, <1>7 DEF ScriptOK, Easy
<1>9. QED BY <1>3, <1>8 DEF r

(* The loop is left only when everything has text.                         *)
LEMMA CompleteIs ==
  ASSUME NEW s, NEW d \in BOOLEAN, ScriptOK(s, d), s.at > Len(s.nodes), ~s.raised,
         s.complete \/ (s.count = 0 /\ s.unresolved = {})
  PROVE  s.resolved = Paths(s.nodes)
<1>1. IsTree(s.nodes) /\ ScriptType(s) /\ PassOK(s, d)
  BY DEF ScriptOK
<1>2. Len(s.nodes) \in Nat /\ s.at \in 1 .. (Len(s.nodes) + 1) /\ s.resolved \in SUBSET Paths(s.nodes)
  BY <1>1, NodesIn, ScriptFields
<1>3. s.at - 1 = Len(s.nodes)
  BY <1>2
<1>4. CASE s.complete
  <2>1. \A i \in 1 .. Len(s.nodes) : s.nodes[i].path \in s.resolved
    BY <1>1, <1>3, <1>4 DEF PassOK
  <2>2. DOMAIN s.nodes = 1 .. Len(s.nodes)
    BY <1>1, NodesIn
  <2>3. QED BY <2>1, <2>2, <1>2 DEF Paths
<1>5. CASE s.count = 0 /\ s.unresolved = {}
  <2>1. \A x \in Range(s.nodes) : x.path \in s.resolved \/ (~Grounded(s.resolved, d, x) /\ Waits(s, x))
    BY <1>5, NothingMore
  <2>2. \A x \in Range(s.nodes) : x.t = "str" => x.path \in s.resolved
    BY <2>1, <1>5 DEF Waits
  <2>3. \A x \in Range(s.nodes) : x.t # "str" /\ Range(x.kids) \subseteq s.resolved => x.path \in s.resolved
    BY <2>1 DEF Grounded
  <2>4. Paths(s.nodes) \subseteq s.resolved
    BY <1>1, <2>2, <2>3, TreeInduction
  <2>5. QED BY <2>4, <1>2
<1>6. QED BY <1>4, <1>5

(* It fails only when something cannot have text.                          *)
LEMMA StuckIs ==
  ASSUME NEW s, ScriptOK(s, TRUE), s.at > Len(s.nodes), ~s.raised, ~s.complete, s.count = 0
  PROVE  Resolvable(s.nodes, TRUE) # Paths(s.nodes)
<1>1. IsTree(s.nodes) /\ ScriptType(s) /\ PassOK(s, TRUE)
  BY DEF ScriptOK
<1>2. Len(s.nodes) \in Nat /\ s.at \in 1 .. (Len(s.nodes) + 1)
  BY <1>1, NodesIn, ScriptFields
<1>3. s.at - 1 = Len(s.nodes)
  BY <1>2
<1>4. \E i \in 1 .. Len(s.nodes) : s.nodes[i].path \notin s.resolved
  BY <1>1, <1>3 DEF PassOK
<1>5. Resolvable(s.nodes, TRUE) \subseteq s.resolved
  BY NothingMore
<1>6. \A i \in 1 .. Len(s.nodes) : s.nodes[i].path \in Paths(s.nodes)
  BY <1>1, NodesIn
<1>7. QED BY <1>4, <1>5, <1>6

(* What has text everywhere could be had, and agrees.                      *)
LEMMA ResolvedIsGood ==
  ASSUME NEW s, NEW d \in BOOLEAN, ScriptOK(s, d), s.resolved = Paths(s.nodes)
  PROVE  /\ ~Ill(s.nodes) /\ Resolvable(s.nodes, TRUE) = Paths(s.nodes)
         /\ \A x \in Range(s.nodes) : x.t = "str" =>
               AgreesWith(s.nodes, s.text, Resolvable(s.nodes, FALSE), Resolvable(s.nodes, TRUE), x)
<1>1. IsTree(s.nodes) /\ ResolvedOK(s) /\ s.nodes \in Seq(Range(s.nodes))
  BY DEF ScriptOK, IsTree
<1>2. Resolvable(s.nodes, TRUE) = s.resolved
  <2>1. Resolvable(s.nodes, TRUE) \subseteq Paths(s.nodes)
    BY <1>1, ResolvableFixed
  <2>2. QED BY <2>1, <1>1 DEF ResolvedOK
<1>3. ASSUME NEW x \in Range(s.nodes) PROVE ~IllNode(s, x)
  <2>1. CASE x.t = "str"
    BY <2>1, <1>1, NodesIn DEF ResolvedOK
  <2>2. CASE x.t # "str"
    <3>1. NodeOf(s.nodes, x)
      BY <1>1 DEF IsTree
    <3>2. x.pieces = <<>>
      BY <3>1, <2>2 DEF NodeOf
    <3>3. QED BY <3>2 DEF IllNode
  <2>3. QED BY <2>1, <2>2
<1>4. ASSUME NEW x \in Range(s.nodes), x.t = "str"
      PROVE  AgreesWith(s.nodes, s.text, Resolvable(s.nodes, FALSE), s.resolved, x)
  <2>1. x.path \in s.resolved
    BY <1>1, NodesIn
  <2>2. s.text[x.path] \in Concats(OffersOf(s.nodes, s.text, Easy(s), s.resolved, x.pieces))
    BY <2>1, <1>1, <1>4 DEF ResolvedOK
  <2>3. QED BY <2>2 DEF AgreesWith, OffersOf, Easy
<1>5. QED BY <1>1, <1>2, <1>3, <1>4, IllNodeIll

-----------------------------------------------------------------------------
(* The nodes of a configuration are a tree.                                *)

(* The index of an item of a list is written in decimal digits, and two    *)
(* indices are written differently: what ToString returns is not defined   *)
(* in TLA+.                                                                *)
NumeralsDiffer == \A i, j \in Nat : ToString(i) = ToString(j) => i = j

Steps == Strings \cup {ToString(i) : i \in Nat}
TreeNodes == [path : Seq(Steps), t : {"str", "list", "dict"}, pieces : Seq(Pieces), kids : Seq(Seq(Steps))]
PathsIn(N) == {x.path : x \in N}

NodeIn(N, x) ==
  /\ x.t = "str" => Range(x.kids) = {}
  /\ x.t # "str" => x.pieces = <<>> /\ Range(x.kids) \subseteq PathsIn(N)
  /\ Len(x.path) \in 1 .. 3
  /\ \A k \in Range(x.kids) : Len(k) = Len(x.path) + 1

TreePart(N) ==
  /\ N \subseteq TreeNodes
  /\ \A x \in N : NodeIn(N, x)
  /\ \A x, y \in N :
        /\ x.path = y.path => x = y
        /\ IsStrictPrefix(x.path, y.path) => \E k \in Range(x.kids) : IsPrefix(k, y.path)

(* The nodes at and below a path.                                          *)
Tree(p, N) ==
  /\ TreePart(N)
  /\ \A x \in N : IsPrefix(p, x.path)
  /\ p \in PathsIn(N)

LEMMA PrefixIs ==
  ASSUME NEW S, NEW p \in Seq(S), NEW q \in Seq(S)
  PROVE  IsPrefix(p, q) <=> Len(p) =< Len(q) /\ \A i \in 1 .. Len(p) : p[i] = q[i]
<1>1. Len(p) \in Nat /\ Len(q) \in Nat
  BY LenProperties
<1>2. ASSUME Len(p) =< Len(q)
      PROVE  /\ SubSeq(p, 1, Len(p)) = [i \in 1 .. Len(p) |-> p[i]]
             /\ SubSeq(q, 1, Len(p)) = [i \in 1 .. Len(p) |-> q[i]]
  BY <1>1, <1>2
<1>3. QED BY <1>1, <1>2 DEF IsPrefix

LEMMA KidIs ==
  ASSUME NEW S, NEW p \in Seq(S), NEW k \in S
  PROVE  /\ Append(p, k) \in Seq(S) /\ Len(Append(p, k)) = Len(p) + 1 /\ Append(p, k)[Len(p) + 1] = k
         /\ \A i \in 1 .. Len(p) : Append(p, k)[i] = p[i]
  BY AppendProperties

(* What is below one member is not below another.                          *)
LEMMA Apart ==
  ASSUME NEW S, NEW p \in Seq(S), NEW k \in S, NEW l \in S, k # l,
         NEW x \in Seq(S), IsPrefix(Append(p, k), x), NEW y \in Seq(S), IsPrefix(Append(p, l), y)
  PROVE  x # y /\ ~IsPrefix(x, y)
<1> DEFINE a == Append(p, k)
           b == Append(p, l)
           n == Len(p) + 1
<1>1. a \in Seq(S) /\ Len(a) = n /\ a[n] = k /\ b \in Seq(S) /\ Len(b) = n /\ b[n] = l
  BY KidIs
<1>2. n \in Nat /\ n \in 1 .. n /\ Len(x) \in Nat /\ Len(y) \in Nat
  BY LenProperties
<1>3. IsPrefix(a, x) /\ IsPrefix(b, y)
  OBVIOUS
<1> HIDE DEF a, b, n
<1>4. n =< Len(x) /\ \A i \in 1 .. n : a[i] = x[i]
  BY <1>1, <1>3, PrefixIs
<1>5. n =< Len(y) /\ \A i \in 1 .. n : b[i] = y[i]
  BY <1>1, <1>3, PrefixIs
<1>6. x[n] = k /\ y[n] = l /\ n \in 1 .. Len(x)
  BY <1>1, <1>2, <1>4, <1>5
<1>7. ~IsPrefix(x, y)
  BY <1>6, PrefixIs
<1>8. QED BY <1>6, <1>7

(* Trees below the members of a path, all their nodes, and a node that has *)
(* just these members.                                                     *)
MembersOf(p, n, key, N) ==
  /\ n \in Nat /\ key \in [1 .. n -> Steps]
  /\ \A i, j \in 1 .. n : key[i] = key[j] => i = j
  /\ \A i \in 1 .. n : Tree(Append(p, key[i]), N[i])
AllOf(n, N) == UNION {N[i] : i \in 1 .. n}
RootOf(c, p, n, key) ==
  /\ c \in TreeNodes /\ c.path = p /\ c.t # "str" /\ c.pieces = <<>>
  /\ Range(c.kids) = {Append(p, key[i]) : i \in 1 .. n}

LEMMA Members ==
  ASSUME NEW p \in Seq(Steps), NEW n, NEW key, NEW N, MembersOf(p, n, key, N)
  PROVE  TreePart(AllOf(n, N))
<1> DEFINE A == AllOf(n, N)
<1>1. A = UNION {N[i] : i \in 1 .. n} /\ n \in Nat /\ key \in [1 .. n -> Steps]
      /\ (\A i, j \in 1 .. n : key[i] = key[j] => i = j)
      /\ \A i \in 1 .. n : Tree(Append(p, key[i]), N[i])
  BY DEF AllOf, MembersOf
<1>2. \A x \in A : \E i \in 1 .. n : x \in N[i]
  BY DEF AllOf
<1>3. \A i \in 1 .. n : N[i] \subseteq A
  BY DEF AllOf
<1> HIDE DEF A
<1>4. \A i \in 1 .. n : TreePart(N[i]) /\ \A x \in N[i] : IsPrefix(Append(p, key[i]), x.path)
  BY <1>1 DEF Tree
<1>5. A \subseteq TreeNodes
  BY <1>4, <1>2 DEF TreePart
<1>6. ASSUME NEW x \in A PROVE NodeIn(A, x)
  <2>1. PICK i \in 1 .. n : x \in N[i]
    BY <1>2
  <2>2. NodeIn(N[i], x)
    BY <1>4, <2>1 DEF TreePart
  <2>3. PathsIn(N[i]) \subseteq PathsIn(A)
    BY <1>3, <2>1 DEF PathsIn
  <2>4. QED BY <2>2, <2>3 DEF NodeIn
<1>7. ASSUME NEW x \in A, NEW y \in A
      PROVE  /\ x.path = y.path => x = y
             /\ IsStrictPrefix(x.path, y.path) => \E k \in Range(x.kids) : IsPrefix(k, y.path)
  <2>1. PICK i \in 1 .. n : x \in N[i]
    BY <1>2
  <2>2. PICK j \in 1 .. n : y \in N[j]
    BY <1>2
  <2>3. CASE i = j
    BY <1>4, <2>1, <2>2, <2>3 DEF TreePart
  <2>4. CASE i # j
    <3>1. key[i] # key[j] /\ key[i] \in Steps /\ key[j] \in Steps
      BY <1>1, <2>4
    <3>2. x.path \in Seq(Steps) /\ y.path \in Seq(Steps)
      BY <1>5 DEF TreeNodes
    <3>3. IsPrefix(Append(p, key[i]), x.path) /\ IsPrefix(Append(p, key[j]), y.path)
      BY <1>4, <2>1, <2>2
    <3>4. x.path # y.path /\ ~IsPrefix(x.path, y.path)
      BY <3>1, <3>2, <3>3, Apart
    <3>5. QED BY <3>4 DEF IsStrictPrefix
  <2>5. QED BY <2>3, <2>4
<1>8. TreePart(A)
  BY <1>5, <1>6, <1>7 DEF TreePart
<1>9. QED BY <1>8 DEF A

LEMMA WithRoot ==
  ASSUME NEW p \in Seq(Steps), Len(p) \in 1 .. 3, NEW n, NEW key, NEW N, MembersOf(p, n, key, N),
         NEW c, RootOf(c, p, n, key)
  PROVE  Tree(p, AllOf(n, N) \cup {c})
<1> DEFINE A == AllOf(n, N)
           B == A \cup {c}
<1>1. TreePart(A)
  BY Members
<1>2. \A i \in 1 .. n : key[i] \in Steps /\ Tree(Append(p, key[i]), N[i])
  BY DEF MembersOf
<1>3. /\ c \in TreeNodes /\ c.path = p /\ c.t # "str" /\ c.pieces = <<>>
      /\ Range(c.kids) = {Append(p, key[i]) : i \in 1 .. n}
  BY DEF RootOf
<1>4. \A x \in A : \E i \in 1 .. n : x \in N[i]
  BY DEF AllOf
<1>5. \A i \in 1 .. n : N[i] \subseteq A
  BY DEF AllOf
<1> HIDE DEF A
<1>6. ASSUME NEW x \in A
      PROVE  /\ x.path \in Seq(Steps) /\ Len(p) < Len(x.path) /\ IsPrefix(p, x.path) /\ NodeIn(A, x)
             /\ \E k \in Range(c.kids) : IsPrefix(k, x.path)
  <2>1. PICK i \in 1 .. n : x \in N[i]
    BY <1>4
  <2> DEFINE a == Append(p, key[i])
  <2>2. IsPrefix(a, x.path)
    BY <1>2, <2>1 DEF Tree
  <2>3. x.path \in Seq(Steps) /\ NodeIn(A, x)
    BY <1>1 DEF TreePart, TreeNodes
  <2>4. a \in Seq(Steps) /\ Len(a) = Len(p) + 1 /\ \A j \in 1 .. Len(p) : a[j] = p[j]
    BY <1>2, KidIs
  <2>5. a \in Range(c.kids)
    BY <1>3
  <2> HIDE DEF a
  <2>6. Len(a) =< Len(x.path) /\ \A j \in 1 .. Len(a) : a[j] = x.path[j]
    BY <2>2, <2>3, <2>4, PrefixIs
  <2>7. Len(p) \in Nat /\ Len(x.path) \in Nat
    BY <2>3, LenProperties
  <2>8. Len(p) < Len(x.path) /\ \A j \in 1 .. Len(p) : p[j] = x.path[j]
    BY <2>4, <2>6, <2>7
  <2>9. IsPrefix(p, x.path)
    BY <2>3, <2>7, <2>8, PrefixIs
  <2>10. QED BY <2>2, <2>3, <2>5, <2>8, <2>9
<1>7. Len(p) \in Nat /\ IsPrefix(p, p)
  BY PrefixIs, LenProperties
<1>8. \A i \in 1 .. n : Append(p, key[i]) \in PathsIn(A) /\ Len(Append(p, key[i])) = Len(p) + 1
  <2>1. \A i \in 1 .. n : Append(p, key[i]) \in PathsIn(N[i])
    BY <1>2 DEF Tree
  <2>2. \A i \in 1 .. n : PathsIn(N[i]) \subseteq PathsIn(A)
    BY <1>5 DEF PathsIn
  <2>3. \A i \in 1 .. n : Len(Append(p, key[i])) = Len(p) + 1
    BY <1>2, KidIs
  <2>4. QED BY <2>1, <2>2, <2>3
<1>9. PathsIn(A) \subseteq PathsIn(B) /\ p \in PathsIn(B)
  BY <1>3 DEF PathsIn
<1>10. NodeIn(B, c)
  BY <1>8, <1>9, <1>3 DEF NodeIn
<1>11. \A x \in A : NodeIn(B, x)
  BY <1>6, <1>9 DEF NodeIn
<1>12. ASSUME NEW x \in B, NEW y \in B
      PROVE  /\ x.path = y.path => x = y
             /\ IsStrictPrefix(x.path, y.path) => \E k \in Range(x.kids) : IsPrefix(k, y.path)
  <2>1. CASE x \in A /\ y \in A
    BY <1>1, <2>1 DEF TreePart
  <2>2. CASE x = c /\ y \in A
    <3>1. Len(p) < Len(y.path) /\ \E k \in Range(c.kids) : IsPrefix(k, y.path)
      BY <2>2, <1>6
    <3>2. y.path # p
      BY <3>1, <1>7
    <3>3. QED BY <3>1, <3>2, <2>2, <1>3
  <2>3. CASE x \in A /\ y = c
    <3>1. x.path # y.path /\ ~(Len(x.path) =< Len(y.path))
      <4>1. Len(p) < Len(x.path) /\ Len(x.path) \in Nat
        BY <2>3, <1>6, LenProperties
      <4>2. QED BY <4>1, <2>3, <1>7, <1>3
    <3>2. QED BY <3>1 DEF IsStrictPrefix, IsPrefix
  <2>4. CASE x = c /\ y = c
    BY <2>4 DEF IsStrictPrefix
  <2>5. QED BY <2>1, <2>2, <2>3, <2>4
<1>13. TreePart(B)
  <2>1. B \subseteq TreeNodes
    BY <1>1, <1>3 DEF TreePart
  <2>2. \A x \in B : NodeIn(B, x)
    BY <1>10, <1>11
  <2> HIDE DEF B
  <2>3. QED BY <2>1, <2>2, <1>12 DEF TreePart
<1>14. Tree(p, B)
  BY <1>6, <1>7, <1>9, <1>13, <1>3 DEF Tree
<1>15. QED BY <1>14 DEF A

LEMMA LeafTree ==
  ASSUME NEW p \in Seq(Steps), Len(p) \in 1 .. 3, NEW pieces \in Seq(Pieces)
  PROVE  Leaf(p, pieces) \in TreeNodes /\ Tree(p, {Leaf(p, pieces)})
<1> DEFINE x == Leaf(p, pieces)
<1>1. x.path = p /\ x.t = "str" /\ x.pieces = pieces /\ x.kids = <<>> /\ x \in TreeNodes
  BY DEF Leaf, TreeNodes
<1>2. Range(x.kids) = {}
  BY <1>1 DEF Range
<1> HIDE DEF x
<1>3. IsPrefix(p, p) /\ ~IsStrictPrefix(p, p)
  BY LenProperties DEF IsPrefix, IsStrictPrefix
<1>4. TreePart({x})
  BY <1>1, <1>2, <1>3 DEF TreePart, NodeIn
<1>5. Tree(p, {x})
  BY <1>1, <1>3, <1>4 DEF Tree, PathsIn
<1>6. QED BY <1>1, <1>5 DEF x

KidsOf(p, n, key) == [i \in 1 .. n |-> Append(p, key[i])]

LEMMA ContainerIs ==
  ASSUME NEW n \in Nat, NEW p \in Seq(Steps), NEW key \in [1 .. n -> Steps], NEW t \in {"list", "dict"}
  PROVE  RootOf(Container(p, t, KidsOf(p, n, key)), p, n, key)
<1> DEFINE kids == KidsOf(p, n, key)
           c == Container(p, t, kids)
<1>1. \A i \in 1 .. n : Append(p, key[i]) \in Seq(Steps)
  BY KidIs
<1>2. kids \in Seq(Seq(Steps)) /\ Range(kids) = {Append(p, key[i]) : i \in 1 .. n}
  <2>1. kids \in [1 .. n -> Seq(Steps)]
    BY <1>1 DEF KidsOf
  <2>2. Range(kids) = {Append(p, key[i]) : i \in 1 .. n}
    BY DEF Range, KidsOf
  <2>3. kids \in Seq(Seq(Steps))
    BY <2>1
  <2>4. QED BY <2>2, <2>3
<1>3. c = [path |-> p, t |-> t, pieces |-> <<>>, kids |-> kids] /\ <<>> \in Seq(Pieces)
  BY DEF Container
<1> HIDE DEF c, kids
<1>4. c \in TreeNodes
  BY <1>2, <1>3 DEF TreeNodes
<1>5. c.path = p /\ c.t # "str" /\ c.pieces = <<>> /\ c.kids = kids
  BY <1>3
<1>6. RootOf(c, p, n, key)
  BY <1>2, <1>4, <1>5 DEF RootOf
<1>7. QED BY <1>6 DEF c, kids

LEMMA ValueTypes ==
  ASSUME NEW v \in Values
  PROVE  /\ v.t \in {"str", "list", "dict"}
         /\ v.t = "str" => v.strings[1] \in Seq(Pieces)
         /\ v.t = "list" => v.strings \in Seq(Seq(Pieces))
         /\ v.t = "dict" => v.entries \in Seq([key : Strings, val : FlatValues])
         /\ v.t # "dict" => v \in FlatValues /\ v.entries = <<>>
<1>1. CASE v \in [t : {"str"}, strings : [1..1 -> Seq(Pieces)], entries : {<<>>}]
  BY <1>1 DEF FlatValues
<1>2. CASE v \in [t : {"list"}, strings : Seq(Seq(Pieces)), entries : {<<>>}]
  BY <1>2 DEF FlatValues
<1>3. CASE v \in [t : {"dict"}, strings : {<<>>}, entries : Seq([key : Strings, val : FlatValues])]
  BY <1>3
<1>4. QED BY <1>1, <1>2, <1>3 DEF Values, FlatValues

LEMMA FlatIs ==
  ASSUME NEW v \in FlatValues
  PROVE  v \in Values /\ v.t \in {"str", "list"} /\ v.entries = <<>>
<1>1. CASE v \in [t : {"str"}, strings : [1..1 -> Seq(Pieces)], entries : {<<>>}]
  BY <1>1 DEF FlatValues, Values
<1>2. CASE v \in [t : {"list"}, strings : Seq(Seq(Pieces)), entries : {<<>>}]
  BY <1>2 DEF FlatValues, Values
<1>3. QED BY <1>1, <1>2 DEF FlatValues

LEMMA FlatTree ==
  ASSUME NumeralsDiffer, NEW p \in Seq(Steps), Len(p) \in 1 .. 2, NEW v \in FlatValues, NEW inner
  PROVE  NodesOf(p, v, inner) \in Seq(TreeNodes) /\ Tree(p, Range(NodesOf(p, v, inner)))
<1>1. v \in Values /\ v.t \in {"str", "list"}
  BY FlatIs
<1>2. CASE v.t = "str"
  <2>1. NodesOf(p, v, inner) = <<Leaf(p, v.strings[1])>>
    BY <1>2 DEF NodesOf
  <2>2. v.strings[1] \in Seq(Pieces)
    BY <1>1, <1>2, ValueTypes
  <2> DEFINE x == Leaf(p, v.strings[1])
  <2>3. x \in TreeNodes /\ Tree(p, {x})
    BY <2>2, LeafTree
  <2> HIDE DEF x
  <2>4. <<x>> \in Seq(TreeNodes) /\ Range(<<x>>) = {x}
    BY <2>3 DEF Range
  <2>5. NodesOf(p, v, inner) = <<x>>
    BY <2>1 DEF x
  <2>6. QED BY <2>3, <2>4, <2>5
<1>3. CASE v.t = "list"
  <2> DEFINE strings == v.strings
             n == Len(strings)
             key == [i \in 1 .. n |-> ToString(i - 1)]
             kids == KidsOf(p, n, key)
             N == [i \in 1 .. n |-> {Leaf(Append(p, key[i]), strings[i])}]
             leaves == [i \in 1 .. n |-> Leaf(Append(p, key[i]), strings[i])]
             c == Container(p, "list", kids)
  <2>1. strings \in Seq(Seq(Pieces)) /\ n \in Nat /\ DOMAIN strings = 1 .. n
    BY <1>1, <1>3, ValueTypes, LenProperties
  <2>2. \A i \in 1 .. n : i - 1 \in Nat
    BY <2>1
  <2>3. key \in [1 .. n -> Steps]
    BY <2>2 DEF Steps
  <2>4. \A i, j \in 1 .. n : key[i] = key[j] => i = j
    <3>1. SUFFICES ASSUME NEW i \in 1 .. n, NEW j \in 1 .. n, key[i] = key[j] PROVE i = j
      OBVIOUS
    <3>2. ToString(i - 1) = ToString(j - 1)
      BY <3>1
    <3>3. i - 1 = j - 1
      BY <3>2, <2>2 DEF NumeralsDiffer
    <3>4. QED BY <3>3, <2>1
  <2>5. NodesOf(p, v, inner) = ListNodes(p, strings)
    BY <1>3 DEF NodesOf
  <2>6. ListNodes(p, strings) = leaves \o <<c>>
    <3>1. [i \in DOMAIN strings |-> Append(p, ToString(i - 1))] = kids
      BY <2>1 DEF KidsOf
    <3>2. [i \in DOMAIN strings |-> Leaf(Append(p, ToString(i - 1)), strings[i])] = leaves
      BY <2>1
    <3>3. QED BY <3>1, <3>2 DEF ListNodes
  <2>7. \A i \in 1 .. n : key[i] \in Steps /\ strings[i] \in Seq(Pieces)
    BY <2>1, <2>3
  <2> HIDE DEF key, strings, n
  <2>8. ASSUME NEW i \in 1 .. n
        PROVE  leaves[i] \in TreeNodes /\ Tree(Append(p, key[i]), {leaves[i]}) /\ N[i] = {leaves[i]}
    <3> DEFINE a == Append(p, key[i])
    <3>1. a \in Seq(Steps) /\ Len(a) = Len(p) + 1
      BY <2>7, KidIs
    <3>2. leaves[i] = Leaf(a, strings[i]) /\ N[i] = {leaves[i]}
      OBVIOUS
    <3> HIDE DEF a, leaves, N
    <3>3. Len(a) \in 1 .. 3
      <4>1. Len(p) = 1 \/ Len(p) = 2
        OBVIOUS
      <4>2. 1 + 1 \in 1 .. 3 /\ 2 + 1 \in 1 .. 3
        OBVIOUS
      <4>3. QED BY <3>1, <4>1, <4>2
    <3>4. leaves[i] \in TreeNodes /\ Tree(a, {leaves[i]})
      BY <3>1, <3>2, <3>3, <2>7, LeafTree
    <3>5. QED BY <3>2, <3>4 DEF a
  <2>9. RootOf(c, p, n, key)
    <3>1. "list" \in {"list", "dict"}
      OBVIOUS
    <3>2. QED BY <2>1, <2>3, <3>1, ContainerIs
  <2>10. leaves = [i \in 1 .. n |-> leaves[i]] /\ DOMAIN leaves = 1 .. n
    OBVIOUS
  <2> HIDE DEF leaves, c, N, kids
  <2>11. leaves \in Seq(TreeNodes) /\ Range(leaves) = AllOf(n, N)
    <3>1. leaves \in [1 .. n -> TreeNodes]
      BY <2>8, <2>10
    <3>2. leaves \in Seq(TreeNodes)
      BY <3>1, <2>1
    <3>3. Range(leaves) = {leaves[i] : i \in 1 .. n}
      BY <2>10 DEF Range
    <3>4. \A i \in 1 .. n : N[i] = {leaves[i]}
      BY <2>8
    <3>5. Range(leaves) = UNION {N[i] : i \in 1 .. n}
      BY <3>3, <3>4
    <3>6. QED BY <3>2, <3>5 DEF AllOf
  <2>12. leaves \o <<c>> \in Seq(TreeNodes) /\ Range(leaves \o <<c>>) = Range(leaves) \cup {c}
    <3>1. <<c>> \in Seq(TreeNodes) /\ Range(<<c>>) = {c}
      BY <2>9 DEF Range, RootOf
    <3>2. \A a, b \in Seq(TreeNodes) : Range(a \o b) = Range(a) \cup Range(b)
      BY RangeConcatenation
    <3>3. leaves \o <<c>> \in Seq(TreeNodes)
      BY <3>1, <2>11
    <3>4. QED BY <3>1, <3>2, <3>3, <2>11
  <2>13. Tree(p, Range(leaves) \cup {c})
    <3>1. MembersOf(p, n, key, N)
      BY <2>1, <2>3, <2>4, <2>8 DEF MembersOf
    <3>2. Len(p) \in 1 .. 3
      OBVIOUS
    <3>3. Tree(p, AllOf(n, N) \cup {c})
      BY <2>9, <3>1, <3>2, WithRoot
    <3>4. QED BY <2>11, <3>3
  <2>14. QED BY <2>5, <2>6, <2>12, <2>13
<1>4. QED BY <1>1, <1>2, <1>3

(* The nodes of the entries of a dict, one after the other.                *)
EntriesOf(p, n, key, nodes) ==
  /\ nodes \in Seq(TreeNodes) /\ Range(nodes) \subseteq TreeNodes
  /\ \E N : MembersOf(p, n, key, N) /\ Range(nodes) = AllOf(n, N)

LEMMA Entries ==
  ASSUME NEW p \in Seq(Steps), NEW n \in Nat, NEW key \in [1 .. n -> Steps],
         \A i, j \in 1 .. n : key[i] = key[j] => i = j,
         NEW ns, DOMAIN ns = 1 .. n, ns = [i \in DOMAIN ns |-> ns[i]],
         \A i \in 1 .. n : ns[i] \in Seq(TreeNodes) /\ Tree(Append(p, key[i]), Range(ns[i]))
  PROVE  EntriesOf(p, n, key, FlattenSeq(ns))
<1> DEFINE N == [i \in 1 .. n |-> Range(ns[i])]
<1>1. ns \in Seq(Seq(TreeNodes)) /\ Len(ns) = n
  <2>1. ns \in [1 .. n -> Seq(TreeNodes)]
    OBVIOUS
  <2>2. QED BY <2>1
<1>2. FlattenSeq(ns) \in Seq(TreeNodes)
  BY <1>1, FlattenType
<1>3. Range(FlattenSeq(ns)) = UNION {Range(ns[i]) : i \in 1 .. n}
  BY <1>1, FlattenRange
<1>4. Range(FlattenSeq(ns)) \subseteq TreeNodes
  BY <1>2, RangeIs
<1>5. \A i \in 1 .. n : N[i] = Range(ns[i])
  OBVIOUS
<1> HIDE DEF N
<1>6. AllOf(n, N) = UNION {Range(ns[i]) : i \in 1 .. n}
  BY <1>5 DEF AllOf
<1>7. MembersOf(p, n, key, N)
  BY <1>5 DEF MembersOf
<1>8. QED BY <1>2, <1>3, <1>4, <1>6, <1>7 DEF EntriesOf

KeyOf(cfg) == [i \in DOMAIN cfg |-> cfg[i].key]

LEMMA KeyOfIs ==
  ASSUME NEW V, NEW cfg \in Seq([key : Strings, val : V]), KeysDiffer(cfg)
  PROVE  /\ Len(cfg) \in Nat /\ DOMAIN cfg = 1 .. Len(cfg)
         /\ KeyOf(cfg) \in [1 .. Len(cfg) -> Steps] /\ \A i \in 1 .. Len(cfg) : KeyOf(cfg)[i] = cfg[i].key
         /\ \A i, j \in 1 .. Len(cfg) : KeyOf(cfg)[i] = KeyOf(cfg)[j] => i = j
         /\ \A i \in 1 .. Len(cfg) : cfg[i].key \in Strings /\ cfg[i].val \in V
<1>1. Len(cfg) \in Nat /\ DOMAIN cfg = 1 .. Len(cfg)
      /\ \A i \in 1 .. Len(cfg) : cfg[i].key \in Strings /\ cfg[i].val \in V
  <2>1. Len(cfg) \in Nat /\ DOMAIN cfg = 1 .. Len(cfg)
    BY LenProperties
  <2> DEFINE E == [key : Strings, val : V]
  <2>2. \A i \in 1 .. Len(cfg) : cfg[i] \in E
    <3> HIDE DEF E
    <3>1. \A s \in Seq(E) : \A i \in 1 .. Len(s) : s[i] \in E
      OBVIOUS
    <3>2. cfg \in Seq(E)
      BY DEF E
    <3>3. QED BY <3>1, <3>2
  <2>3. QED BY <2>1, <2>2
<1>2. \A i \in 1 .. Len(cfg) : KeyOf(cfg)[i] = cfg[i].key /\ cfg[i].key \in Steps
  BY <1>1 DEF KeyOf, Steps
<1>3. KeyOf(cfg) \in [1 .. Len(cfg) -> Steps]
  BY <1>1, <1>2 DEF KeyOf
<1>4. \A i, j \in 1 .. Len(cfg) : KeyOf(cfg)[i] = KeyOf(cfg)[j] => i = j
  BY <1>1, <1>2 DEF KeysDiffer
<1>5. QED BY <1>1, <1>2, <1>3, <1>4

LEMMA InnerIs ==
  ASSUME NumeralsDiffer, NEW p \in Seq(Steps), Len(p) = 1,
         NEW cfg \in Seq([key : Strings, val : FlatValues]), KeysDiffer(cfg)
  PROVE  EntriesOf(p, Len(cfg), KeyOf(cfg), Inner(p, cfg))
<1> DEFINE n == Len(cfg)
           key == KeyOf(cfg)
           ns == [i \in DOMAIN cfg |-> NodesOf(Append(p, cfg[i].key), cfg[i].val, <<>>)]
<1>1. /\ n \in Nat /\ DOMAIN cfg = 1 .. n /\ key \in [1 .. n -> Steps]
      /\ \A i \in 1 .. n : key[i] = cfg[i].key /\ cfg[i].val \in FlatValues
      /\ \A i, j \in 1 .. n : key[i] = key[j] => i = j
  BY KeyOfIs
<1>2. DOMAIN ns = 1 .. n /\ ns = [i \in DOMAIN ns |-> ns[i]]
      /\ \A i \in 1 .. n : ns[i] = NodesOf(Append(p, key[i]), cfg[i].val, <<>>)
  BY <1>1
<1>3. Inner(p, cfg) = FlattenSeq(ns)
  BY DEF Inner
<1> HIDE DEF n, key, ns
<1>4. ASSUME NEW i \in 1 .. n
      PROVE  ns[i] \in Seq(TreeNodes) /\ Tree(Append(p, key[i]), Range(ns[i]))
  <2> DEFINE q == Append(p, key[i])
  <2>1. key[i] \in Steps
    BY <1>1
  <2>2. q \in Seq(Steps) /\ Len(q) = Len(p) + 1
    BY <2>1, KidIs
  <2>3. ns[i] = NodesOf(q, cfg[i].val, <<>>)
    BY <1>2
  <2> HIDE DEF q
  <2>4. Len(q) \in 1 .. 2
    BY <2>2
  <2>5. ns[i] \in Seq(TreeNodes) /\ Tree(q, Range(ns[i]))
    BY <1>1, <2>2, <2>3, <2>4, FlatTree
  <2>6. QED BY <2>5 DEF q
<1>5. EntriesOf(p, n, key, FlattenSeq(ns))
  BY <1>1, <1>2, <1>4, Entries
<1>6. QED BY <1>3, <1>5 DEF n, key

LEMMA ValueTree ==
  ASSUME NumeralsDiffer, NEW p \in Seq(Steps), Len(p) = 1, NEW v \in Values, KeysDiffer(v.entries)
  PROVE  LET nodes == NodesOf(p, v, Inner(p, v.entries))
         IN  nodes \in Seq(TreeNodes) /\ Tree(p, Range(nodes))
<1> DEFINE inner == Inner(p, v.entries)
           nodes == NodesOf(p, v, inner)
<1>1. /\ v.t # "dict" => v \in FlatValues
      /\ v.t = "dict" => v.entries \in Seq([key : Strings, val : FlatValues])
  BY ValueTypes
<1>2. CASE v.t # "dict"
  <2>1. Len(p) \in 1 .. 2
    OBVIOUS
  <2>2. QED BY <1>1, <1>2, <2>1, FlatTree
<1>3. CASE v.t = "dict"
  <2> DEFINE n == Len(v.entries)
             key == KeyOf(v.entries)
             c == Container(p, "dict", KidsOf(p, n, key))
  <2>1. EntriesOf(p, n, key, inner)
    BY <1>1, <1>3, InnerIs
  <2>2. /\ n \in Nat /\ DOMAIN v.entries = 1 .. n /\ key \in [1 .. n -> Steps]
        /\ \A i \in 1 .. n : key[i] = v.entries[i].key
    BY <1>1, <1>3, KeyOfIs
  <2>3. [i \in DOMAIN v.entries |-> Append(p, v.entries[i].key)] = KidsOf(p, n, key)
    BY <2>2 DEF KidsOf
  <2>4. nodes = inner \o <<c>>
    BY <1>3, <2>3 DEF NodesOf
  <2> HIDE DEF n, key, inner, nodes
  <2>5. RootOf(c, p, n, key)
    <3>1. "dict" \in {"list", "dict"}
      OBVIOUS
    <3>2. QED BY <2>2, <3>1, ContainerIs
  <2> HIDE DEF c
  <2>6. PICK N : MembersOf(p, n, key, N) /\ Range(inner) = AllOf(n, N)
    BY <2>1 DEF EntriesOf
  <2>7. Tree(p, AllOf(n, N) \cup {c})
    <3>1. Len(p) \in 1 .. 3
      OBVIOUS
    <3>2. QED BY <3>1, <2>5, <2>6, WithRoot
  <2>8. inner \in Seq(TreeNodes) /\ <<c>> \in Seq(TreeNodes) /\ Range(<<c>>) = {c}
    BY <2>1, <2>5 DEF EntriesOf, RootOf, Range
  <2>9. nodes \in Seq(TreeNodes) /\ Range(nodes) = Range(inner) \cup Range(<<c>>)
    <3>1. \A a, b \in Seq(TreeNodes) : Range(a \o b) = Range(a) \cup Range(b)
      BY RangeConcatenation
    <3>2. inner \o <<c>> \in Seq(TreeNodes)
      BY <2>8
    <3>3. QED BY <3>1, <3>2, <2>4, <2>8
  <2>10. nodes \in Seq(TreeNodes) /\ Tree(p, Range(nodes))
    BY <2>6, <2>7, <2>8, <2>9
  <2>11. QED BY <2>10 DEF nodes, inner
<1>4. QED BY <1>2, <1>3

(* parse_rec walks a tree.                                                 *)
LEMMA NodesTree ==
  ASSUME NumeralsDiffer, NEW cfg, IsConfiguration(cfg)
  PROVE  IsTree(Nodes(cfg))
<1> DEFINE n == Len(cfg)
           key == KeyOf(cfg)
           p == <<>>
           ns == [i \in DOMAIN cfg |-> NodesOf(<<cfg[i].key>>, cfg[i].val, Inner(<<cfg[i].key>>, cfg[i].val.entries))]
           nodes == Nodes(cfg)
<1>1. /\ n \in Nat /\ DOMAIN cfg = 1 .. n /\ key \in [1 .. n -> Steps]
      /\ \A i \in 1 .. n : key[i] = cfg[i].key /\ cfg[i].val \in Values /\ KeysDiffer(cfg[i].val.entries)
      /\ \A i, j \in 1 .. n : key[i] = key[j] => i = j
  <2>1. cfg \in Seq([key : Strings, val : Values]) /\ KeysDiffer(cfg)
        /\ \A i \in DOMAIN cfg : KeysDiffer(cfg[i].val.entries)
    BY DEF IsConfiguration
  <2>2. QED BY <2>1, KeyOfIs
<1>2. DOMAIN ns = 1 .. n /\ ns = [i \in DOMAIN ns |-> ns[i]]
      /\ \A i \in 1 .. n : ns[i] = NodesOf(<<key[i]>>, cfg[i].val, Inner(<<key[i]>>, cfg[i].val.entries))
  BY <1>1
<1>3. nodes = FlattenSeq(ns)
  BY DEF Nodes
<1>4. p \in Seq(Steps) /\ \A k \in Steps : Append(p, k) = <<k>> /\ <<k>> \in Seq(Steps) /\ Len(<<k>>) = 1
  OBVIOUS
<1> HIDE DEF n, key, ns, p, nodes
<1>5. ASSUME NEW i \in 1 .. n
      PROVE  ns[i] \in Seq(TreeNodes) /\ Tree(Append(p, key[i]), Range(ns[i]))
  <2> DEFINE q == <<key[i]>>
             v == cfg[i].val
  <2>1. key[i] \in Steps
    BY <1>1
  <2>2. q \in Seq(Steps) /\ Len(q) = 1 /\ q = Append(p, key[i])
    BY <1>4, <2>1
  <2>3. ns[i] = NodesOf(q, v, Inner(q, v.entries)) /\ v \in Values /\ KeysDiffer(v.entries)
    BY <1>1, <1>2
  <2> HIDE DEF q, v
  <2>4. ns[i] \in Seq(TreeNodes) /\ Tree(q, Range(ns[i]))
    BY <2>2, <2>3, ValueTree
  <2>5. QED BY <2>2, <2>4
<1>6. EntriesOf(p, n, key, nodes)
  BY <1>1, <1>2, <1>3, <1>4, <1>5, Entries
<1>7. nodes \in Seq(Range(nodes)) /\ TreePart(Range(nodes))
  <2>1. nodes \in Seq(TreeNodes)
    BY <1>6 DEF EntriesOf
  <2>2. PICK N : MembersOf(p, n, key, N) /\ Range(nodes) = AllOf(n, N)
    BY <1>6 DEF EntriesOf
  <2>3. TreePart(Range(nodes))
    BY <1>4, <2>2, Members
  <2>4. nodes \in Seq(Range(nodes))
    BY <2>1, SeqOfRange
  <2>5. QED BY <2>3, <2>4
<1>8. PathsIn(Range(nodes)) = Paths(nodes)
  BY DEF PathsIn, Paths, Range
<1>9. \A x \in Range(nodes) : x \in TreeNodes /\ NodeOf(nodes, x)
  BY <1>7, <1>8 DEF TreePart, NodeIn, NodeOf, TreeNodes
<1>10. IsTree(nodes)
  BY <1>7, <1>9 DEF TreePart, IsTree
<1>11. QED BY <1>10 DEF nodes

-----------------------------------------------------------------------------
(* Dicts, and the merge of two.                                            *)

Entry(V) == [key : Strings, val : V]
DictOf(V, cfg) == cfg \in Seq(Entry(V)) /\ KeysDiffer(cfg)
GoodValues == {v \in Values : KeysDiffer(v.entries)}

LEMMA EntryIn ==
  ASSUME NEW V, NEW cfg \in Seq(Entry(V))
  PROVE  /\ Len(cfg) \in Nat /\ DOMAIN cfg = 1 .. Len(cfg)
         /\ \A i \in DOMAIN cfg : cfg[i] \in Range(cfg)
         /\ \A i \in DOMAIN cfg : cfg[i] \in Entry(V) /\ cfg[i].key \in Strings /\ cfg[i].val \in V
         /\ \A e \in Range(cfg) : \E i \in DOMAIN cfg : e = cfg[i]
         /\ KeysOf(cfg) = {e.key : e \in Range(cfg)} /\ KeysOf(cfg) \subseteq Strings
<1>1. Len(cfg) \in Nat /\ DOMAIN cfg = 1 .. Len(cfg)
  BY LenProperties
<1>2. \A i \in DOMAIN cfg : cfg[i] \in Entry(V)
  BY <1>1
<1>3. \A e \in Entry(V) : e.key \in Strings /\ e.val \in V
  BY DEF Entry
<1>4. (\A e \in Range(cfg) : \E i \in DOMAIN cfg : e = cfg[i]) /\ \A i \in DOMAIN cfg : cfg[i] \in Range(cfg)
  BY DEF Range
<1>5. KeysOf(cfg) = {e.key : e \in Range(cfg)}
  BY <1>4 DEF KeysOf
<1>6. KeysOf(cfg) \subseteq Strings
  BY <1>2, <1>3 DEF KeysOf
<1>7. QED BY <1>1, <1>2, <1>3, <1>4, <1>5, <1>6

LEMMA ValueAtIs ==
  ASSUME NEW V, NEW cfg, DictOf(V, cfg)
  PROVE  /\ \A e \in Range(cfg) : e.key \in KeysOf(cfg) /\ ValueAt(cfg, e.key) = e.val /\ e \in Entry(V)
         /\ \A k \in KeysOf(cfg) : k \in Strings /\ ValueAt(cfg, k) \in V
                                   /\ [key |-> k, val |-> ValueAt(cfg, k)] \in Range(cfg)
<1>1. cfg \in Seq(Entry(V)) /\ KeysDiffer(cfg)
  BY DEF DictOf
<1>2. /\ \A i \in DOMAIN cfg : cfg[i] \in Range(cfg) /\ cfg[i] \in Entry(V)
      /\ \A e \in Range(cfg) : \E i \in DOMAIN cfg : e = cfg[i]
      /\ KeysOf(cfg) = {e.key : e \in Range(cfg)}
  BY <1>1, EntryIn
<1>3. ASSUME NEW i \in DOMAIN cfg
      PROVE  ValueAt(cfg, cfg[i].key) = cfg[i].val /\ cfg[i] = [key |-> cfg[i].key, val |-> cfg[i].val]
  <2>1. (CHOOSE j \in DOMAIN cfg : cfg[j].key = cfg[i].key) = i
    BY <1>1 DEF KeysDiffer
  <2>2. cfg[i] \in Entry(V)
    BY <1>2
  <2>3. QED BY <2>1, <2>2 DEF ValueAt, Entry
<1>4. \A e \in Range(cfg) : e.key \in KeysOf(cfg) /\ ValueAt(cfg, e.key) = e.val /\ e \in Entry(V)
                            /\ e = [key |-> e.key, val |-> e.val]
  BY <1>2, <1>3
<1>5. \A e \in Entry(V) : e.key \in Strings /\ e.val \in V
  BY DEF Entry
<1>6. ASSUME NEW k \in KeysOf(cfg)
      PROVE  k \in Strings /\ ValueAt(cfg, k) \in V /\ [key |-> k, val |-> ValueAt(cfg, k)] \in Range(cfg)
  <2>1. PICK e \in Range(cfg) : e.key = k
    BY <1>2
  <2>2. QED BY <2>1, <1>4, <1>5
<1>7. QED BY <1>4, <1>6

(* Two dicts without a common key, one after the other.                    *)
LEMMA DictConcat ==
  ASSUME NEW V, NEW a, DictOf(V, a), NEW b, DictOf(V, b), KeysOf(a) \cap KeysOf(b) = {}
  PROVE  DictOf(V, a \o b) /\ Range(a \o b) = Range(a) \cup Range(b)
<1> DEFINE c == a \o b
           m == Len(a)
           n == Len(b)
<1>1. a \in Seq(Entry(V)) /\ KeysDiffer(a) /\ b \in Seq(Entry(V)) /\ KeysDiffer(b)
  BY DEF DictOf
<1>2. /\ m \in Nat /\ n \in Nat /\ DOMAIN a = 1 .. m /\ DOMAIN b = 1 .. n
  BY <1>1, EntryIn
<1>3. /\ c \in Seq(Entry(V)) /\ Len(c) = m + n
      /\ \A i \in 1 .. m : c[i] = a[i]
      /\ \A i \in (m + 1) .. (m + n) : c[i] = b[i - m]
  BY <1>1, <1>2, ConcatProperties
<1>4. Range(c) = Range(a) \cup Range(b)
  BY <1>1, RangeConcatenation
<1> HIDE DEF c, m, n
<1>5. DOMAIN c = 1 .. (m + n)
  BY <1>3, EntryIn
<1>6. (\A i \in 1 .. m : a[i].key \in KeysOf(a)) /\ \A i \in 1 .. n : b[i].key \in KeysOf(b)
  BY <1>2 DEF KeysOf
<1>7. ASSUME NEW i \in 1 .. (m + n), NEW j \in 1 .. (m + n), c[i].key = c[j].key PROVE i = j
  <2>1. CASE i \in 1 .. m /\ j \in 1 .. m
    BY <2>1, <1>1, <1>2, <1>3, <1>7 DEF KeysDiffer
  <2>2. ASSUME NEW k \in 1 .. (m + n), k \notin 1 .. m
        PROVE  k \in (m + 1) .. (m + n) /\ k - m \in 1 .. n /\ c[k] = b[k - m]
    BY <2>2, <1>2, <1>3
  <2>3. CASE i \notin 1 .. m /\ j \notin 1 .. m
    <3>1. i - m = j - m
      BY <2>2, <2>3, <1>1, <1>2, <1>7 DEF KeysDiffer
    <3>2. QED BY <3>1, <1>2
  <2>4. CASE i \in 1 .. m /\ j \notin 1 .. m
    BY <2>2, <2>4, <1>3, <1>6, <1>7
  <2>5. CASE i \notin 1 .. m /\ j \in 1 .. m
    BY <2>2, <2>5, <1>3, <1>6, <1>7
  <2>6. QED BY <2>1, <2>3, <2>4, <2>5
<1>8. DictOf(V, c)
  BY <1>3, <1>5, <1>7 DEF DictOf, KeysDiffer
<1>9. QED BY <1>4, <1>8 DEF c

LEMMA DictEmpty ==
  ASSUME NEW V
  PROVE  DictOf(V, <<>>) /\ KeysOf(<<>>) = {} /\ Range(<<>>) = {}
  BY DEF DictOf, KeysDiffer, KeysOf, Range

LEMMA DictOne ==
  ASSUME NEW V, NEW e \in Entry(V)
  PROVE  DictOf(V, <<e>>) /\ KeysOf(<<e>>) = {e.key} /\ Range(<<e>>) = {e}
<1>1. <<e>> \in Seq(Entry(V)) /\ DOMAIN <<e>> = {1} /\ <<e>>[1] = e
  OBVIOUS
<1>2. QED BY <1>1 DEF DictOf, KeysDiffer, KeysOf, Range

(* The entries of a dict under keys that another one does not have.        *)
NewEntries(dst, src) ==
  FlattenSeq([i \in DOMAIN src |-> IF src[i].key \in KeysOf(dst) THEN <<>> ELSE <<src[i]>>])

LEMMA NewEntriesIs ==
  ASSUME NEW V, NEW dst, NEW src, DictOf(V, src)
  PROVE  /\ DictOf(V, NewEntries(dst, src))
         /\ Range(NewEntries(dst, src)) = {e \in Range(src) : e.key \notin KeysOf(dst)}
<1> DEFINE n == Len(src)
           ss == [i \in DOMAIN src |-> IF src[i].key \in KeysOf(dst) THEN <<>> ELSE <<src[i]>>]
<1>1. src \in Seq(Entry(V)) /\ KeysDiffer(src)
  BY DEF DictOf
<1>2. n \in Nat /\ DOMAIN src = 1 .. n /\ \A i \in 1 .. n : src[i] \in Entry(V)
  BY <1>1, EntryIn
<1>3. /\ DOMAIN ss = 1 .. n /\ ss = [i \in 1 .. n |-> ss[i]]
      /\ \A i \in 1 .. n : ss[i] = IF src[i].key \in KeysOf(dst) THEN <<>> ELSE <<src[i]>>
  BY <1>2
<1> HIDE DEF n, ss
<1>4. \A i \in 1 .. n : DictOf(V, ss[i]) /\ ss[i] \in Seq(Entry(V))
  <2>1. ASSUME NEW i \in 1 .. n PROVE DictOf(V, ss[i])
    <3>1. CASE src[i].key \in KeysOf(dst)
      BY <3>1, <1>3, DictEmpty
    <3>2. CASE src[i].key \notin KeysOf(dst)
      <4>1. src[i] \in Entry(V) /\ ss[i] = <<src[i]>>
        BY <3>2, <1>2, <1>3
      <4>2. QED BY <4>1, DictOne
    <3>3. QED BY <3>1, <3>2
  <2>2. QED BY <2>1 DEF DictOf
<1>5. ss \in Seq(Seq(Entry(V))) /\ Len(ss) = n
  <2>1. ss \in [1 .. n -> Seq(Entry(V))]
    BY <1>3, <1>4
  <2>2. QED BY <2>1, <1>2
<1>6. PICK f \in [0 .. n -> Seq(Entry(V))] :
            /\ f[0] = <<>>
            /\ \A i \in 1 .. n : f[i] = f[i - 1] \o ss[i]
            /\ FlattenSeq(ss) = f[n]
  <2>1. PICK f \in [0 .. Len(ss) -> Seq(Entry(V))] :
            /\ f[0] = <<>>
            /\ \A i \in 1 .. Len(ss) : f[i] = f[i - 1] \o ss[i]
            /\ FlattenSeq(ss) = f[Len(ss)]
    BY <1>5, FlattenSteps
  <2>2. QED BY <2>1, <1>5
<1> DEFINE Sub(i) == {src[j] : j \in {k \in 1 .. i : src[k].key \notin KeysOf(dst)}}
           G == {i \in 0 .. n : DictOf(V, f[i]) /\ Range(f[i]) = Sub(i)}
<1>7. 0 \in G
  <2>1. 0 \in 0 .. n /\ 1 .. 0 = {}
    BY <1>2
  <2>2. QED BY <2>1, <1>6, DictEmpty
<1>8. ASSUME NEW i \in 1 .. n, i - 1 \in G PROVE i \in G
  <2> DEFINE a == f[i - 1]
             b == ss[i]
  <2>1. i \in 0 .. n /\ 1 .. i = (1 .. (i - 1)) \cup {i} /\ i \notin 1 .. (i - 1) /\ 1 .. (i - 1) \subseteq 1 .. n
    BY <1>2
  <2>2. f[i] = a \o b /\ DictOf(V, b) /\ DictOf(V, a) /\ Range(a) = Sub(i - 1)
    BY <1>4, <1>6, <1>8
  <2> HIDE DEF a, b
  <2>3. CASE src[i].key \in KeysOf(dst)
    <3>1. b = <<>>
      BY <2>3, <1>3 DEF b
    <3>2. a \o b = a
      <4>1. \A s \in Seq(Entry(V)) : s \o <<>> = s
        OBVIOUS
      <4>2. QED BY <4>1, <3>1, <2>2 DEF DictOf
    <3>3. Sub(i) = Sub(i - 1)
      BY <2>1, <2>3
    <3>4. QED BY <3>2, <3>3, <2>1, <2>2
  <2>4. CASE src[i].key \notin KeysOf(dst)
    <3>1. b = <<src[i]>>
      BY <2>4, <1>3 DEF b
    <3>2. KeysOf(b) = {src[i].key} /\ Range(b) = {src[i]}
      BY <3>1, <1>2, DictOne
    <3>3. KeysOf(a) = {e.key : e \in Sub(i - 1)}
      BY <2>2, EntryIn DEF DictOf
    <3>4. \A j \in 1 .. (i - 1) : src[j].key # src[i].key
      BY <2>1, <1>1, <1>2 DEF KeysDiffer
    <3>5. src[i].key \notin KeysOf(a)
      BY <3>3, <3>4
    <3>6. KeysOf(a) \cap KeysOf(b) = {}
      BY <3>2, <3>5
    <3>7. DictOf(V, a \o b) /\ Range(a \o b) = Range(a) \cup {src[i]}
      BY <2>2, <3>2, <3>6, DictConcat
    <3>8. Sub(i) = Sub(i - 1) \cup {src[i]}
      BY <2>1, <2>4
    <3>9. QED BY <3>7, <3>8, <2>1, <2>2
  <2>5. QED BY <2>3, <2>4
<1> HIDE DEF G
<1>9. \A i \in 0 .. n : i \in G
  BY <1>2, <1>7, <1>8, Upto
<1>10. DictOf(V, f[n]) /\ Range(f[n]) = Sub(n)
  <2>1. n \in 0 .. n
    BY <1>2
  <2>2. QED BY <2>1, <1>9 DEF G
<1>11. Sub(n) = {e \in Range(src) : e.key \notin KeysOf(dst)}
  BY <1>2 DEF Range
<1>12. NewEntries(dst, src) = FlattenSeq(ss)
  BY DEF NewEntries, ss
<1>13. QED BY <1>6, <1>10, <1>11, <1>12

(* The merge has the keys of both, and for each the value it should have.  *)
Overlays(joined, dst, src, r) ==
  /\ KeysOf(r) = KeysOf(dst) \cup KeysOf(src)
  /\ \A k \in KeysOf(dst) \cap KeysOf(src) : ValueAt(r, k) = joined[k]
  /\ \A k \in KeysOf(dst) \ KeysOf(src) : ValueAt(r, k) = ValueAt(dst, k)
  /\ \A k \in KeysOf(src) \ KeysOf(dst) : ValueAt(r, k) = ValueAt(src, k)

LEMMA OverlayIs ==
  ASSUME NEW V, NEW dst, DictOf(V, dst), NEW src, DictOf(V, src),
         NEW joined, \A k \in Common(dst, src) : joined[k] \in V
  PROVE  DictOf(V, Overlay(joined, dst, src)) /\ Overlays(joined, dst, src, Overlay(joined, dst, src))
<1> DEFINE n == Len(dst)
           a == [i \in DOMAIN dst |->
                   IF dst[i].key \in KeysOf(src) THEN [dst[i] EXCEPT !.val = joined[dst[i].key]] ELSE dst[i]]
           b == NewEntries(dst, src)
           r == Overlay(joined, dst, src)
           J == KeysOf(dst) \cap KeysOf(src)
<1>1. dst \in Seq(Entry(V)) /\ KeysDiffer(dst) /\ src \in Seq(Entry(V)) /\ KeysDiffer(src)
  BY DEF DictOf
<1>2. n \in Nat /\ DOMAIN dst = 1 .. n /\ \A i \in 1 .. n : dst[i] \in Entry(V)
  BY <1>1, EntryIn
<1>3. \A i \in 1 .. n : dst[i].key \in KeysOf(dst)
  BY <1>2 DEF KeysOf
<1>4. \A k \in J : joined[k] \in V
  BY DEF Common
<1>5. r = a \o b
  BY DEF Overlay, NewEntries
<1>6. DOMAIN a = 1 .. n /\ a = [i \in 1 .. n |-> a[i]]
  BY <1>2
<1>7. ASSUME NEW i \in 1 .. n
      PROVE  /\ a[i] \in Entry(V) /\ a[i].key = dst[i].key
             /\ dst[i].key \in KeysOf(src) => a[i].val = joined[dst[i].key]
             /\ dst[i].key \notin KeysOf(src) => a[i].val = dst[i].val
  <2>1. a[i] = IF dst[i].key \in KeysOf(src) THEN [dst[i] EXCEPT !.val = joined[dst[i].key]] ELSE dst[i]
    BY <1>2
  <2>2. dst[i] \in Entry(V) /\ dst[i].key \in KeysOf(dst)
    BY <1>2, <1>3
  <2>3. dst[i].key \in KeysOf(src) => joined[dst[i].key] \in V
    BY <2>2, <1>4
  <2>4. QED BY <2>1, <2>2, <2>3 DEF Entry
<1> HIDE DEF a, b, r, n
<1>8. a \in Seq(Entry(V))
  <2>1. a \in [1 .. n -> Entry(V)]
    BY <1>6, <1>7
  <2>2. QED BY <2>1, <1>2
<1>9. DictOf(V, a)
  BY <1>1, <1>2, <1>6, <1>7, <1>8 DEF DictOf, KeysDiffer
<1>10. KeysOf(a) = KeysOf(dst)
  BY <1>2, <1>6, <1>7 DEF KeysOf
<1>11. DictOf(V, b) /\ Range(b) = {e \in Range(src) : e.key \notin KeysOf(dst)}
  BY NewEntriesIs DEF b
<1>12. KeysOf(b) = KeysOf(src) \ KeysOf(dst)
  <2>1. KeysOf(b) = {e.key : e \in Range(b)} /\ KeysOf(src) = {e.key : e \in Range(src)}
    BY <1>1, <1>11, EntryIn DEF DictOf
  <2>2. QED BY <2>1, <1>11
<1>13. DictOf(V, r) /\ Range(r) = Range(a) \cup Range(b)
  <2>1. KeysOf(a) \cap KeysOf(b) = {}
    BY <1>10, <1>12
  <2>2. QED BY <2>1, <1>5, <1>9, <1>11, DictConcat
<1>14. KeysOf(r) = KeysOf(dst) \cup KeysOf(src)
  <2>1. /\ KeysOf(r) = {e.key : e \in Range(r)} /\ KeysOf(a) = {e.key : e \in Range(a)}
        /\ KeysOf(b) = {e.key : e \in Range(b)}
    BY <1>9, <1>11, <1>13, EntryIn DEF DictOf
  <2>2. KeysOf(r) = KeysOf(a) \cup KeysOf(b)
    BY <2>1, <1>13
  <2>3. QED BY <2>2, <1>10, <1>12
<1>15. ASSUME NEW k \in KeysOf(dst)
       PROVE  /\ k \in KeysOf(src) => ValueAt(r, k) = joined[k]
              /\ k \notin KeysOf(src) => ValueAt(r, k) = ValueAt(dst, k)
  <2>1. PICK i \in 1 .. n : dst[i].key = k
    BY <1>2 DEF KeysOf
  <2>2. a[i] \in Range(r) /\ dst[i] \in Range(dst)
    BY <1>2, <1>6, <1>13 DEF Range
  <2>3. ValueAt(r, a[i].key) = a[i].val
    BY <2>2, <1>13, ValueAtIs
  <2>4. ValueAt(dst, dst[i].key) = dst[i].val
    BY <2>2, ValueAtIs
  <2>5. QED BY <2>1, <2>3, <2>4, <1>7
<1>16. ASSUME NEW k \in KeysOf(src), k \notin KeysOf(dst) PROVE ValueAt(r, k) = ValueAt(src, k)
  <2>1. PICK e \in Range(src) : e.key = k
    BY <1>1, EntryIn
  <2>2. e \in Range(r)
    BY <2>1, <1>11, <1>13, <1>16
  <2>3. ValueAt(r, e.key) = e.val
    BY <2>2, <1>13, ValueAtIs
  <2>4. ValueAt(src, e.key) = e.val
    BY <2>1, ValueAtIs
  <2>5. QED BY <2>1, <2>3, <2>4
<1>17. Overlays(joined, dst, src, r)
  BY <1>14, <1>15, <1>16 DEF Overlays
<1>18. QED BY <1>13, <1>17 DEF r

LEMMA ConfigIs ==
  ASSUME NEW cfg
  PROVE  IsConfiguration(cfg) <=> DictOf(GoodValues, cfg)
<1>1. [key : Strings, val : Values] = Entry(Values)
  BY DEF Entry
<1>2. ASSUME cfg \in Seq(Entry(Values)), \A i \in DOMAIN cfg : KeysDiffer(cfg[i].val.entries)
      PROVE  cfg \in Seq(Entry(GoodValues))
  <2>1. /\ Len(cfg) \in Nat /\ DOMAIN cfg = 1 .. Len(cfg)
        /\ \A i \in DOMAIN cfg : cfg[i] \in Entry(Values)
    BY <1>2, EntryIn
  <2>2. \A i \in DOMAIN cfg : cfg[i] \in Entry(GoodValues)
    BY <1>2, <2>1 DEF Entry, GoodValues
  <2>3. cfg \in [1 .. Len(cfg) -> Entry(GoodValues)]
    BY <1>2, <2>1, <2>2
  <2>4. QED BY <2>1, <2>3
<1>3. ASSUME cfg \in Seq(Entry(GoodValues))
      PROVE  cfg \in Seq(Entry(Values)) /\ \A i \in DOMAIN cfg : KeysDiffer(cfg[i].val.entries)
  <2>1. /\ Len(cfg) \in Nat /\ DOMAIN cfg = 1 .. Len(cfg)
        /\ \A i \in DOMAIN cfg : cfg[i] \in Entry(GoodValues) /\ cfg[i].val \in GoodValues
    BY <1>3, EntryIn
  <2>2. \A i \in DOMAIN cfg : cfg[i] \in Entry(Values)
    BY <2>1 DEF Entry, GoodValues
  <2>3. cfg \in [1 .. Len(cfg) -> Entry(Values)]
    BY <1>3, <2>1, <2>2
  <2>4. \A v \in GoodValues : KeysDiffer(v.entries)
    BY DEF GoodValues
  <2>5. cfg \in Seq(Entry(Values))
    BY <2>1, <2>3
  <2>6. QED BY <2>1, <2>4, <2>5
<1>4. QED BY <1>1, <1>2, <1>3 DEF IsConfiguration, DictOf

(* Two strings or lists of strings.                                        *)
LEMMA ListsJoin ==
  ASSUME NEW a \in Seq(Seq(Pieces)), NEW b \in Seq(Seq(Pieces))
  PROVE  List(a \o b) \in FlatValues
  BY DEF List, FlatValues

LEMMA MergeInnerIs ==
  ASSUME NEW dst, DictOf(FlatValues, dst), NEW src, DictOf(FlatValues, src)
  PROVE  DictOf(FlatValues, MergeInner(dst, src)) /\ KeysOf(MergeInner(dst, src)) = KeysOf(dst) \cup KeysOf(src)
<1> DEFINE joined == [k \in Common(dst, src) |-> MergeValue(ValueAt(dst, k), ValueAt(src, k), <<>>)]
<1>1. ASSUME NEW k \in Common(dst, src) PROVE joined[k] \in FlatValues
  <2> DEFINE old == ValueAt(dst, k)
             new == ValueAt(src, k)
  <2>1. old \in FlatValues /\ new \in FlatValues
    BY ValueAtIs DEF Common
  <2>2. joined[k] = MergeValue(old, new, <<>>)
    OBVIOUS
  <2> HIDE DEF old, new, joined
  <2>3. old \in Values /\ old.t # "dict" /\ new \in Values /\ new.t # "dict"
    BY <2>1, FlatIs
  <2>4. CASE old.t = "list" /\ new.t = "list"
    <3>1. old.strings \in Seq(Seq(Pieces)) /\ new.strings \in Seq(Seq(Pieces))
      BY <2>3, <2>4, ValueTypes
    <3>2. MergeValue(old, new, <<>>) = List(old.strings \o new.strings)
      BY <2>4 DEF MergeValue
    <3>3. QED BY <2>2, <3>1, <3>2, ListsJoin
  <2>5. CASE ~(old.t = "list" /\ new.t = "list")
    BY <2>1, <2>2, <2>3, <2>5 DEF MergeValue
  <2>6. QED BY <2>4, <2>5
<1>2. MergeInner(dst, src) = Overlay(joined, dst, src)
  BY DEF MergeInner
<1> HIDE DEF joined
<1>3. QED BY <1>1, <1>2, OverlayIs DEF Overlays

(* The value of a key that both have.                                      *)
MergedValue(old, new) == MergeValue(old, new, MergeInner(old.entries, new.entries))

LEMMA GoodIs ==
  ASSUME NEW v \in GoodValues
  PROVE  v \in Values /\ DictOf(FlatValues, v.entries)
<1>1. v \in Values /\ KeysDiffer(v.entries)
  BY DEF GoodValues
<1>2. CASE v.t = "dict"
  BY <1>1, <1>2, ValueTypes DEF DictOf, Entry
<1>3. CASE v.t # "dict"
  BY <1>1, <1>3, ValueTypes, DictEmpty
<1>4. QED BY <1>1, <1>2, <1>3

LEMMA FlatGood ==
  ASSUME NEW v \in FlatValues
  PROVE  v \in GoodValues
<1>1. v \in Values /\ v.entries = <<>>
  BY FlatIs
<1>2. KeysDiffer(<<>>)
  BY DEF KeysDiffer
<1>3. QED BY <1>1, <1>2 DEF GoodValues

LEMMA DictGood ==
  ASSUME NEW cfg, DictOf(FlatValues, cfg)
  PROVE  Dict(cfg) \in GoodValues
<1>1. cfg \in Seq([key : Strings, val : FlatValues]) /\ KeysDiffer(cfg)
  BY DEF DictOf, Entry
<1>2. Dict(cfg).entries = cfg /\ Dict(cfg) = [t |-> "dict", strings |-> <<>>, entries |-> cfg]
  BY DEF Dict
<1>3. Dict(cfg) \in Values
  BY <1>1, <1>2 DEF Values
<1>4. QED BY <1>1, <1>2, <1>3 DEF GoodValues

LEMMA MergedValueIs ==
  ASSUME NEW old \in GoodValues, NEW new \in GoodValues
  PROVE  /\ MergedValue(old, new) \in GoodValues /\ MergedValue(old, new).t = new.t
         /\ old.t = "list" /\ new.t = "list" => MergedValue(old, new).strings = old.strings \o new.strings
         /\ old.t = "dict" /\ new.t = "dict" =>
               KeysOf(MergedValue(old, new).entries) = KeysOf(old.entries) \cup KeysOf(new.entries)
         /\ new.t = "str" \/ old.t # new.t => MergedValue(old, new) = new
<1> DEFINE v == MergedValue(old, new)
           inner == MergeInner(old.entries, new.entries)
<1>1. old \in Values /\ new \in Values /\ DictOf(FlatValues, old.entries) /\ DictOf(FlatValues, new.entries)
  BY GoodIs
<1>2. v = MergeValue(old, new, inner)
  BY DEF MergedValue
<1>3. DictOf(FlatValues, inner) /\ KeysOf(inner) = KeysOf(old.entries) \cup KeysOf(new.entries)
  BY <1>1, MergeInnerIs
<1> HIDE DEF v, inner
<1>4. CASE old.t = "list" /\ new.t = "list"
  <2>1. v = List(old.strings \o new.strings)
    BY <1>2, <1>4 DEF MergeValue
  <2>2. old.strings \in Seq(Seq(Pieces)) /\ new.strings \in Seq(Seq(Pieces))
    BY <1>1, <1>4, ValueTypes
  <2>3. v \in GoodValues
    BY <2>1, <2>2, ListsJoin, FlatGood
  <2>4. v.t = "list" /\ v.strings = old.strings \o new.strings
    BY <2>1 DEF List
  <2>5. QED BY <2>3, <2>4, <1>4 DEF v
<1>5. CASE old.t = "dict" /\ new.t = "dict"
  <2>1. v = Dict(inner)
    BY <1>2, <1>5 DEF MergeValue
  <2>2. v \in GoodValues /\ v.t = "dict" /\ v.entries = inner
    BY <2>1, <1>3, DictGood DEF Dict
  <2>3. QED BY <2>2, <1>3, <1>5 DEF v
<1>6. CASE old.t # new.t \/ new.t = "str"
  <2>1. v = new
    BY <1>2, <1>6 DEF MergeValue
  <2>2. QED BY <2>1, <1>6 DEF v
<1>7. QED BY <1>1, <1>4, <1>5, <1>6, ValueTypes

(* The merge of two configurations is one.                                 *)
Merged(dst, src, r) ==
  /\ IsConfiguration(r) /\ KeysOf(r) = KeysOf(dst) \cup KeysOf(src)
  /\ \A k \in KeysOf(dst) \cap KeysOf(src) : ValueAt(r, k) = MergedValue(ValueAt(dst, k), ValueAt(src, k))
  /\ \A k \in KeysOf(dst) \ KeysOf(src) : ValueAt(r, k) = ValueAt(dst, k)
  /\ \A k \in KeysOf(src) \ KeysOf(dst) : ValueAt(r, k) = ValueAt(src, k)

LEMMA DictMergeIs ==
  ASSUME NEW dst, IsConfiguration(dst), NEW src, IsConfiguration(src)
  PROVE  Merged(dst, src, DictMerge(dst, src))
<1> DEFINE joined == [k \in Common(dst, src) |-> MergedValue(ValueAt(dst, k), ValueAt(src, k))]
           r == DictMerge(dst, src)
<1>1. DictOf(GoodValues, dst) /\ DictOf(GoodValues, src)
  BY ConfigIs
<1>2. \A k \in Common(dst, src) : joined[k] \in GoodValues
  <2>1. ASSUME NEW k \in Common(dst, src) PROVE MergedValue(ValueAt(dst, k), ValueAt(src, k)) \in GoodValues
    <3>1. ValueAt(dst, k) \in GoodValues /\ ValueAt(src, k) \in GoodValues
      BY <1>1, ValueAtIs DEF Common
    <3>2. QED BY <3>1, MergedValueIs
  <2>2. QED BY <2>1
<1>3. r = Overlay(joined, dst, src)
  BY DEF DictMerge, MergedValue
<1>4. \A k \in KeysOf(dst) \cap KeysOf(src) : joined[k] = MergedValue(ValueAt(dst, k), ValueAt(src, k))
  BY DEF Common
<1> HIDE DEF joined, r
<1>5. DictOf(GoodValues, r) /\ Overlays(joined, dst, src, r)
  BY <1>1, <1>2, <1>3, OverlayIs
<1>6. IsConfiguration(r)
  BY <1>5, ConfigIs
<1>7. Merged(dst, src, r)
  BY <1>4, <1>5, <1>6 DEF Overlays, Merged
<1>8. QED BY <1>7 DEF r

-----------------------------------------------------------------------------
(* The frames of the recursion and the files that are merged.              *)

IsSeq(s) == s \in Seq(Range(s))

LEMMA SeqIs ==
  ASSUME NEW S, NEW s \in Seq(S)
  PROVE  IsSeq(s) /\ Range(s) \subseteq S
  BY SeqOfRange, RangeIs DEF IsSeq

LEMMA SeqConcat ==
  ASSUME NEW a, IsSeq(a), NEW b, IsSeq(b)
  PROVE  IsSeq(a \o b) /\ Range(a \o b) = Range(a) \cup Range(b)
<1> DEFINE S == Range(a) \cup Range(b)
<1>1. a \in Seq(Range(a)) /\ b \in Seq(Range(b))
  BY DEF IsSeq
<1>2. \A A, B : A \subseteq B => \A s \in Seq(A) : s \in Seq(B)
  OBVIOUS
<1>3. Range(a) \subseteq S /\ Range(b) \subseteq S
  OBVIOUS
<1> HIDE DEF S
<1>4. a \in Seq(S) /\ b \in Seq(S)
  BY <1>1, <1>2, <1>3
<1>5. a \o b \in Seq(S) /\ Range(a \o b) = Range(a) \cup Range(b)
  BY <1>4, RangeConcatenation
<1>6. QED BY <1>5, SeqIs

LEMMA SeqOne ==
  ASSUME NEW x
  PROVE  IsSeq(<<x>>) /\ Range(<<x>>) = {x} /\ IsSeq(<<>>) /\ Range(<<>>) = {}
<1>1. Range(<<x>>) = {x} /\ Range(<<>>) = {}
  BY DEF Range
<1>2. <<x>> \in Seq({x}) /\ <<>> \in Seq({})
  OBVIOUS
<1>3. QED BY <1>1, <1>2 DEF IsSeq

LEMMA SeqTail ==
  ASSUME NEW s, IsSeq(s), s # <<>>
  PROVE  /\ s[1] \in Range(s) /\ IsSeq(Tail(s)) /\ Range(Tail(s)) \subseteq Range(s) /\ Head(s) = s[1]
         /\ s = <<s[1]>> \o Tail(s)
<1> DEFINE S == Range(s)
<1>1. s \in Seq(S)
  BY DEF IsSeq
<1> HIDE DEF S
<1>2. s[1] \in S /\ Tail(s) \in Seq(S) /\ Head(s) = s[1]
  BY <1>1
<1>3. s = <<s[1]>> \o Tail(s)
  <2>1. Len(s) \in Nat /\ Len(s) # 0
    BY <1>1
  <2>2. Len(Tail(s)) = Len(s) - 1 /\ \A i \in 1 .. (Len(s) - 1) : Tail(s)[i] = s[i + 1]
    BY <1>1, <2>1
  <2> DEFINE t == <<s[1]>> \o Tail(s)
  <2>3. t \in Seq(S) /\ Len(t) = Len(s)
    BY <1>1, <1>2, <2>1, <2>2
  <2>4. ASSUME NEW i \in 1 .. Len(s) PROVE t[i] = s[i]
    <3>1. CASE i = 1
      BY <1>2, <3>1
    <3>2. CASE i # 1
      <4>1. i - 1 \in 1 .. (Len(s) - 1) /\ (i - 1) + 1 = i
        BY <2>1, <3>2
      <4>2. t[i] = Tail(s)[i - 1]
        BY <1>2, <2>1, <2>2, <3>2
      <4>3. QED BY <4>1, <4>2, <2>2
    <3>3. QED BY <3>1, <3>2
  <2> HIDE DEF t
  <2>5. t = s
    BY <1>1, <2>3, <2>4, SeqEqual
  <2>6. QED BY <2>5 DEF t
<1>4. IsSeq(Tail(s)) /\ Range(Tail(s)) \subseteq S
  BY <1>2, SeqIs
<1>5. QED BY <1>2, <1>3, <1>4 DEF S

LEMMA StringsOf ==
  ASSUME NEW v \in Values
  PROVE  v.strings \in Seq(Seq(Pieces)) /\ IsSeq(Included(v))
<1>1. v.strings \in Seq(Seq(Pieces))
  <2>1. CASE v \in [t : {"str"}, strings : [1..1 -> Seq(Pieces)], entries : {<<>>}]
    <3> DEFINE S == Seq(Pieces)
    <3>1. v.strings \in [1 .. 1 -> S] /\ 1 \in Nat
      BY <2>1
    <3> HIDE DEF S
    <3>2. \A n \in Nat : \A x \in [1 .. n -> S] : x \in Seq(S)
      OBVIOUS
    <3>3. v.strings \in Seq(S)
      BY <3>1, <3>2
    <3>4. QED BY <3>3 DEF S
  <2>2. CASE v \in [t : {"list"}, strings : Seq(Seq(Pieces)), entries : {<<>>}]
    BY <2>2
  <2>3. CASE v \in [t : {"dict"}, strings : {<<>>}, entries : Seq([key : Strings, val : FlatValues])]
    <3>1. v.strings = <<>>
      BY <2>3
    <3>2. QED BY <3>1
  <2>4. QED BY <2>1, <2>2, <2>3 DEF Values, FlatValues
<1> DEFINE x == Included(v)
           n == Len(v.strings)
<1>2. x = [i \in 1 .. n |-> v.strings[i][1].to] /\ n \in Nat
  BY <1>1, LenProperties DEF Included
<1>3. DOMAIN x = 1 .. n /\ x = [i \in 1 .. n |-> x[i]]
  BY <1>2
<1> HIDE DEF x, n
<1>4. \A i \in 1 .. n : x[i] \in Range(x)
  BY <1>3 DEF Range
<1>5. x \in [1 .. n -> Range(x)]
  BY <1>3, <1>4
<1>6. IsSeq(x)
  BY <1>2, <1>5 DEF IsSeq
<1>7. QED BY <1>1, <1>6 DEF x

FrameOK(F, fr) ==
  /\ fr = [t |-> fr.t, names |-> fr.names, file |-> fr.file, id |-> fr.id, depth |-> fr.depth]
  /\ IsSeq(fr.names)
  /\ \/ fr.t = "names" /\ fr.depth \in 1 .. (MaxDepth + 1)
     \/ fr.t \in {"load", "merge"} /\ fr.file \in F /\ fr.depth \in 1 .. MaxDepth
FramesOK(F, s) == IsSeq(s) /\ \A fr \in Range(s) : FrameOK(F, fr)

AllFiles == UNION {Range(files[n]) : n \in DOMAIN files}

LEMMA FilesAre ==
  ASSUME files \in FileSets
  PROVE  /\ \A n \in DOMAIN files : files[n] \in Seq(AllFiles) /\ files[n] \in Seq(Range(files[n]))
         /\ \A f \in AllFiles : f.also \in Values /\ IsConfiguration(f.body)
<1>1. \A n \in DOMAIN files : /\ files[n] \in Seq(Range(files[n]))
                              /\ \A f \in Range(files[n]) : f.also \in Values /\ IsConfiguration(f.body)
  BY ConfigsAssumption
<1>2. \A n \in DOMAIN files : Range(files[n]) \subseteq AllFiles
  BY DEF AllFiles
<1>3. \A A, B : A \subseteq B => \A s \in Seq(A) : s \in Seq(B)
  OBVIOUS
<1>4. \A n \in DOMAIN files : files[n] \in Seq(AllFiles)
  BY <1>1, <1>2, <1>3
<1>5. \A f \in AllFiles : \E n \in DOMAIN files : f \in Range(files[n])
  BY DEF AllFiles
<1>6. QED BY <1>1, <1>4, <1>5

LEMMA ValueGood ==
  ASSUME NEW cfg, IsConfiguration(cfg), NEW k \in KeysOf(cfg)
  PROVE  ValueAt(cfg, k) \in GoodValues /\ ValueAt(cfg, k) \in Values
  BY ConfigIs, ValueAtIs, GoodIs

LEMMA ThenIs ==
  ASSUME NEW body, IsConfiguration(body)
  PROVE  IsSeq(Included(Then(body)))
<1>1. List(<<>>) \in Values
  BY DEF List, Values, FlatValues
<1>2. Then(body) \in Values
  BY <1>1, ValueGood DEF Then
<1>3. QED BY <1>2, StringsOf

LEMMA FrameNames ==
  ASSUME NEW F, NEW fr, FrameOK(F, fr), NEW x, IsSeq(x)
  PROVE  LET r == [fr EXCEPT !.names = x]
         IN  FrameOK(F, r) /\ r.t = fr.t /\ r.names = x /\ r.depth = fr.depth
<1>1. ASSUME NEW a, NEW b, NEW c, NEW d, NEW e, fr = [t |-> a, names |-> b, file |-> c, id |-> d, depth |-> e]
      PROVE  [fr EXCEPT !.names = x] = [t |-> a, names |-> x, file |-> c, id |-> d, depth |-> e]
  BY <1>1
<1>2. fr = [t |-> fr.t, names |-> fr.names, file |-> fr.file, id |-> fr.id, depth |-> fr.depth]
  BY DEF FrameOK
<1> DEFINE r == [fr EXCEPT !.names = x]
<1>3. r = [t |-> fr.t, names |-> x, file |-> fr.file, id |-> fr.id, depth |-> fr.depth]
  BY <1>1, <1>2
<1> HIDE DEF r
<1>4. r.t = fr.t /\ r.names = x /\ r.file = fr.file /\ r.id = fr.id /\ r.depth = fr.depth
  BY <1>3
<1>5. FrameOK(F, r)
  BY <1>2, <1>3, <1>4 DEF FrameOK
<1>6. QED BY <1>4, <1>5 DEF r

LEMMA FramesConcat ==
  ASSUME NEW F, NEW a, FramesOK(F, a), NEW b, FramesOK(F, b)
  PROVE  FramesOK(F, a \o b)
  BY SeqConcat DEF FramesOK

LEMMA NamesOK ==
  ASSUME NEW F, NEW names, IsSeq(names), NEW id, NEW depth \in 1 .. (MaxDepth + 1)
  PROVE  FrameOK(F, Names(names, id, depth)) /\ FramesOK(F, <<Names(names, id, depth)>>)
<1>1. FrameOK(F, Names(names, id, depth))
  BY DEF FrameOK, Names
<1>2. QED BY <1>1, SeqOne DEF FramesOK

LEMMA FileFrameOK ==
  ASSUME NEW F, NEW t \in {"load", "merge"}, NEW f \in F, NEW depth \in 1 .. MaxDepth
  PROVE  FrameOK(F, Frame(t, f, depth)) /\ FramesOK(F, <<Frame(t, f, depth)>>)
<1>1. FrameOK(F, Frame(t, f, depth))
  BY SeqOne DEF FrameOK, Frame
<1>2. QED BY <1>1, SeqOne DEF FramesOK

LoadOK ==
  /\ cmd \in Commands /\ files \in FileSets
  /\ IsConfiguration(config)
  /\ FramesOK(AllFiles, todo)
  /\ loaded \in Seq(AllFiles)

LEMMA InitLoad == Init => LoadOK
<1> SUFFICES ASSUME Init PROVE LoadOK
  OBVIOUS
<1> DEFINE e == [key |-> "version", val |-> Str(<<Lit("now")>>)]
<1>1. cmd \in Commands /\ files \in FileSets /\ config = <<e>> /\ loaded = <<>>
  BY DEF Init
<1>2. e \in Entry(GoodValues)
  <2>1. "version" \in Strings /\ "now" \in Strings
    BY ConfigsAssumption
  <2>2. Lit("now") \in Pieces
    BY <2>1 DEF Lit, Pieces
  <2>3. <<Lit("now")>> \in Seq(Pieces)
    BY <2>2
  <2>4. Str(<<Lit("now")>>) \in FlatValues
    <3> DEFINE x == <<Lit("now")>>
    <3>1. x \in Seq(Pieces)
      BY <2>3
    <3> HIDE DEF x
    <3>2. <<x>> \in [1 .. 1 -> Seq(Pieces)]
      BY <3>1
    <3>3. Str(x) \in FlatValues
      BY <3>2 DEF Str, FlatValues
    <3>4. QED BY <3>3 DEF x
  <2>5. QED BY <2>1, <2>4, FlatGood DEF Entry
<1>3. IsConfiguration(config)
  <2> HIDE DEF e
  <2>1. QED BY <1>1, <1>2, DictOne, ConfigIs
<1>4. IsSeq(IF cmd.preset = None THEN cmd.configs \o cmd.mirrors ELSE <<cmd.preset>>)
  <2>1. cmd.configs \in Seq(Strings) /\ cmd.mirrors \in Seq(Strings)
    BY <1>1, ConfigsAssumption
  <2>2. IsSeq(cmd.configs \o cmd.mirrors)
    BY <2>1, SeqIs, SeqConcat
  <2>3. QED BY <2>2, SeqOne
<1>5. FramesOK(AllFiles, todo)
  <2>1. 1 \in 1 .. (MaxDepth + 1)
    BY ConfigsAssumption
  <2>2. todo = <<Names(IF cmd.preset = None THEN cmd.configs \o cmd.mirrors ELSE <<cmd.preset>>, 0, 1)>>
    BY DEF Init
  <2>3. QED BY <2>1, <2>2, <1>4, NamesOK
<1>6. loaded \in Seq(AllFiles)
  BY <1>1
<1>7. QED BY <1>1, <1>3, <1>5, <1>6 DEF LoadOK

(* What is on top of the frames, and below it.                             *)
LEMMA TopIs ==
  ASSUME LoadOK, todo # <<>>
  PROVE  FrameOK(AllFiles, Top) /\ FramesOK(AllFiles, Tail(todo)) /\ todo = <<Top>> \o Tail(todo)
<1>1. IsSeq(todo) /\ \A fr \in Range(todo) : FrameOK(AllFiles, fr)
  BY DEF LoadOK, FramesOK
<1>2. todo[1] \in Range(todo) /\ IsSeq(Tail(todo)) /\ Range(Tail(todo)) \subseteq Range(todo)
      /\ todo = <<todo[1]>> \o Tail(todo)
  BY <1>1, SeqTail
<1>3. QED BY <1>1, <1>2 DEF FramesOK, Top

(* The frames that the files of a name become.                             *)
LoadFrames(s, depth) == [i \in DOMAIN s |-> Frame("load", s[i], depth)]

LEMMA LoadFramesOK ==
  ASSUME NEW F, NEW s \in Seq(F), NEW depth \in 1 .. MaxDepth
  PROVE  /\ FramesOK(F, LoadFrames(s, depth)) /\ Len(LoadFrames(s, depth)) = Len(s)
         /\ \A i \in 1 .. Len(s) : LoadFrames(s, depth)[i] = Frame("load", s[i], depth)
<1> DEFINE x == LoadFrames(s, depth)
           n == Len(s)
<1>1. n \in Nat /\ DOMAIN s = 1 .. n /\ \A i \in 1 .. n : s[i] \in F
  BY LenProperties
<1>2. DOMAIN x = 1 .. n /\ x = [i \in 1 .. n |-> x[i]] /\ \A i \in 1 .. n : x[i] = Frame("load", s[i], depth)
  BY <1>1 DEF LoadFrames
<1>3. \A f \in F : FrameOK(F, Frame("load", f, depth))
  <2>1. "load" \in {"load", "merge"}
    OBVIOUS
  <2>2. QED BY <2>1, FileFrameOK
<1> HIDE DEF x, n
<1>4. \A i \in 1 .. n : x[i] \in Range(x) /\ FrameOK(F, x[i])
  BY <1>1, <1>2, <1>3 DEF Range
<1>5. x \in [1 .. n -> Range(x)]
  BY <1>2, <1>4
<1>6. IsSeq(x) /\ Len(x) = n
  BY <1>1, <1>5 DEF IsSeq
<1>7. \A fr \in Range(x) : \E i \in 1 .. n : fr = x[i]
  BY <1>2 DEF Range
<1>8. FramesOK(F, x)
  BY <1>4, <1>6, <1>7 DEF FramesOK
<1>9. QED BY <1>2, <1>6, <1>8 DEF x, n

LEMMA LoadNextKeeps == LoadOK /\ LoadNext => LoadOK'
<1> SUFFICES ASSUME LoadOK, LoadNext PROVE LoadOK'
  OBVIOUS
<1> DEFINE name == Head(Top.names)
           rest == [Top EXCEPT !.names = Tail(Top.names)]
<1>1. todo # <<>> /\ Top.t = "names" /\ UNCHANGED <<cmd, files, config, loaded>>
  BY DEF LoadNext, Loading
<1>2. FrameOK(AllFiles, Top) /\ FramesOK(AllFiles, Tail(todo))
  BY <1>1, TopIs
<1>3. AllFiles' = AllFiles
  BY <1>1 DEF AllFiles
<1>4. \/ todo' = Tail(todo) \/ todo' = todo
      \/ /\ name \in DOMAIN files /\ Top.depth =< MaxDepth /\ Top.names # <<>>
         /\ todo' = LoadFrames(files[name], Top.depth) \o <<rest>> \o Tail(todo)
  <2>1. CASE Top.names = <<>>
    BY <2>1 DEF LoadNext
  <2>2. CASE Top.names # <<>> /\ (name \notin DOMAIN files \/ files[name] = <<>> \/ Top.depth > MaxDepth)
    BY <2>2 DEF LoadNext
  <2>3. CASE Top.names # <<>> /\ ~(name \notin DOMAIN files \/ files[name] = <<>> \/ Top.depth > MaxDepth)
    <3>1. todo' = LoadFrames(files[name], Top.depth) \o <<rest>> \o Tail(todo)
      BY <2>3 DEF LoadNext, LoadFrames
    <3>2. MaxDepth \in Nat /\ Top.depth \in 1 .. (MaxDepth + 1)
      BY <1>1, <1>2, ConfigsAssumption DEF FrameOK
    <3>3. name \in DOMAIN files /\ Top.depth =< MaxDepth
      BY <2>3, <3>2
    <3> HIDE DEF name, rest
    <3>4. QED BY <2>3, <3>1, <3>3
  <2>4. QED BY <2>1, <2>2, <2>3
<1>5. FramesOK(AllFiles, todo')
  <2>1. CASE todo' = Tail(todo) \/ todo' = todo
    BY <2>1, <1>2 DEF LoadOK
  <2>2. CASE /\ name \in DOMAIN files /\ Top.depth =< MaxDepth /\ Top.names # <<>>
             /\ todo' = LoadFrames(files[name], Top.depth) \o <<rest>> \o Tail(todo)
    <3>1. Top.depth \in 1 .. MaxDepth /\ IsSeq(Top.names) /\ Top.depth \in 1 .. (MaxDepth + 1)
      BY <1>1, <1>2, <2>2, ConfigsAssumption DEF FrameOK
    <3>2. files[name] \in Seq(AllFiles)
      BY <2>2, FilesAre DEF LoadOK
    <3>3. FramesOK(AllFiles, LoadFrames(files[name], Top.depth))
      BY <3>1, <3>2, LoadFramesOK
    <3>4. IsSeq(Tail(Top.names))
      BY <2>2, <3>1, SeqTail
    <3>5. FrameOK(AllFiles, rest)
      BY <1>1, <1>2, <3>4, FrameNames
    <3>6. FramesOK(AllFiles, <<rest>>)
      BY <3>5, SeqOne DEF FramesOK
    <3> HIDE DEF rest, name
    <3>7. QED BY <2>2, <3>3, <3>6, <1>2, FramesConcat
  <2>3. QED BY <1>4, <2>1, <2>2
<1>6. QED BY <1>1, <1>3, <1>5 DEF LoadOK

LEMMA AfterAlsoOK ==
  ASSUME NEW F, NEW f \in F, f.also \in Values, NEW depth \in 1 .. MaxDepth
  PROVE  FramesOK(F, AfterAlso(f, depth))
<1> DEFINE a == <<Names(Included(f.also), 0, depth + 1)>>
           b == <<Frame("merge", f, depth)>>
<1>1. depth + 1 \in 1 .. (MaxDepth + 1)
  BY ConfigsAssumption
<1>2. FramesOK(F, a)
  BY <1>1, StringsOf, NamesOK
<1>3. FramesOK(F, b)
  <2>1. "merge" \in {"load", "merge"}
    OBVIOUS
  <2>2. QED BY <2>1, FileFrameOK
<1>4. AfterAlso(f, depth) = a \o b
  BY DEF AfterAlso
<1> HIDE DEF a, b
<1>5. QED BY <1>2, <1>3, <1>4, FramesConcat

LEMMA LoadFileKeeps == LoadOK /\ LoadFile => LoadOK'
<1> SUFFICES ASSUME LoadOK, LoadFile PROVE LoadOK'
  OBVIOUS
<1>1. todo # <<>> /\ Top.t = "load" /\ UNCHANGED <<cmd, files, config, loaded>>
  BY DEF LoadFile, Loading
<1>2. FrameOK(AllFiles, Top) /\ FramesOK(AllFiles, Tail(todo)) /\ FramesOK(AllFiles, todo)
  BY <1>1, TopIs DEF LoadOK
<1>3. AllFiles' = AllFiles
  BY <1>1 DEF AllFiles
<1>4. Top.file \in AllFiles /\ Top.depth \in 1 .. MaxDepth
  BY <1>1, <1>2 DEF FrameOK
<1>5. Top.file.also \in Values
  BY <1>4, FilesAre DEF LoadOK
<1>6. todo' = todo \/ todo' = AfterAlso(Top.file, Top.depth) \o Tail(todo)
  BY DEF LoadFile
<1>7. FramesOK(AllFiles, todo')
  BY <1>2, <1>4, <1>5, <1>6, AfterAlsoOK, FramesConcat
<1>8. QED BY <1>1, <1>3, <1>7 DEF LoadOK

(* The frames while a list grows under the loop over it.                   *)
Grown(s, more, grows) ==
  [i \in DOMAIN s |-> IF grows /\ shared # 0 /\ s[i].id = shared THEN [s[i] EXCEPT !.names = @ \o more] ELSE s[i]]

MergeId(body, grows) ==
  IF "+then" \in KeysOf(body) /\ Then(body).t = "list" /\ ~grows THEN Len(loaded) + 1 ELSE 0
Grows(body) == Then(body).t = "list" /\ "+then" \in KeysOf(config) /\ Then(config).t = "list"

LEMMA MergeFileIs ==
  ASSUME MergeFile
  PROVE  LET body == Top.file.body
         IN  /\ todo # <<>> /\ Top.t = "merge" /\ pc \in {"preset", "configs"}
             /\ config' = DictMerge(config, body) /\ loaded' = Append(loaded, Top.file)
             /\ UNCHANGED <<cmd, files, orig, script, useDef>>
             /\ \/ /\ pc' = pc
                   /\ todo' = <<Names(Included(Then(body)), MergeId(body, Grows(body)), Top.depth + 1)>>
                                \o Tail(Grown(todo, Included(Then(body)), Grows(body)))
                \/ pc' = "failed" /\ todo' = todo
  BY DEF MergeFile, Loading, Fail, resolving, MergeId, Grown, Grows

LEMMA GrownOK ==
  ASSUME NEW F, NEW s, FramesOK(F, s), NEW more, IsSeq(more), NEW grows
  PROVE  FramesOK(F, Grown(s, more, grows)) /\ (s # <<>> => Grown(s, more, grows) # <<>>)
<1> DEFINE r == Grown(s, more, grows)
           n == Len(s)
<1>1. s \in Seq(Range(s)) /\ n \in Nat /\ DOMAIN s = 1 .. n /\ \A i \in 1 .. n : s[i] \in Range(s)
  <2>1. s \in Seq(Range(s))
    BY DEF FramesOK, IsSeq
  <2>2. QED BY <2>1, LenProperties
<1>2. \A i \in 1 .. n : FrameOK(F, s[i]) /\ IsSeq(s[i].names)
  BY <1>1 DEF FramesOK, FrameOK
<1>3. /\ DOMAIN r = 1 .. n /\ r = [i \in 1 .. n |-> r[i]]
      /\ \A i \in 1 .. n : r[i] = s[i] \/ r[i] = [s[i] EXCEPT !.names = s[i].names \o more]
  BY <1>1 DEF Grown
<1> HIDE DEF r, n
<1>4. ASSUME NEW i \in 1 .. n PROVE FrameOK(F, r[i])
  <2>1. CASE r[i] = s[i]
    BY <2>1, <1>2
  <2>2. CASE r[i] = [s[i] EXCEPT !.names = s[i].names \o more]
    <3>1. IsSeq(s[i].names \o more)
      BY <1>2, SeqConcat
    <3>2. FrameOK(F, [s[i] EXCEPT !.names = s[i].names \o more])
      BY <3>1, <1>2, FrameNames
    <3>3. QED BY <2>2, <3>2
  <2>3. QED BY <1>3, <2>1, <2>2
<1>5. \A i \in 1 .. n : r[i] \in Range(r)
  BY <1>3 DEF Range
<1>6. r \in [1 .. n -> Range(r)]
  BY <1>3, <1>5
<1>7. r \in Seq(Range(r)) /\ Len(r) = n
  BY <1>1, <1>6
<1>8. \A fr \in Range(r) : \E i \in 1 .. n : fr = r[i]
  BY <1>3 DEF Range
<1>9. FramesOK(F, r)
  BY <1>4, <1>7, <1>8 DEF FramesOK, IsSeq
<1>10. s # <<>> => r # <<>>
  <2>1. s # <<>> => n # 0
    BY <1>1 DEF n
  <2>2. Len(<<>>) = 0
    OBVIOUS
  <2>3. QED BY <1>7, <2>1, <2>2
<1>11. QED BY <1>9, <1>10 DEF r

LEMMA MergeFileKeeps == LoadOK /\ MergeFile => LoadOK'
<1> SUFFICES ASSUME LoadOK, MergeFile PROVE LoadOK'
  OBVIOUS
<1> DEFINE body == Top.file.body
           more == Included(Then(body))
           id == MergeId(body, Grows(body))
           grown == Grown(todo, more, Grows(body))
<1>1. /\ todo # <<>> /\ Top.t = "merge"
      /\ config' = DictMerge(config, body) /\ loaded' = Append(loaded, Top.file)
      /\ UNCHANGED <<cmd, files>>
      /\ todo' = todo \/ todo' = <<Names(more, id, Top.depth + 1)>> \o Tail(grown)
  BY MergeFileIs
<1> HIDE DEF id, grown
<1>2. FrameOK(AllFiles, Top) /\ FramesOK(AllFiles, todo)
  BY <1>1, TopIs DEF LoadOK
<1>3. AllFiles' = AllFiles
  BY <1>1 DEF AllFiles
<1>4. Top.file \in AllFiles /\ Top.depth \in 1 .. MaxDepth
  BY <1>1, <1>2 DEF FrameOK
<1>5. IsConfiguration(body) /\ IsConfiguration(config)
  BY <1>4, FilesAre DEF LoadOK
<1>6. IsConfiguration(config')
  BY <1>1, <1>5, DictMergeIs DEF Merged
<1>7. loaded' \in Seq(AllFiles)
  BY <1>1, <1>4, AppendProperties DEF LoadOK
<1>8. IsSeq(more)
  BY <1>5, ThenIs
<1> HIDE DEF more, body
<1>9. FramesOK(AllFiles, grown) /\ grown # <<>>
  BY <1>1, <1>2, <1>8, GrownOK DEF grown
<1>10. FramesOK(AllFiles, Tail(grown))
  BY <1>9, SeqTail DEF FramesOK
<1>11. FramesOK(AllFiles, <<Names(more, id, Top.depth + 1)>>)
  <2>1. Top.depth + 1 \in 1 .. (MaxDepth + 1)
    BY <1>4, ConfigsAssumption
  <2>2. QED BY <2>1, <1>8, NamesOK
<1>12. FramesOK(AllFiles, todo')
  BY <1>1, <1>2, <1>10, <1>11, FramesConcat
<1>13. QED BY <1>1, <1>3, <1>6, <1>7, <1>12 DEF LoadOK

LEMMA PresetLoadedKeeps == LoadOK /\ PresetLoaded => LoadOK'
<1> SUFFICES ASSUME LoadOK, PresetLoaded PROVE LoadOK'
  OBVIOUS
<1> DEFINE package == IF "package" \in KeysOf(config) THEN ValueAt(config, "package") ELSE Str(<<>>)
           more == IF package.t = "dict" /\ "configs" \in KeysOf(package.entries)
                   THEN Included(ValueAt(package.entries, "configs")) ELSE <<>>
<1>1. /\ UNCHANGED <<cmd, files, config, loaded>>
      /\ todo' = todo \/ (package.t = "dict" /\ todo' = <<Names(cmd.configs \o more \o cmd.mirrors, 0, 1)>>)
  BY DEF PresetLoaded
<1>2. AllFiles' = AllFiles
  BY <1>1 DEF AllFiles
<1>3. package.t = "dict" => package \in GoodValues
  <2>1. Str(<<>>).t = "str"
    BY DEF Str
  <2>2. QED BY <2>1, ValueGood DEF LoadOK
<1> HIDE DEF package
<1>4. package.t = "dict" => IsSeq(more)
  <2>1. CASE package.t = "dict" /\ "configs" \in KeysOf(package.entries)
    <3>1. DictOf(FlatValues, package.entries)
      BY <1>3, <2>1, GoodIs
    <3>2. ValueAt(package.entries, "configs") \in FlatValues
      BY <3>1, <2>1, ValueAtIs
    <3>3. ValueAt(package.entries, "configs") \in Values
      BY <3>2, FlatIs
    <3>4. QED BY <3>3, <2>1, StringsOf
  <2>2. CASE ~(package.t = "dict" /\ "configs" \in KeysOf(package.entries))
    BY <2>2, SeqOne
  <2>3. QED BY <2>1, <2>2
<1> HIDE DEF more
<1>5. IsSeq(cmd.configs) /\ IsSeq(cmd.mirrors)
  <2>1. cmd.configs \in Seq(Strings) /\ cmd.mirrors \in Seq(Strings)
    BY ConfigsAssumption DEF LoadOK
  <2>2. QED BY <2>1, SeqIs
<1>6. package.t = "dict" => IsSeq(cmd.configs \o more \o cmd.mirrors)
  BY <1>4, <1>5, SeqConcat
<1>7. 1 \in 1 .. (MaxDepth + 1)
  BY ConfigsAssumption
<1>8. FramesOK(AllFiles, todo')
  BY <1>1, <1>6, <1>7, NamesOK DEF LoadOK
<1>9. QED BY <1>1, <1>2, <1>8 DEF LoadOK

LEMMA PopulateIs ==
  ASSUME LoadOK, Populate
  PROVE  /\ pc = "configs" /\ todo = <<>>
         /\ UNCHANGED <<cmd, files, todo, shared, loaded, script, useDef>>
         /\ \/ /\ pc' = "populated" /\ orig' = config' /\ IsConfiguration(config')
               /\ KeysOf(config') = KeysOf(config) \cup KeysOf(Paths0)
               /\ \A k \in KeysOf(config) \ KeysOf(Paths0) : ValueAt(config', k) = ValueAt(config, k)
            \/ pc' = "failed" /\ orig' = orig /\ config' = config
<1> DEFINE joined == [k \in Common(config, Paths0) |-> ValueAt(Paths0, k)]
<1>1. /\ pc = "configs" /\ todo = <<>>
      /\ UNCHANGED <<cmd, files, todo, shared, loaded, script, useDef>>
      /\ \/ pc' = "populated" /\ orig' = config' /\ config' = Overlay(joined, config, Paths0)
         \/ pc' = "failed" /\ orig' = orig /\ config' = config
  BY DEF Populate, Fail
<1>2. DictOf(GoodValues, config) /\ DictOf(GoodValues, Paths0)
  BY ConfigIs, ConfigsAssumption DEF LoadOK
<1>3. \A k \in Common(config, Paths0) : joined[k] \in GoodValues
  BY <1>2, ValueAtIs DEF Common
<1> HIDE DEF joined
<1>4. /\ DictOf(GoodValues, Overlay(joined, config, Paths0))
      /\ Overlays(joined, config, Paths0, Overlay(joined, config, Paths0))
  BY <1>2, <1>3, OverlayIs
<1>5. QED BY <1>1, <1>4, ConfigIs DEF Overlays

LEMMA LoadKeeps == LoadOK /\ [Next]_vars => LoadOK'
<1> SUFFICES ASSUME LoadOK, [Next]_vars PROVE LoadOK'
  OBVIOUS
<1>1. CASE LoadNext
  BY <1>1, LoadNextKeeps
<1>2. CASE LoadFile
  BY <1>2, LoadFileKeeps
<1>3. CASE MergeFile
  BY <1>3, MergeFileKeeps
<1>4. CASE PresetLoaded
  BY <1>4, PresetLoadedKeeps
<1>5. CASE Populate
  BY <1>5, PopulateIs DEF LoadOK, AllFiles
<1>6. CASE ResolveSubscript \/ ParseNode \/ NextPass \/ ParseRaises \/ AddRootCmdline \/ Ended \/ UNCHANGED vars
  BY <1>6 DEF ResolveSubscript, ParseNode, NextPass, ParseRaises, AddRootCmdline, Ended, LoadOK, AllFiles,
              loading, resolving, vars
<1>7. QED BY <1>1, <1>2, <1>3, <1>4, <1>5, <1>6 DEF Next, Step

-----------------------------------------------------------------------------
(* What is replaced in the configuration.                                  *)

Good(nodes) == ~Ill(nodes) /\ Resolvable(nodes, TRUE) = Paths(nodes)

OrigOK ==
  /\ pc \in {"preset", "configs"} => orig = <<>>
  /\ pc \in {"populated", "resolve", "ready"} => orig = config
  /\ pc \in {"added", "again", "done"} => orig = DictMerge(config, CmdlineAdded)

ValuesOK ==
  /\ useDef \in BOOLEAN
  /\ OrigOK
  /\ pc \in {"resolve", "again", "ready", "done"} => script.nodes = Nodes(orig) /\ ScriptOK(script, useDef)
  /\ pc \in {"ready", "done"} => script.resolved = Paths(Nodes(orig))
  /\ pc = "failed" /\ orig # <<>> => script.resolved = Paths(Nodes(orig)) \/ ~Good(Nodes(orig))

LEMMA CmdlineIsConfiguration == IsConfiguration(CmdlineAdded)
<1> DEFINE e == [key |-> "cmdline", val |-> List(RootCmdline)]
           v == Dict(<<e>>)
           k == [key |-> "kernel", val |-> v]
<1>1. "kernel" \in Strings /\ "cmdline" \in Strings /\ RootCmdline \in Seq(Seq(Pieces))
  BY ConfigsAssumption
<1>2. e \in Entry(FlatValues)
  BY <1>1 DEF Entry, List, FlatValues
<1> HIDE DEF e
<1>3. v \in GoodValues
  BY <1>2, DictOne, DictGood
<1> HIDE DEF v
<1>4. k \in Entry(GoodValues)
  BY <1>1, <1>3 DEF Entry
<1>5. CmdlineAdded = <<k>>
  BY DEF CmdlineAdded, v, e
<1> HIDE DEF k
<1>6. QED BY <1>4, <1>5, DictOne, ConfigIs

LEMMA OrigIsTree ==
  ASSUME NumeralsDiffer, LoadOK, OrigOK,
         pc \in {"populated", "resolve", "ready", "added", "again", "done"}
  PROVE  IsConfiguration(orig) /\ IsTree(Nodes(orig))
<1>1. IsConfiguration(config)
  BY DEF LoadOK
<1>2. IsConfiguration(DictMerge(config, CmdlineAdded))
  BY <1>1, CmdlineIsConfiguration, DictMergeIs DEF Merged
<1>3. IsConfiguration(orig)
  BY <1>1, <1>2 DEF OrigOK
<1>4. QED BY <1>3, NodesTree

LEMMA InitValues == Init => ValuesOK
<1> SUFFICES ASSUME Init PROVE ValuesOK
  OBVIOUS
<1>1. pc \in {"preset", "configs"} /\ orig = <<>> /\ useDef = FALSE
  BY DEF Init
<1>2. QED BY <1>1 DEF ValuesOK, OrigOK

LEMMA LoadingKeepsValues ==
  ValuesOK /\ (LoadNext \/ LoadFile \/ MergeFile \/ PresetLoaded) => ValuesOK'
<1> SUFFICES ASSUME ValuesOK, LoadNext \/ LoadFile \/ MergeFile \/ PresetLoaded PROVE ValuesOK'
  OBVIOUS
<1>1. pc \in {"preset", "configs"} /\ UNCHANGED <<orig, script, useDef>>
      /\ pc' \in {pc, "failed", "configs"}
  <2>1. CASE LoadNext
    BY <2>1 DEF LoadNext, Loading, Fail, resolving
  <2>2. CASE LoadFile
    BY <2>2 DEF LoadFile, Loading, Fail, resolving
  <2>3. CASE MergeFile
    BY <2>3, MergeFileIs
  <2>4. CASE PresetLoaded
    BY <2>4 DEF PresetLoaded, Fail, resolving
  <2>5. QED BY <2>1, <2>2, <2>3, <2>4
<1>2. orig = <<>> /\ useDef \in BOOLEAN
  BY <1>1 DEF ValuesOK, OrigOK
<1>3. pc' \in {"preset", "configs", "failed"}
  BY <1>1
<1>4. QED BY <1>1, <1>2, <1>3 DEF ValuesOK, OrigOK

LEMMA PopulateKeepsValues == LoadOK /\ ValuesOK /\ Populate => ValuesOK'
<1> SUFFICES ASSUME LoadOK, ValuesOK, Populate PROVE ValuesOK'
  OBVIOUS
<1>1. /\ pc = "configs" /\ UNCHANGED <<script, useDef>>
      /\ (pc' = "populated" /\ orig' = config') \/ (pc' = "failed" /\ orig' = orig)
  BY PopulateIs
<1>2. orig = <<>> /\ useDef \in BOOLEAN
  BY <1>1 DEF ValuesOK, OrigOK
<1>3. QED BY <1>1, <1>2 DEF ValuesOK, OrigOK

LEMMA ResolveKeepsValues == NumeralsDiffer /\ LoadOK /\ ValuesOK /\ ResolveSubscript => ValuesOK'
<1> SUFFICES ASSUME NumeralsDiffer, LoadOK, ValuesOK, ResolveSubscript PROVE ValuesOK'
  OBVIOUS
<1>1. /\ UNCHANGED <<orig, config>> /\ script' = StartScript(Nodes(orig)) /\ useDef' = FALSE
      /\ (pc = "populated" /\ pc' = "resolve") \/ (pc = "added" /\ pc' = "again")
  BY DEF ResolveSubscript, loading
<1>2. IsTree(Nodes(orig))
  BY <1>1, OrigIsTree DEF ValuesOK
<1>3. ScriptOK(script', FALSE) /\ script'.nodes = Nodes(orig)
  BY <1>1, <1>2, StartOK DEF StartScript
<1>4. ScriptOK(script, useDef)' /\ (script.nodes = Nodes(orig))'
  BY <1>1, <1>3
<1>5. OrigOK'
  BY <1>1 DEF OrigOK, ValuesOK
<1>6. QED BY <1>1, <1>4, <1>5 DEF ValuesOK

LEMMA ParseKeepsValues == ValuesOK /\ ParseNode => ValuesOK'
<1> SUFFICES ASSUME ValuesOK, ParseNode PROVE ValuesOK'
  OBVIOUS
<1>1. /\ pc \in {"resolve", "again"} /\ ~script.raised /\ script.at =< Len(script.nodes)
      /\ script' = [ProcessOne(useDef, script, script.nodes[script.at]) EXCEPT !.at = @ + 1]
      /\ UNCHANGED <<config, orig, useDef, pc>>
  BY DEF ParseNode, Parsing, loading
<1>2. script.nodes = Nodes(orig) /\ ScriptOK(script, useDef) /\ useDef \in BOOLEAN
  BY <1>1 DEF ValuesOK
<1>3. script'.nodes = script.nodes /\ ScriptOK(script', useDef)
  BY <1>1, <1>2, ParseKeeps
<1>4. ScriptOK(script, useDef)' /\ (script.nodes = Nodes(orig))'
  BY <1>1, <1>2, <1>3
<1>5. OrigOK'
  BY <1>1 DEF OrigOK, ValuesOK
<1>6. QED BY <1>1, <1>2, <1>4, <1>5 DEF ValuesOK

LEMMA NextPassKeepsValues == ValuesOK /\ NextPass => ValuesOK'
<1> SUFFICES ASSUME ValuesOK, NextPass PROVE ValuesOK'
  OBVIOUS
<1>1. /\ pc \in {"resolve", "again"} /\ ~script.raised /\ script.at > Len(script.nodes)
      /\ UNCHANGED <<config, orig>>
  BY DEF NextPass, Parsing, loading
<1>2. script.nodes = Nodes(orig) /\ ScriptOK(script, useDef) /\ useDef \in BOOLEAN
  BY <1>1 DEF ValuesOK
<1>3. CASE Complete
  <2>1. script' = script /\ useDef' = useDef /\ (pc' = IF pc = "resolve" THEN "ready" ELSE "done")
    BY <1>2, <1>3 DEF NextPass
  <2>2. script.resolved = Paths(Nodes(orig))
    BY <1>1, <1>2, <1>3, CompleteIs DEF Complete
  <2>3. (pc = "resolve" /\ pc' = "ready") \/ (pc = "again" /\ pc' = "done")
    BY <1>1, <2>1
  <2>4. OrigOK'
    BY <1>1, <2>3 DEF OrigOK, ValuesOK
  <2>5. ScriptOK(script, useDef)' /\ (script.nodes = Nodes(orig))' /\ (script.resolved = Paths(Nodes(orig)))'
    BY <1>1, <1>2, <2>1, <2>2
  <2>6. QED BY <1>2, <2>1, <2>3, <2>4, <2>5 DEF ValuesOK
<1>4. CASE ~Complete
  <2>1. script' = StartPass(script) /\ useDef' = (useDef \/ TakeDefaults(script))
        /\ pc' = IF script.count = 0 /\ useDef THEN "failed" ELSE pc
    BY <1>4 DEF NextPass
  <2>2. StartPass(script).nodes = script.nodes /\ ScriptOK(StartPass(script), useDef \/ TakeDefaults(script))
    BY <1>1, <1>2, PassKeeps
  <2>3. ScriptOK(script, useDef)' /\ (script.nodes = Nodes(orig))' /\ useDef' \in BOOLEAN
    <3>1. TakeDefaults(script) \in BOOLEAN
      BY DEF TakeDefaults
    <3>2. QED BY <1>1, <1>2, <2>1, <2>2, <3>1
  <2>4. CASE script.count = 0 /\ useDef
    <3>1. ~script.complete /\ useDef = TRUE
      BY <1>4, <2>4, <1>2 DEF Complete
    <3>2. ~Good(Nodes(orig))
      BY <1>1, <1>2, <2>4, <3>1, StuckIs DEF Good
    <3>3. pc' = "failed" /\ ~Good(Nodes(orig))'
      BY <1>1, <2>1, <2>4, <3>2
    <3>4. QED BY <2>3, <3>3 DEF ValuesOK, OrigOK
  <2>5. CASE ~(script.count = 0 /\ useDef)
    <3>1. pc' = pc
      BY <2>1, <2>5
    <3>2. OrigOK'
      BY <1>1, <3>1 DEF OrigOK, ValuesOK
    <3>3. QED BY <1>1, <2>3, <3>1, <3>2 DEF ValuesOK
  <2>6. QED BY <2>4, <2>5
<1>5. QED BY <1>3, <1>4

LEMMA RaisesKeepsValues == ValuesOK /\ ParseRaises => ValuesOK'
<1> SUFFICES ASSUME ValuesOK, ParseRaises PROVE ValuesOK'
  OBVIOUS
<1>1. pc \in {"resolve", "again"} /\ script.raised /\ pc' = "failed" /\ UNCHANGED <<orig, script, useDef>>
  BY DEF ParseRaises, Fail, resolving
<1>2. Ill(Nodes(orig)) /\ useDef \in BOOLEAN
  BY <1>1 DEF ValuesOK, ScriptOK
<1>3. ~Good(Nodes(orig))'
  BY <1>1, <1>2 DEF Good
<1>4. QED BY <1>1, <1>2, <1>3 DEF ValuesOK, OrigOK

LEMMA AddKeepsValues == ValuesOK /\ AddRootCmdline => ValuesOK'
<1> SUFFICES ASSUME ValuesOK, AddRootCmdline PROVE ValuesOK'
  OBVIOUS
<1>1. /\ pc = "ready" /\ UNCHANGED <<config, script, useDef>>
      /\ \/ pc' = "failed" /\ orig' = orig
         \/ pc' = "added" /\ orig' = DictMerge(orig, CmdlineAdded)
  BY DEF AddRootCmdline, Fail, loading, CmdlineSource
<1>2. orig = config /\ script.resolved = Paths(Nodes(orig)) /\ useDef \in BOOLEAN
  BY <1>1 DEF ValuesOK, OrigOK
<1>3. CASE pc' = "failed" /\ orig' = orig
  <2>1. (script.resolved = Paths(Nodes(orig)))'
    BY <1>1, <1>2, <1>3
  <2>2. QED BY <1>1, <1>2, <1>3, <2>1 DEF ValuesOK, OrigOK
<1>4. CASE pc' = "added" /\ orig' = DictMerge(orig, CmdlineAdded)
  <2>1. (orig = DictMerge(config, CmdlineAdded))'
    BY <1>1, <1>2, <1>4
  <2>2. QED BY <1>1, <1>2, <1>4, <2>1 DEF ValuesOK, OrigOK
<1>5. QED BY <1>1, <1>3, <1>4

LEMMA ValuesKeep == NumeralsDiffer /\ LoadOK /\ ValuesOK /\ [Next]_vars => ValuesOK'
<1> SUFFICES ASSUME NumeralsDiffer, LoadOK, ValuesOK, [Next]_vars PROVE ValuesOK'
  OBVIOUS
<1>1. CASE LoadNext \/ LoadFile \/ MergeFile \/ PresetLoaded
  BY <1>1, LoadingKeepsValues
<1>2. CASE Populate
  BY <1>2, PopulateKeepsValues
<1>3. CASE ResolveSubscript
  BY <1>3, ResolveKeepsValues
<1>4. CASE ParseNode
  BY <1>4, ParseKeepsValues
<1>5. CASE NextPass
  BY <1>5, NextPassKeepsValues
<1>6. CASE ParseRaises
  BY <1>6, RaisesKeepsValues
<1>7. CASE AddRootCmdline
  BY <1>7, AddKeepsValues
<1>8. CASE Ended \/ UNCHANGED vars
  <2>1. UNCHANGED <<config, orig, script, useDef, pc>>
    BY <1>8 DEF Ended, vars
  <2>2. OrigOK'
    BY <2>1 DEF OrigOK, ValuesOK
  <2>3. QED BY <2>1, <2>2 DEF ValuesOK
<1>9. QED BY <1>1, <1>2, <1>3, <1>4, <1>5, <1>6, <1>7, <1>8 DEF Next, Step

(* The references, once they are replaced: both properties of Configs from *)
(* the invariants above.                                                   *)
LEMMA ValuesAgree ==
  ASSUME ValuesOK, pc \in {"ready", "done"}
  PROVE  /\ Wanted = orig /\ Good(Nodes(orig))
         /\ \A x \in Range(Nodes(orig)) : x.t = "str" =>
               AgreesWith(Nodes(orig), script.text, Resolvable(Nodes(orig), FALSE), Resolvable(Nodes(orig), TRUE), x)
<1>1. /\ useDef \in BOOLEAN /\ ScriptOK(script, useDef)
      /\ script.nodes = Nodes(orig) /\ script.resolved = Paths(script.nodes)
  BY DEF ValuesOK
<1>2. Wanted = orig
  BY DEF ValuesOK, OrigOK, Wanted
<1>3. QED BY <1>1, <1>2, ResolvedIsGood DEF Good

LEMMA NoneIsReplacedWrong == LoadOK /\ ValuesOK => ResolvableIsResolved
<1> SUFFICES ASSUME LoadOK, ValuesOK PROVE ResolvableIsResolved
  OBVIOUS
<1>1. pc \in {"ready", "done"} => Good(Nodes(orig))
  BY ValuesAgree
<1>2. pc = "failed" /\ orig # <<>> => script.resolved = Paths(Nodes(orig)) \/ ~Good(Nodes(orig))
  BY DEF ValuesOK
<1>3. QED BY <1>1, <1>2 DEF ResolvableIsResolved, Good

LEMMA AllReplacedAgree == LoadOK /\ ValuesOK => ReplacedAgree
<1> SUFFICES ASSUME LoadOK, ValuesOK, pc \in {"ready", "done"}, NEW i \in DOMAIN Nodes(orig), Nodes(orig)[i].t = "str"
    PROVE  AgreesWith(Nodes(orig), script.text, Resolvable(Nodes(orig), FALSE), Resolvable(Nodes(orig), TRUE), Nodes(orig)[i])
  BY ValuesAgree DEF ReplacedAgree
<1>1. Nodes(orig)[i] \in Range(Nodes(orig))
  BY DEF Range
<1>2. QED BY <1>1, ValuesAgree

-----------------------------------------------------------------------------
(* What the merged files make of a value: see LoadedInOrder.               *)

HavingIn(L, key) == {i \in DOMAIN L : key \in KeysOf(L[i].body)}
ValueOf(L, i, key) == ValueAt(L[i].body, key)
LastIn(L, key) == CHOOSE i \in HavingIn(L, key) : \A k \in HavingIn(L, key) : k =< i
RunIn(L, key) ==
  {i \in HavingIn(L, key) : \A k \in HavingIn(L, key) :
      k >= i => ValueOf(L, k, key).t = ValueOf(L, LastIn(L, key), key).t}
StringsIn(L, key, run) == [i \in DOMAIN L |-> IF i \in run THEN ValueOf(L, i, key).strings ELSE <<>>]
KeysIn(L, key, run) == UNION {KeysOf(ValueOf(L, i, key).entries) : i \in run}

FromFiles(L, key, v) ==
  LET last == ValueOf(L, LastIn(L, key), key)
  IN  /\ v.t = last.t
      /\ last.t = "str" => v = last
      /\ last.t = "list" => v.strings = FlattenSeq(StringsIn(L, key, RunIn(L, key)))
      /\ last.t = "dict" => KeysOf(v.entries) = KeysIn(L, key, RunIn(L, key))

Made(L, cfg) ==
  /\ \A i \in DOMAIN L : KeysOf(L[i].body) \subseteq KeysOf(cfg)
  /\ \A key \in KeysOf(cfg) :
        IF HavingIn(L, key) = {} THEN key = "version" /\ ValueAt(cfg, key).t = "str"
        ELSE FromFiles(L, key, ValueAt(cfg, key))

Bodies(F) == \A f \in F : IsConfiguration(f.body)

LEMMA GreatestIndex ==
  ASSUME NEW n \in Nat, NEW I \in SUBSET (1 .. n), I # {}
  PROVE  \E x \in I : \A y \in I : y =< x
<1> DEFINE J == {n - i : i \in I}
<1>1. \A i \in 1 .. n : n - i \in Nat /\ i \in Nat
  OBVIOUS
<1>2. \A i \in I : n - i \in J /\ i \in Nat
  BY <1>1
<1>3. \A j \in J : \E i \in I : j = n - i
  OBVIOUS
<1> HIDE DEF J
<1>4. J \in SUBSET Nat /\ J # {}
  BY <1>1, <1>2, <1>3
<1>5. PICK j \in J : \A k \in J : j =< k
  BY <1>4, LeastIndex
<1>6. PICK x \in I : j = n - x
  BY <1>3
<1>7. \A y \in I : y =< x
  BY <1>2, <1>5, <1>6
<1>8. QED BY <1>7

LEMMA LastInIs ==
  ASSUME NEW F, NEW L \in Seq(F), NEW key, HavingIn(L, key) # {}
  PROVE  LastIn(L, key) \in HavingIn(L, key) /\ \A k \in HavingIn(L, key) : k =< LastIn(L, key)
<1>1. Len(L) \in Nat /\ DOMAIN L = 1 .. Len(L)
  BY LenProperties
<1>2. HavingIn(L, key) \in SUBSET (1 .. Len(L))
  BY <1>1 DEF HavingIn
<1>3. \E x \in HavingIn(L, key) : \A y \in HavingIn(L, key) : y =< x
  BY <1>1, <1>2, GreatestIndex
<1>4. QED BY <1>3 DEF LastIn

(* One more file: what is known of the others stays the same.              *)
LEMMA OneMore ==
  ASSUME NEW F, NEW L \in Seq(F), NEW f \in F
  PROVE  LET n == Len(L)
             M == Append(L, f)
         IN  /\ n \in Nat /\ DOMAIN L = 1 .. n /\ DOMAIN M = 1 .. (n + 1) /\ M \in Seq(F)
             /\ M[n + 1] = f /\ \A i \in 1 .. n : M[i] = L[i] /\ L[i] \in F
<1>1. QED BY AppendProperties, LenProperties

LEMMA HavingSteps ==
  ASSUME NEW F, NEW L \in Seq(F), NEW f \in F, NEW key
  PROVE  LET n == Len(L)
             M == Append(L, f)
         IN  /\ HavingIn(L, key) \subseteq 1 .. n
             /\ HavingIn(M, key) = HavingIn(L, key) \cup (IF key \in KeysOf(f.body) THEN {n + 1} ELSE {})
             /\ ValueOf(M, n + 1, key) = ValueAt(f.body, key)
             /\ \A i \in 1 .. n : ValueOf(M, i, key) = ValueOf(L, i, key)
<1> DEFINE n == Len(L)
           M == Append(L, f)
<1>1. /\ n \in Nat /\ DOMAIN L = 1 .. n /\ DOMAIN M = 1 .. (n + 1)
      /\ M[n + 1] = f /\ \A i \in 1 .. n : M[i] = L[i]
  BY OneMore
<1> HIDE DEF n, M
<1>2. \A i : i \in 1 .. (n + 1) <=> i \in 1 .. n \/ i = n + 1
  BY <1>1
<1>3. n + 1 \notin 1 .. n
  BY <1>1
<1>4. HavingIn(L, key) \subseteq 1 .. n
  BY <1>1 DEF HavingIn
<1>5. HavingIn(M, key) = HavingIn(L, key) \cup (IF key \in KeysOf(f.body) THEN {n + 1} ELSE {})
  BY <1>1, <1>2, <1>3 DEF HavingIn
<1>6. QED BY <1>1, <1>4, <1>5 DEF ValueOf, n, M

LEMMA OtherKeys ==
  ASSUME NEW F, NEW L \in Seq(F), NEW f \in F, NEW key, key \notin KeysOf(f.body), HavingIn(L, key) # {}
  PROVE  LET M == Append(L, f)
         IN  /\ ValueOf(M, LastIn(M, key), key) = ValueOf(L, LastIn(L, key), key)
             /\ RunIn(M, key) = RunIn(L, key)
<1> DEFINE n == Len(L)
           M == Append(L, f)
<1>1. /\ HavingIn(M, key) = HavingIn(L, key) \cup (IF key \in KeysOf(f.body) THEN {n + 1} ELSE {})
      /\ HavingIn(L, key) \subseteq 1 .. n
      /\ \A i \in 1 .. n : ValueOf(M, i, key) = ValueOf(L, i, key)
  BY HavingSteps
<1> HIDE DEF n, M
<1>2. HavingIn(M, key) = HavingIn(L, key)
  BY <1>1
<1>3. LastIn(M, key) = LastIn(L, key)
  BY <1>2 DEF LastIn
<1>4. LastIn(L, key) \in 1 .. n
  BY <1>1, LastInIs
<1>5. ValueOf(M, LastIn(M, key), key) = ValueOf(L, LastIn(L, key), key)
  BY <1>1, <1>3, <1>4
<1>6. RunIn(M, key) = RunIn(L, key)
  BY <1>1, <1>5, <1>2 DEF RunIn
<1>7. QED BY <1>5, <1>6 DEF M

LEMMA ItsKeys ==
  ASSUME NEW F, NEW L \in Seq(F), NEW f \in F, NEW key \in KeysOf(f.body)
  PROVE  LET n == Len(L)
             M == Append(L, f)
             new == ValueAt(f.body, key)
             old == ValueOf(L, LastIn(L, key), key)
         IN  /\ ValueOf(M, LastIn(M, key), key) = new
             /\ RunIn(M, key) = IF HavingIn(L, key) # {} /\ old.t = new.t THEN RunIn(L, key) \cup {n + 1} ELSE {n + 1}
             /\ RunIn(L, key) \subseteq 1 .. n
<1> DEFINE n == Len(L)
           M == Append(L, f)
           new == ValueAt(f.body, key)
           old == ValueOf(L, LastIn(L, key), key)
           H == HavingIn(L, key)
<1>1. /\ H \subseteq 1 .. n /\ HavingIn(M, key) = H \cup {n + 1} /\ ValueOf(M, n + 1, key) = new
      /\ \A i \in 1 .. n : ValueOf(M, i, key) = ValueOf(L, i, key)
  BY HavingSteps
<1>2. n \in Nat /\ M \in Seq(F)
  BY OneMore
<1> HIDE DEF n, M, new, old
<1>3. LastIn(M, key) = n + 1
  <2>1. HavingIn(M, key) # {}
    BY <1>1
  <2>2. LastIn(M, key) \in H \cup {n + 1} /\ \A k \in H \cup {n + 1} : k =< LastIn(M, key)
    BY <1>1, <1>2, <2>1, LastInIs
  <2>3. LastIn(M, key) = n + 1 \/ (LastIn(M, key) \in 1 .. n /\ n + 1 =< LastIn(M, key))
    BY <1>1, <2>2
  <2>4. QED BY <1>2, <2>3
<1>4. RunIn(M, key) = {i \in H \cup {n + 1} : \A k \in H \cup {n + 1} : k >= i => ValueOf(M, k, key).t = new.t}
  BY <1>1, <1>3 DEF RunIn
<1>5. n + 1 \in RunIn(M, key)
  BY <1>1, <1>2, <1>4
<1>6. RunIn(L, key) = {i \in H : \A k \in H : k >= i => ValueOf(L, k, key).t = old.t}
  BY DEF RunIn, old
<1>7. \A i \in H : i \in RunIn(M, key) <=> \A k \in H : k >= i => ValueOf(L, k, key).t = new.t
  BY <1>1, <1>2, <1>4
<1>8. CASE H # {} /\ old.t = new.t
  <2>1. \A i \in H : i \in RunIn(M, key) <=> i \in RunIn(L, key)
    BY <1>6, <1>7, <1>8
  <2>2. RunIn(M, key) = RunIn(L, key) \cup {n + 1}
    BY <1>4, <1>5, <1>6, <2>1
  <2>3. QED BY <1>1, <1>3, <1>6, <1>8, <2>2 DEF n, M, new, old
<1>9. CASE H # {} /\ old.t # new.t
  <2>1. LastIn(L, key) \in H /\ \A i \in H : i =< LastIn(L, key)
    BY <1>9, LastInIs
  <2>2. \A i \in H : LastIn(L, key) >= i
    BY <1>1, <1>2, <2>1
  <2>3. \A i \in H : i \notin RunIn(M, key)
    BY <1>7, <1>9, <2>1, <2>2 DEF old
  <2>4. RunIn(M, key) = {n + 1}
    BY <1>4, <1>5, <2>3
  <2>5. QED BY <1>1, <1>3, <1>6, <1>9, <2>4 DEF n, M, new, old
<1>10. CASE H = {}
  <2>1. RunIn(M, key) = {n + 1}
    BY <1>4, <1>5, <1>10
  <2>2. QED BY <1>1, <1>3, <1>6, <1>10, <2>1 DEF n, M, new, old
<1>11. QED BY <1>8, <1>9, <1>10

LEMMA StringsNone ==
  ASSUME NEW F, NEW L \in Seq(F), NEW key
  PROVE  FlattenSeq(StringsIn(L, key, {})) = <<>> /\ StringsIn(L, key, {}) \in Seq(Seq(Seq(Pieces)))
<1> DEFINE n == Len(L)
           s == StringsIn(L, key, {})
           S == Seq(Pieces)
<1>1. n \in Nat /\ DOMAIN L = 1 .. n
  BY LenProperties
<1>2. s = [i \in 1 .. n |-> <<>>]
  BY <1>1 DEF StringsIn
<1> HIDE DEF n, s, S
<1>3. s \in [1 .. n -> Seq(S)]
  BY <1>2
<1>4. \A m \in Nat : \A x \in [1 .. m -> Seq(S)] : x \in Seq(Seq(S)) /\ Len(x) = m
  OBVIOUS
<1>5. s \in Seq(Seq(S)) /\ Len(s) = n
  BY <1>1, <1>3, <1>4
<1>6. Range(FlattenSeq(s)) = UNION {Range(s[i]) : i \in 1 .. n} /\ FlattenSeq(s) \in Seq(S)
  BY <1>5, FlattenRange, FlattenType
<1>7. \A i \in 1 .. n : Range(s[i]) = {}
  BY <1>2, SeqOne
<1>8. Range(FlattenSeq(s)) = {}
  BY <1>6, <1>7
<1> DEFINE r == FlattenSeq(s)
<1> HIDE DEF r
<1>9. r \in Seq(S) /\ Range(r) = {}
  BY <1>6, <1>8 DEF r
<1>10. Len(r) = 0
  <2>1. Len(r) \in Nat /\ Range(r) = {r[i] : i \in 1 .. Len(r)}
    BY <1>9, RangeIs, LenProperties
  <2>2. \A i \in 1 .. Len(r) : FALSE
    BY <2>1, <1>9
  <2>3. QED BY <2>1, <2>2
<1>11. r = <<>>
  BY <1>9, <1>10
<1>12. QED BY <1>5, <1>11 DEF s, S, r

RunFits(L, f, key, run) ==
  \A i \in run : i \in HavingIn(L, key) \/ (i = Len(L) + 1 /\ key \in KeysOf(f.body))
MoreStrings(L, f, key, run) == IF Len(L) + 1 \in run THEN ValueAt(f.body, key).strings ELSE <<>>

LEMMA StringsMore ==
  ASSUME NEW F, Bodies(F), NEW L \in Seq(F), NEW f \in F, NEW key, NEW run, RunFits(L, f, key, run)
  PROVE  /\ FlattenSeq(StringsIn(Append(L, f), key, run)) = FlattenSeq(StringsIn(L, key, run)) \o MoreStrings(L, f, key, run)
         /\ FlattenSeq(StringsIn(L, key, run)) \in Seq(Seq(Pieces))
<1> USE DEF RunFits
<1> DEFINE n == Len(L)
           M == Append(L, f)
           more == IF n + 1 \in run THEN ValueAt(f.body, key).strings ELSE <<>>
           a == StringsIn(L, key, run)
           S == Seq(Pieces)
<1>1. /\ n \in Nat /\ DOMAIN L = 1 .. n /\ DOMAIN M = 1 .. (n + 1)
      /\ \A i \in 1 .. n : M[i] = L[i] /\ L[i] \in F
  BY OneMore
<1>2. /\ HavingIn(L, key) \subseteq 1 .. n
      /\ ValueOf(M, n + 1, key) = ValueAt(f.body, key)
      /\ \A i \in 1 .. n : ValueOf(M, i, key) = ValueOf(L, i, key)
  BY HavingSteps
<1> HIDE DEF n, M
<1>3. a = [i \in 1 .. n |-> IF i \in run THEN ValueOf(L, i, key).strings ELSE <<>>]
  BY <1>1 DEF StringsIn
<1> HIDE DEF a
<1>4. n + 1 \notin 1 .. n
  BY <1>1
<1>5. ASSUME NEW i \in 1 .. n, i \in run PROVE ValueOf(L, i, key).strings \in Seq(S)
  <2>1. i \in HavingIn(L, key)
    BY <1>4, <1>5 DEF n
  <2>2. key \in KeysOf(L[i].body) /\ IsConfiguration(L[i].body)
    BY <1>1, <2>1 DEF HavingIn, Bodies
  <2>3. QED BY <2>2, ValueGood, StringsOf DEF ValueOf
<1>6. more \in Seq(S)
  <2>1. CASE n + 1 \in run
    <3>1. key \in KeysOf(f.body) /\ IsConfiguration(f.body)
      BY <1>2, <1>4, <2>1 DEF n, Bodies
    <3>2. ValueAt(f.body, key).strings \in Seq(S)
      BY <3>1, ValueGood, StringsOf
    <3>3. QED BY <3>2, <2>1
  <2>2. CASE n + 1 \notin run
    BY <2>2
  <2>3. QED BY <2>1, <2>2
<1> HIDE DEF S
<1>7. a \in Seq(Seq(S)) /\ Len(a) = n
  <2>1. a \in [1 .. n -> Seq(S)]
    BY <1>3, <1>5
  <2>2. QED BY <1>1, <2>1
<1>8. StringsIn(M, key, run) = Append(a, more)
  <2>1. StringsIn(M, key, run) = [i \in 1 .. (n + 1) |-> IF i \in run THEN ValueOf(M, i, key).strings ELSE <<>>]
    BY <1>1 DEF StringsIn
  <2>2. \A i : i \in 1 .. (n + 1) <=> i \in 1 .. n \/ i = n + 1
    BY <1>1
  <2> DEFINE b == [i \in 1 .. (n + 1) |-> IF i \in 1 .. n THEN a[i] ELSE more]
  <2>3. StringsIn(M, key, run) = b
    BY <1>2, <1>3, <1>4, <2>1, <2>2
  <2> HIDE DEF more
  <2>4. b \in Seq(Seq(S)) /\ Len(b) = n + 1
    <3>1. b \in [1 .. (n + 1) -> Seq(S)]
      BY <1>6, <1>7
    <3>2. n + 1 \in Nat
      BY <1>1
    <3> HIDE DEF b
    <3>3. QED BY <3>1, <3>2
  <2>5. Append(a, more) \in Seq(Seq(S)) /\ Len(Append(a, more)) = n + 1
        /\ Append(a, more)[n + 1] = more /\ \A i \in 1 .. n : Append(a, more)[i] = a[i]
    BY <1>6, <1>7, AppendProperties
  <2>6. \A i \in 1 .. (n + 1) : b[i] = Append(a, more)[i]
    BY <2>2, <2>5, <1>4
  <2> HIDE DEF b
  <2>7. b = Append(a, more)
    BY <2>4, <2>5, <2>6, SeqEqual
  <2>8. QED BY <2>3, <2>7
<1> HIDE DEF more
<1>9. Append(a, more) = a \o <<more>> /\ <<more>> \in Seq(Seq(S))
  BY <1>6, <1>7
<1>10. FlattenSeq(a \o <<more>>) = FlattenSeq(a) \o FlattenSeq(<<more>>) /\ FlattenSeq(a) \in Seq(S)
  BY <1>7, <1>9, FlattenConcat, FlattenType
<1>11. FlattenSeq(<<more>>) = more
  BY <1>6, FlattenOne
<1>12. more = MoreStrings(L, f, key, run)
  BY DEF more, MoreStrings, n
<1>13. QED BY <1>6, <1>8, <1>9, <1>10, <1>11, <1>12 DEF M, a, S

Within(run, n) == run \subseteq 1 .. n
WithNext(run, n) == run \cup {n + 1}

LEMMA KeysMore ==
  ASSUME NEW F, NEW L \in Seq(F), NEW f \in F, NEW key, NEW run, Within(run, Len(L))
  PROVE  /\ KeysIn(Append(L, f), key, run) = KeysIn(L, key, run)
         /\ KeysIn(Append(L, f), key, WithNext(run, Len(L)))
               = KeysIn(L, key, run) \cup KeysOf(ValueAt(f.body, key).entries)
<1>1. /\ ValueOf(Append(L, f), Len(L) + 1, key) = ValueAt(f.body, key)
      /\ \A i \in 1 .. Len(L) : ValueOf(Append(L, f), i, key) = ValueOf(L, i, key)
  BY HavingSteps
<1>2. QED BY <1>1 DEF KeysIn, Within, WithNext

(* A file that does not have the key; one that replaces what is there; and *)
(* one that adds to it.                                                    *)
LEMMA FromOthers ==
  ASSUME NEW F, Bodies(F), NEW L \in Seq(F), NEW f \in F, NEW key, key \notin KeysOf(f.body),
         HavingIn(L, key) # {}, NEW v, FromFiles(L, key, v)
  PROVE  FromFiles(Append(L, f), key, v)
<1> DEFINE M == Append(L, f)
           run == RunIn(L, key)
<1>1. ValueOf(M, LastIn(M, key), key) = ValueOf(L, LastIn(L, key), key) /\ RunIn(M, key) = run
  BY OtherKeys
<1>2. HavingIn(L, key) \subseteq 1 .. Len(L) /\ Len(L) \in Nat
  BY HavingSteps, LenProperties
<1>3. run \subseteq HavingIn(L, key) /\ run \subseteq 1 .. Len(L) /\ Len(L) + 1 \notin run
  <2>1. run \subseteq HavingIn(L, key)
    BY DEF RunIn
  <2>2. Len(L) + 1 \notin 1 .. Len(L)
    BY <1>2
  <2>3. QED BY <1>2, <2>1, <2>2
<1> HIDE DEF run
<1>4. FlattenSeq(StringsIn(M, key, run)) = FlattenSeq(StringsIn(L, key, run))
  <2>1. RunFits(L, f, key, run)
    BY <1>3 DEF RunFits
  <2>2. /\ FlattenSeq(StringsIn(M, key, run)) = FlattenSeq(StringsIn(L, key, run)) \o MoreStrings(L, f, key, run)
        /\ FlattenSeq(StringsIn(L, key, run)) \in Seq(Seq(Pieces))
    BY <2>1, StringsMore
  <2>3. MoreStrings(L, f, key, run) = <<>>
    BY <1>3 DEF MoreStrings
  <2>4. QED BY <2>2, <2>3
<1>5. KeysIn(M, key, run) = KeysIn(L, key, run)
  <2>1. Within(run, Len(L))
    BY <1>3 DEF Within
  <2>2. QED BY <2>1, KeysMore
<1> HIDE DEF M
<1>6. FromFiles(M, key, v)
  BY <1>1, <1>4, <1>5 DEF FromFiles, run
<1>7. QED BY <1>6 DEF M

LEMMA FromFresh ==
  ASSUME NEW F, Bodies(F), NEW L \in Seq(F), NEW f \in F, NEW key \in KeysOf(f.body),
         HavingIn(L, key) = {} \/ ValueOf(L, LastIn(L, key), key).t # ValueAt(f.body, key).t
  PROVE  FromFiles(Append(L, f), key, ValueAt(f.body, key))
<1> DEFINE M == Append(L, f)
           n == Len(L)
           new == ValueAt(f.body, key)
<1>1. ValueOf(M, LastIn(M, key), key) = new /\ RunIn(M, key) = {n + 1}
  BY ItsKeys
<1>2. n \in Nat /\ HavingIn(L, key) \subseteq 1 .. n
  BY HavingSteps, LenProperties
<1>3. new.strings \in Seq(Seq(Pieces))
  BY ValueGood, StringsOf DEF Bodies
<1>4. FlattenSeq(StringsIn(M, key, {n + 1})) = new.strings
  <2>1. FlattenSeq(StringsIn(M, key, {n + 1})) = FlattenSeq(StringsIn(L, key, {n + 1})) \o new.strings
    <3>1. RunFits(L, f, key, {n + 1})
      BY DEF RunFits
    <3>2. FlattenSeq(StringsIn(M, key, {n + 1})) = FlattenSeq(StringsIn(L, key, {n + 1})) \o MoreStrings(L, f, key, {n + 1})
      BY <3>1, StringsMore
    <3>3. MoreStrings(L, f, key, {n + 1}) = new.strings
      BY DEF MoreStrings
    <3>4. QED BY <3>2, <3>3
  <2>2. StringsIn(L, key, {n + 1}) = StringsIn(L, key, {})
    <3>1. DOMAIN L = 1 .. n /\ n + 1 \notin 1 .. n
      BY <1>2, LenProperties
    <3>2. QED BY <3>1 DEF StringsIn
  <2>3. FlattenSeq(StringsIn(L, key, {})) = <<>>
    BY StringsNone
  <2>4. <<>> \o new.strings = new.strings
    BY <1>3
  <2>5. QED BY <2>1, <2>2, <2>3, <2>4
<1>5. KeysIn(M, key, {n + 1}) = KeysOf(new.entries)
  <2>1. Within({}, Len(L)) /\ WithNext({}, Len(L)) = {n + 1}
    BY DEF Within, WithNext
  <2>2. KeysIn(M, key, WithNext({}, Len(L))) = KeysIn(L, key, {}) \cup KeysOf(new.entries)
    BY <2>1, KeysMore
  <2>3. KeysIn(L, key, {}) = {}
    BY DEF KeysIn
  <2>4. QED BY <2>1, <2>2, <2>3
<1> HIDE DEF M, new, n
<1>6. FromFiles(M, key, new)
  BY <1>1, <1>4, <1>5 DEF FromFiles
<1>7. QED BY <1>6 DEF M, new

LEMMA FromJoined ==
  ASSUME NEW F, Bodies(F), NEW L \in Seq(F), NEW f \in F, NEW key \in KeysOf(f.body),
         HavingIn(L, key) # {}, NEW old \in GoodValues, FromFiles(L, key, old), old.t = ValueAt(f.body, key).t
  PROVE  FromFiles(Append(L, f), key, MergedValue(old, ValueAt(f.body, key)))
<1> DEFINE M == Append(L, f)
           n == Len(L)
           new == ValueAt(f.body, key)
           run == RunIn(L, key)
           v == MergedValue(old, new)
<1>1. new \in GoodValues
  BY ValueGood DEF Bodies
<1>2. /\ v.t = new.t
      /\ old.t = "list" => v.strings = old.strings \o new.strings
      /\ old.t = "dict" => KeysOf(v.entries) = KeysOf(old.entries) \cup KeysOf(new.entries)
      /\ new.t = "str" => v = new
  BY <1>1, MergedValueIs
<1> HIDE DEF v
<1>3. ValueOf(L, LastIn(L, key), key).t = old.t
  BY DEF FromFiles
<1>4. ValueOf(M, LastIn(M, key), key) = new /\ RunIn(M, key) = run \cup {n + 1} /\ run \subseteq 1 .. n
  BY <1>3, ItsKeys
<1>5. run \subseteq HavingIn(L, key) /\ n \in Nat /\ n + 1 \notin 1 .. n
  BY LenProperties DEF RunIn
<1> HIDE DEF run
<1>6. FlattenSeq(StringsIn(M, key, run \cup {n + 1})) = FlattenSeq(StringsIn(L, key, run)) \o new.strings
  <2>1. RunFits(L, f, key, run \cup {n + 1})
    BY <1>5 DEF RunFits
  <2>2. FlattenSeq(StringsIn(M, key, run \cup {n + 1}))
          = FlattenSeq(StringsIn(L, key, run \cup {n + 1})) \o MoreStrings(L, f, key, run \cup {n + 1})
    BY <2>1, StringsMore
  <2>3. MoreStrings(L, f, key, run \cup {n + 1}) = new.strings
    BY DEF MoreStrings
  <2>4. StringsIn(L, key, run \cup {n + 1}) = StringsIn(L, key, run)
    <3>1. DOMAIN L = 1 .. n
      BY LenProperties
    <3>2. QED BY <3>1, <1>5 DEF StringsIn
  <2>5. QED BY <2>2, <2>4, <2>3
<1>7. KeysIn(M, key, run \cup {n + 1}) = KeysIn(L, key, run) \cup KeysOf(new.entries)
  <2>1. Within(run, Len(L))
    BY <1>4 DEF Within
  <2>2. KeysIn(M, key, WithNext(run, Len(L))) = KeysIn(L, key, run) \cup KeysOf(new.entries)
    BY <2>1, KeysMore
  <2>3. QED BY <2>2 DEF WithNext
<1>8. /\ old.t = "list" => old.strings = FlattenSeq(StringsIn(L, key, run))
      /\ old.t = "dict" => KeysOf(old.entries) = KeysIn(L, key, run)
  BY <1>3 DEF FromFiles, run
<1> HIDE DEF M, new, n
<1>9. FromFiles(M, key, v)
  <2>1. old.t = new.t
    BY DEF new
  <2>2. QED BY <1>2, <1>4, <1>6, <1>7, <1>8, <2>1 DEF FromFiles
<1>10. QED BY <1>9 DEF M, new, v

LEMMA MadeMore ==
  ASSUME NEW F, Bodies(F), NEW L \in Seq(F), NEW f \in F, NEW cfg, IsConfiguration(cfg), Made(L, cfg)
  PROVE  Made(Append(L, f), DictMerge(cfg, f.body))
<1> DEFINE M == Append(L, f)
           n == Len(L)
           r == DictMerge(cfg, f.body)
<1>1. /\ n \in Nat /\ DOMAIN L = 1 .. n /\ DOMAIN M = 1 .. (n + 1) /\ M \in Seq(F)
      /\ M[n + 1] = f /\ \A i \in 1 .. n : M[i] = L[i] /\ L[i] \in F
  BY OneMore
<1>2. IsConfiguration(f.body)
  BY DEF Bodies
<1>3. Merged(cfg, f.body, r)
  BY <1>2, DictMergeIs
<1> HIDE DEF M, n, r
<1>4. KeysOf(r) = KeysOf(cfg) \cup KeysOf(f.body)
  BY <1>3 DEF Merged
<1>5. \A i \in DOMAIN M : KeysOf(M[i].body) \subseteq KeysOf(r)
  <2>1. \A i \in DOMAIN M : i \in 1 .. n \/ i = n + 1
    BY <1>1
  <2>2. \A i \in 1 .. n : KeysOf(L[i].body) \subseteq KeysOf(cfg)
    BY <1>1 DEF Made
  <2>3. QED BY <1>1, <1>4, <2>1, <2>2
<1>6. ASSUME NEW key \in KeysOf(r)
      PROVE  IF HavingIn(M, key) = {} THEN key = "version" /\ ValueAt(r, key).t = "str"
             ELSE FromFiles(M, key, ValueAt(r, key))
  <2> DEFINE old == ValueAt(cfg, key)
             new == ValueAt(f.body, key)
  <2>1. HavingIn(M, key) = HavingIn(L, key) \cup (IF key \in KeysOf(f.body) THEN {n + 1} ELSE {})
    BY HavingSteps DEF M, n
  <2>2. HavingIn(L, key) # {} => key \in KeysOf(cfg)
    BY DEF HavingIn, Made
  <2>3. CASE key \notin KeysOf(f.body)
    <3>1. key \in KeysOf(cfg) /\ ValueAt(r, key) = old /\ HavingIn(M, key) = HavingIn(L, key)
      BY <1>3, <1>4, <2>1, <2>3 DEF Merged
    <3>2. IF HavingIn(L, key) = {} THEN key = "version" /\ old.t = "str" ELSE FromFiles(L, key, old)
      BY <3>1 DEF Made
    <3>3. HavingIn(L, key) # {} => FromFiles(M, key, old)
      BY <2>3, <3>2, FromOthers DEF M
    <3>4. QED BY <3>1, <3>2, <3>3
  <2>4. CASE key \in KeysOf(f.body) /\ key \notin KeysOf(cfg)
    <3>1. ValueAt(r, key) = new /\ HavingIn(L, key) = {} /\ HavingIn(M, key) # {}
      BY <1>3, <2>1, <2>2, <2>4 DEF Merged
    <3>2. FromFiles(M, key, new)
      BY <2>4, <3>1, FromFresh DEF M
    <3>3. QED BY <3>1, <3>2
  <2>5. CASE key \in KeysOf(f.body) /\ key \in KeysOf(cfg)
    <3>1. ValueAt(r, key) = MergedValue(old, new) /\ HavingIn(M, key) # {}
      BY <1>3, <2>1, <2>5 DEF Merged
    <3>2. old \in GoodValues /\ new \in GoodValues
      BY <1>2, <2>5, ValueGood
    <3>3. IF HavingIn(L, key) = {} THEN old.t = "str" ELSE FromFiles(L, key, old)
      BY <2>5 DEF Made
    <3>4. HavingIn(L, key) # {} => ValueOf(L, LastIn(L, key), key).t = old.t
      BY <3>3 DEF FromFiles
    <3>5. CASE HavingIn(L, key) # {} /\ old.t = new.t
      <4>1. FromFiles(M, key, MergedValue(old, new))
        BY <2>5, <3>2, <3>3, <3>5, FromJoined DEF M
      <4>2. QED BY <3>1, <4>1
    <3>6. CASE ~(HavingIn(L, key) # {} /\ old.t = new.t)
      <4>1. MergedValue(old, new) = new
        BY <3>2, <3>3, <3>6, MergedValueIs
      <4>2. HavingIn(L, key) = {} \/ ValueOf(L, LastIn(L, key), key).t # new.t
        BY <3>4, <3>6
      <4>3. FromFiles(M, key, new)
        BY <2>5, <4>2, FromFresh DEF M
      <4>4. QED BY <3>1, <4>1, <4>3
    <3>7. QED BY <3>5, <3>6
  <2>6. QED BY <2>3, <2>4, <2>5
<1>7. Made(M, r)
  BY <1>5, <1>6 DEF Made
<1>8. QED BY <1>7 DEF M, r

-----------------------------------------------------------------------------
(* The order of the files that the frames stand for.                       *)

Mapped(g, s) == FlattenSeq([i \in DOMAIN s |-> g[s[i]]])

LEMMA MappedIs ==
  ASSUME NEW A, NEW F, NEW g \in [A -> Seq(F)], NEW s \in Seq(A)
  PROVE  /\ [i \in DOMAIN s |-> g[s[i]]] \in Seq(Seq(F)) /\ Len([i \in DOMAIN s |-> g[s[i]]]) = Len(s)
         /\ Mapped(g, s) \in Seq(F)
<1> DEFINE n == Len(s)
           x == [i \in DOMAIN s |-> g[s[i]]]
           S == Seq(F)
<1>1. n \in Nat /\ DOMAIN s = 1 .. n /\ \A i \in 1 .. n : s[i] \in A
  BY LenProperties
<1>2. x = [i \in 1 .. n |-> g[s[i]]]
  BY <1>1
<1> HIDE DEF x, S, n
<1>3. x \in [1 .. n -> S]
  BY <1>1, <1>2 DEF S
<1>4. x \in Seq(S) /\ Len(x) = n
  BY <1>1, <1>3
<1>5. FlattenSeq(x) \in Seq(F)
  BY <1>4, FlattenType DEF S
<1>6. QED BY <1>4, <1>5 DEF x, S, n, Mapped

LEMMA MappedType ==
  ASSUME NEW A, NEW F, NEW g \in [A -> Seq(F)], NEW s \in Seq(A)
  PROVE  Mapped(g, s) \in Seq(F)
  BY MappedIs

LEMMA MappedConcat ==
  ASSUME NEW A, NEW F, NEW g \in [A -> Seq(F)], NEW a \in Seq(A), NEW b \in Seq(A)
  PROVE  Mapped(g, a \o b) = Mapped(g, a) \o Mapped(g, b)
<1> DEFINE m == Len(a)
           n == Len(b)
           c == a \o b
           x == [i \in DOMAIN a |-> g[a[i]]]
           y == [i \in DOMAIN b |-> g[b[i]]]
           z == [i \in DOMAIN c |-> g[c[i]]]
<1>1. /\ c \in Seq(A) /\ Len(c) = m + n /\ m \in Nat /\ n \in Nat
      /\ \A i \in 1 .. m : c[i] = a[i]
      /\ \A i \in 1 .. n : c[m + i] = b[i]
      /\ DOMAIN a = 1 .. m /\ DOMAIN b = 1 .. n /\ DOMAIN c = 1 .. (m + n)
  BY ConcatProperties, LenProperties
<1> HIDE DEF c, m, n
<1>2. /\ x \in Seq(Seq(F)) /\ Len(x) = m /\ Mapped(g, a) = FlattenSeq(x)
      /\ y \in Seq(Seq(F)) /\ Len(y) = n /\ Mapped(g, b) = FlattenSeq(y)
      /\ z \in Seq(Seq(F)) /\ Len(z) = m + n /\ Mapped(g, c) = FlattenSeq(z)
  BY <1>1, MappedIs DEF m, n, Mapped
<1>3. /\ \A i \in 1 .. m : x[i] = g[a[i]]
      /\ \A i \in 1 .. n : y[i] = g[b[i]]
      /\ \A i \in 1 .. (m + n) : z[i] = g[c[i]]
  BY <1>1
<1> HIDE DEF x, y, z
<1>4. /\ x \o y \in Seq(Seq(F)) /\ Len(x \o y) = m + n
      /\ \A i \in 1 .. m : (x \o y)[i] = x[i]
      /\ \A i \in 1 .. n : (x \o y)[m + i] = y[i]
  <2> DEFINE S == Seq(F)
  <2>1. x \in Seq(S) /\ Len(x) = m /\ y \in Seq(S) /\ Len(y) = n
    BY <1>2
  <2> HIDE DEF S
  <2>2. /\ x \o y \in Seq(S) /\ Len(x \o y) = Len(x) + Len(y)
        /\ \A i \in 1 .. Len(x) : (x \o y)[i] = x[i]
        /\ \A i \in 1 .. Len(y) : (x \o y)[Len(x) + i] = y[i]
    <3>1. x \in Seq(S) /\ y \in Seq(S)
      BY <2>1
    <3>2. QED BY ONLY <3>1, ConcatProperties
  <2>3. QED BY <2>1, <2>2 DEF S
<1>5. ASSUME NEW i \in 1 .. (m + n) PROVE z[i] = (x \o y)[i]
  <2>1. CASE i \in 1 .. m
    BY <2>1, <1>1, <1>3, <1>4
  <2>2. CASE i \notin 1 .. m
    <3>1. i - m \in 1 .. n /\ m + (i - m) = i
      BY <2>2, <1>1
    <3>2. z[i] = g[b[i - m]] /\ (x \o y)[i] = y[i - m]
      BY <3>1, <1>1, <1>3, <1>4
    <3>3. QED BY <3>1, <3>2, <1>3
  <2>3. QED BY <2>1, <2>2
<1>6. z = x \o y
  BY <1>2, <1>4, <1>5, SeqEqual
<1>7. QED BY <1>2, <1>6, FlattenConcat DEF c

LEMMA MappedFirst ==
  ASSUME NEW A, NEW F, NEW g \in [A -> Seq(F)], NEW x \in A
  PROVE  Mapped(g, <<x>>) = g[x] /\ Mapped(g, <<>>) = <<>>
<1>1. [i \in DOMAIN <<x>> |-> g[<<x>>[i]]] = <<g[x]>>
  OBVIOUS
<1>2. Mapped(g, <<x>>) = g[x]
  BY <1>1, FlattenOne DEF Mapped
<1>3. [i \in DOMAIN <<>> |-> g[<<>>[i]]] = <<>>
  OBVIOUS
<1>4. QED BY <1>2, <1>3, FlattenEmpty DEF Mapped

(* The files of the names, one name after the other.                       *)
LEMMA OrderOfNamesIs ==
  ASSUME NEW D, NEW F, NEW of \in [D -> Seq(F)], NEW names, IsSeq(names)
  PROVE  /\ OrderOfNames(of, names) \in Seq(F)
         /\ names = <<>> => OrderOfNames(of, names) = <<>>
         /\ names # <<>> /\ Head(names) \in D =>
               OrderOfNames(of, names) = of[Head(names)] \o OrderOfNames(of, Tail(names))
<1> DEFINE A == Range(names)
           g == [x \in A |-> IF x \in D THEN of[x] ELSE <<>>]
<1>1. names \in Seq(A) /\ DOMAIN of = D
  BY DEF IsSeq
<1>2. g \in [A -> Seq(F)]
  OBVIOUS
<1>3. ASSUME NEW s \in Seq(A) PROVE OrderOfNames(of, s) = Mapped(g, s)
  <2>1. DOMAIN s = 1 .. Len(s) /\ \A i \in DOMAIN s : s[i] \in A
    BY LenProperties
  <2>2. \A i \in DOMAIN s : g[s[i]] = IF s[i] \in DOMAIN of THEN of[s[i]] ELSE <<>>
    BY <1>1, <2>1
  <2>3. [i \in DOMAIN s |-> g[s[i]]] = [i \in DOMAIN s |-> IF s[i] \in DOMAIN of THEN of[s[i]] ELSE <<>>]
    BY <2>2
  <2>4. QED BY <2>3 DEF OrderOfNames, Mapped
<1>4. \A x \in A : x \in D => g[x] = of[x]
  OBVIOUS
<1> HIDE DEF A, g
<1>5. OrderOfNames(of, names) \in Seq(F)
  BY <1>1, <1>2, <1>3, MappedType
<1>6. names = <<>> => OrderOfNames(of, names) = <<>>
  BY FlattenEmpty DEF OrderOfNames
<1>7. ASSUME names # <<>>, Head(names) \in D
      PROVE  OrderOfNames(of, names) = of[Head(names)] \o OrderOfNames(of, Tail(names))
  <2>1. Head(names) = names[1] /\ names = <<names[1]>> \o Tail(names) /\ names[1] \in Range(names)
    BY <1>7, SeqTail
  <2>2. Tail(names) \in Seq(A) /\ names[1] \in A
    BY <1>1, <1>7, <2>1 DEF A
  <2> DEFINE h == <<names[1]>>
             t == Tail(names)
  <2>3. h \in Seq(A) /\ t \in Seq(A) /\ names = h \o t
    BY <2>1, <2>2
  <2> HIDE DEF h, t
  <2>4. h \in Seq(A) /\ t \in Seq(A)
    BY <2>3
  <2>5. Mapped(g, h \o t) = Mapped(g, h) \o Mapped(g, t)
    BY ONLY <1>2, <2>4, MappedConcat
  <2>6. Mapped(g, names) = Mapped(g, <<names[1]>>) \o Mapped(g, Tail(names))
    BY <2>3, <2>5 DEF h, t
  <2>7. Mapped(g, <<names[1]>>) = g[names[1]]
    BY <1>2, <2>2, MappedFirst
  <2>8. g[names[1]] = of[names[1]]
    BY <1>4, <1>7, <2>1, <2>2
  <2>9. QED BY <1>1, <1>3, <2>1, <2>2, <2>6, <2>7, <2>8
<1>8. QED BY <1>5, <1>6, <1>7

LEMMA OrderOfFileIs ==
  ASSUME LoadOK, NEW of \in [DOMAIN files -> Seq(AllFiles)], NEW f \in AllFiles
  PROVE  /\ OrderOfNames(of, Included(f.also)) \in Seq(AllFiles)
         /\ OrderOfNames(of, Included(Then(f.body))) \in Seq(AllFiles)
         /\ OrderOfFile(of, f) \in Seq(AllFiles)
         /\ OrderOfFile(of, f)
              = OrderOfNames(of, Included(f.also)) \o (<<f>> \o OrderOfNames(of, Included(Then(f.body))))
<1>1. IsSeq(Included(f.also)) /\ IsSeq(Included(Then(f.body)))
  BY FilesAre, StringsOf, ThenIs DEF LoadOK
<1>2. OrderOfNames(of, Included(f.also)) \in Seq(AllFiles)
  BY <1>1, OrderOfNamesIs
<1>3. OrderOfNames(of, Included(Then(f.body))) \in Seq(AllFiles)
  BY <1>1, OrderOfNamesIs
<1> DEFINE a == OrderOfNames(of, Included(f.also))
           b == OrderOfNames(of, Included(Then(f.body)))
<1>4. OrderOfFile(of, f) = a \o <<f>> \o b
  BY DEF OrderOfFile
<1> HIDE DEF a, b
<1>5. a \in Seq(AllFiles) /\ b \in Seq(AllFiles) /\ <<f>> \in Seq(AllFiles)
  BY <1>2, <1>3 DEF a, b
<1>6. \A x, y, z \in Seq(AllFiles) : x \o y \o z = x \o (y \o z) /\ x \o y \in Seq(AllFiles)
  BY ConcatAssociative, ConcatProperties
<1>7. QED BY <1>4, <1>5, <1>6 DEF a, b

(* The order to a depth, from that to the depth before.                    *)
NoOrder == [n \in DOMAIN files |-> <<>>]
NextOrder(of) == [n \in DOMAIN files |-> FlattenSeq([i \in DOMAIN files[n] |-> OrderOfFile(of, files[n][i])])]

LEMMA NextOrderIs ==
  ASSUME LoadOK, NEW of \in [DOMAIN files -> Seq(AllFiles)]
  PROVE  NextOrder(of) \in [DOMAIN files -> Seq(AllFiles)]
<1> DEFINE g == [f \in AllFiles |-> OrderOfFile(of, f)]
<1>1. g \in [AllFiles -> Seq(AllFiles)]
  BY OrderOfFileIs
<1>2. ASSUME NEW n \in DOMAIN files
      PROVE  FlattenSeq([i \in DOMAIN files[n] |-> OrderOfFile(of, files[n][i])]) \in Seq(AllFiles)
  <2> DEFINE s == files[n]
  <2>1. s \in Seq(AllFiles)
    BY FilesAre DEF LoadOK
  <2> HIDE DEF s
  <2>2. \A i \in DOMAIN s : s[i] \in AllFiles
    BY <2>1, LenProperties
  <2>3. [i \in DOMAIN s |-> OrderOfFile(of, s[i])] = [i \in DOMAIN s |-> g[s[i]]]
    BY <2>2
  <2> HIDE DEF g
  <2>4. Mapped(g, s) \in Seq(AllFiles)
    BY <1>1, <2>1, MappedType
  <2>5. QED BY <2>3, <2>4 DEF Mapped, s
<1>3. QED BY <1>2 DEF NextOrder

LEMMA OrdersSteps ==
  ASSUME LoadOK
  PROVE  /\ Orders \in [0 .. (MaxDepth + 1) -> [DOMAIN files -> Seq(AllFiles)]]
         /\ \A d \in 1 .. (MaxDepth + 1) : Orders[d] = NextOrder(Orders[d - 1])
<1> DEFINE n == MaxDepth + 1
           X == [DOMAIN files -> Seq(AllFiles)]
           Deeper(k) == [d \in 0 .. n |-> IF d = 0 THEN NoOrder ELSE NextOrder(k[d - 1])]
           of == CHOOSE k : k = Deeper(k)
           F == [d \in 1 .. n |-> [x \in X |-> NextOrder(x)]]
<1>1. Orders = of
  BY DEF Orders, NoOrder, NextOrder
<1>2. n \in Nat
  BY ConfigsAssumption
<1>3. NoOrder \in X
  BY DEF NoOrder
<1>4. \A x \in X : NextOrder(x) \in X
  BY NextOrderIs
<1> HIDE DEF X, n
<1>5. F \in [1 .. n -> [X -> X]]
  BY <1>4
<1>6. PICK f \in [0 .. n -> X] : IsLoop(f, n, NoOrder, F)
  <2> HIDE DEF F
  <2>1. QED BY <1>2, <1>3, <1>5, Loop
<1>7. f = Deeper(f)
  <2>1. ASSUME NEW d \in 0 .. n, d # 0 PROVE F[d][f[d - 1]] = NextOrder(f[d - 1])
    <3>1. d \in 1 .. n /\ d - 1 \in 0 .. n
      BY <2>1, <1>2
    <3>2. f[d - 1] \in X
      <4> HIDE DEF F
      <4>1. QED BY <3>1, <1>6
    <3>3. QED BY <3>1, <3>2
  <2> HIDE DEF F
  <2>2. QED BY <2>1, <1>6 DEF IsLoop
<1>8. of = Deeper(of)
  BY <1>7
<1> HIDE DEF of
<1>9. \A d \in 0 .. n : of[d] = IF d = 0 THEN NoOrder ELSE NextOrder(of[d - 1])
  BY <1>8
<1> DEFINE G == {d \in 0 .. n : of[d] \in X}
<1>10. 0 \in G
  BY <1>2, <1>3, <1>9
<1>11. ASSUME NEW d \in 1 .. n, d - 1 \in G PROVE d \in G
  <2>1. d \in 0 .. n /\ d # 0
    BY <1>2
  <2>2. QED BY <2>1, <1>4, <1>9, <1>11
<1> HIDE DEF G
<1>12. \A d \in 0 .. n : d \in G
  BY <1>2, <1>10, <1>11, Upto
<1>13. of \in [0 .. n -> X]
  <2>1. of = [d \in 0 .. n |-> of[d]]
    BY <1>8
  <2>2. QED BY <2>1, <1>12 DEF G
<1>14. ASSUME NEW d \in 1 .. n PROVE of[d] = NextOrder(of[d - 1])
  <2>1. d \in 0 .. n /\ d # 0
    BY <1>2
  <2>2. QED BY <2>1, <1>9
<1>15. QED BY <1>1, <1>13, <1>14 DEF X, n

(* The files that a frame stands for, and all frames.                      *)
OrderOfFrame(fr) ==
  IF fr.t = "names" THEN OrderOfNames(Orders[MaxDepth + 2 - fr.depth], fr.names)
  ELSE IF fr.t = "load" THEN OrderOfFile(Orders[MaxDepth + 1 - fr.depth], fr.file)
  ELSE <<fr.file>> \o OrderOfNames(Orders[MaxDepth + 1 - fr.depth], Included(Then(fr.file.body)))
OrderOfFrames(s) == FlattenSeq([i \in DOMAIN s |-> OrderOfFrame(s[i])])

LEMMA DepthIs ==
  ASSUME LoadOK
  PROVE  /\ \A d \in 1 .. (MaxDepth + 1) : Orders[MaxDepth + 2 - d] \in [DOMAIN files -> Seq(AllFiles)]
         /\ \A d \in 1 .. MaxDepth :
               /\ Orders[MaxDepth + 1 - d] \in [DOMAIN files -> Seq(AllFiles)]
               /\ Orders[MaxDepth + 2 - d] = NextOrder(Orders[MaxDepth + 1 - d])
               /\ d + 1 \in 1 .. (MaxDepth + 1) /\ MaxDepth + 2 - (d + 1) = MaxDepth + 1 - d
<1>1. MaxDepth \in Nat
  BY ConfigsAssumption
<1>2. \A d \in 1 .. (MaxDepth + 1) : MaxDepth + 2 - d \in 0 .. (MaxDepth + 1)
  BY <1>1
<1>3. \A d \in 1 .. MaxDepth :
         /\ MaxDepth + 1 - d \in 0 .. (MaxDepth + 1) /\ MaxDepth + 2 - d \in 1 .. (MaxDepth + 1)
         /\ (MaxDepth + 2 - d) - 1 = MaxDepth + 1 - d
         /\ d + 1 \in 1 .. (MaxDepth + 1) /\ MaxDepth + 2 - (d + 1) = MaxDepth + 1 - d
  BY <1>1
<1>4. QED BY <1>2, <1>3, OrdersSteps

LEMMA OrderOfFrameIs ==
  ASSUME LoadOK, NEW fr, FrameOK(AllFiles, fr)
  PROVE  OrderOfFrame(fr) \in Seq(AllFiles)
<1>1. CASE fr.t = "names"
  <2>1. fr.depth \in 1 .. (MaxDepth + 1) /\ IsSeq(fr.names)
    BY <1>1 DEF FrameOK
  <2>2. QED BY <1>1, <2>1, DepthIs, OrderOfNamesIs DEF OrderOfFrame
<1>2. CASE fr.t # "names"
  <2>1. fr.file \in AllFiles /\ fr.depth \in 1 .. MaxDepth
    BY <1>2 DEF FrameOK
  <2> DEFINE of == Orders[MaxDepth + 1 - fr.depth]
             b == OrderOfNames(of, Included(Then(fr.file.body)))
  <2>2. of \in [DOMAIN files -> Seq(AllFiles)]
    BY <2>1, DepthIs
  <2>3. OrderOfFile(of, fr.file) \in Seq(AllFiles) /\ b \in Seq(AllFiles)
    BY <2>1, <2>2, OrderOfFileIs
  <2>4. OrderOfFrame(fr) = IF fr.t = "load" THEN OrderOfFile(of, fr.file) ELSE <<fr.file>> \o b
    BY <1>2 DEF OrderOfFrame
  <2> HIDE DEF of, b
  <2>5. <<fr.file>> \o b \in Seq(AllFiles)
    BY <2>1, <2>3
  <2>6. QED BY <2>3, <2>4, <2>5
<1>3. QED BY <1>1, <1>2

LEMMA OrderOfFramesIs ==
  ASSUME LoadOK, NEW a, FramesOK(AllFiles, a), NEW b, FramesOK(AllFiles, b)
  PROVE  /\ OrderOfFrames(a) \in Seq(AllFiles)
         /\ OrderOfFrames(a \o b) = OrderOfFrames(a) \o OrderOfFrames(b)
         /\ OrderOfFrames(<<>>) = <<>>
<1> DEFINE A == Range(a) \cup Range(b)
           g == [fr \in A |-> OrderOfFrame(fr)]
<1>1. \A fr \in A : OrderOfFrame(fr) \in Seq(AllFiles)
  BY OrderOfFrameIs DEF FramesOK
<1>2. g \in [A -> Seq(AllFiles)] /\ \A fr \in A : g[fr] = OrderOfFrame(fr)
  BY <1>1
<1>3. a \in Seq(A) /\ b \in Seq(A)
  <2>1. a \in Seq(Range(a)) /\ b \in Seq(Range(b)) /\ Range(a) \subseteq A /\ Range(b) \subseteq A
    BY DEF FramesOK, IsSeq
  <2> HIDE DEF A
  <2>2. \A B, C : B \subseteq C => \A s \in Seq(B) : s \in Seq(C)
    OBVIOUS
  <2>3. QED BY <2>1, <2>2
<1> HIDE DEF A, g
<1>4. ASSUME NEW s \in Seq(A) PROVE OrderOfFrames(s) = Mapped(g, s)
  <2>1. \A i \in DOMAIN s : s[i] \in A
    BY LenProperties
  <2>2. [i \in DOMAIN s |-> g[s[i]]] = [i \in DOMAIN s |-> OrderOfFrame(s[i])]
    BY <1>2, <2>1
  <2>3. QED BY <2>2 DEF OrderOfFrames, Mapped
<1>5. g \in [A -> Seq(AllFiles)]
  BY <1>2
<1>6. Mapped(g, a) \in Seq(AllFiles)
  BY <1>3, <1>5, MappedType
<1>7. Mapped(g, a \o b) = Mapped(g, a) \o Mapped(g, b) /\ a \o b \in Seq(A)
  BY <1>3, <1>5, MappedConcat
<1>8. OrderOfFrames(<<>>) = <<>>
  BY FlattenEmpty DEF OrderOfFrames
<1>9. QED BY <1>3, <1>4, <1>6, <1>7, <1>8

LEMMA OneFrame ==
  ASSUME LoadOK, NEW fr, FrameOK(AllFiles, fr)
  PROVE  OrderOfFrames(<<fr>>) = OrderOfFrame(fr)
<1>1. OrderOfFrame(fr) \in Seq(AllFiles)
  BY OrderOfFrameIs
<1>2. [i \in DOMAIN <<fr>> |-> OrderOfFrame(<<fr>>[i])] = <<OrderOfFrame(fr)>>
  OBVIOUS
<1>3. QED BY <1>1, <1>2, FlattenOne DEF OrderOfFrames

-----------------------------------------------------------------------------
(* The files are merged in order: the invariant, and the steps that keep   *)
(* it.  What is merged and what the frames stand for is all there is.      *)

InOrder(s) == NestedThen \/ cmd.preset # None \/ s = RefOrder(cmd.configs \o cmd.mirrors)

OrderOK ==
  /\ pc = "preset" => cmd.preset # None
  /\ pc \in {"preset", "configs"} => Made(loaded, config)
  /\ pc = "configs" => InOrder(loaded \o OrderOfFrames(todo))
  /\ pc \in {"populated", "resolve", "ready"} =>
        /\ InOrder(loaded)
        /\ \A key \in KeysOf(config) \ KeysOf(Paths0) :
              HavingIn(loaded, key) # {} => FromFiles(loaded, key, ValueAt(config, key))

OrdersOf(fs) ==
  LET of[d \in 0..MaxDepth + 1] ==
          IF d = 0 THEN [n \in DOMAIN fs |-> <<>>]
          ELSE LET below == of[d - 1]
               IN  [n \in DOMAIN fs |->
                      FlattenSeq([i \in DOMAIN fs[n] |-> OrderOfFile(below, fs[n][i])])]
  IN  of
FramesOf(orders, s) ==
  FlattenSeq([i \in DOMAIN s |->
    IF s[i].t = "names" THEN OrderOfNames(orders[MaxDepth + 2 - s[i].depth], s[i].names)
    ELSE IF s[i].t = "load" THEN OrderOfFile(orders[MaxDepth + 1 - s[i].depth], s[i].file)
    ELSE <<s[i].file>> \o OrderOfNames(orders[MaxDepth + 1 - s[i].depth], Included(Then(s[i].file.body)))])

LEMMA OrdersAre == Orders = OrdersOf(files)
  BY DEF Orders, OrdersOf

LEMMA FramesAre == OrderOfFrames(todo) = FramesOf(Orders, todo)
  BY DEF OrderOfFrames, OrderOfFrame, FramesOf

LEMMA SameFiles ==
  ASSUME files' = files
  PROVE  Orders' = Orders
<1>1. (Orders = OrdersOf(files))'
  BY OrdersAre, PTL
<1>2. Orders' = OrdersOf(files')
  BY <1>1
<1>3. QED BY <1>2, OrdersAre

LEMMA SameOrder ==
  ASSUME files' = files, cmd' = cmd
  PROVE  /\ RefOrder(cmd.configs \o cmd.mirrors)' = RefOrder(cmd.configs \o cmd.mirrors)
         /\ OrderOfFrames(todo)' = OrderOfFrames(todo')
<1>1. Orders' = Orders
  BY SameFiles
<1>2. RefOrder(cmd.configs \o cmd.mirrors)' = RefOrder(cmd.configs \o cmd.mirrors)
  BY <1>1 DEF RefOrder
<1>3. (OrderOfFrames(todo) = FramesOf(Orders, todo))'
  BY FramesAre, PTL
<1>4. OrderOfFrames(todo') = FramesOf(Orders, todo')
  BY DEF OrderOfFrames, OrderOfFrame, FramesOf
<1>5. QED BY <1>1, <1>2, <1>3, <1>4

LEMMA InitOrder == Init => OrderOK
<1> SUFFICES ASSUME Init PROVE OrderOK
  OBVIOUS
<1> DEFINE names == IF cmd.preset = None THEN cmd.configs \o cmd.mirrors ELSE <<cmd.preset>>
           fr == Names(names, 0, 1)
           e == [key |-> "version", val |-> Str(<<Lit("now")>>)]
<1>1. /\ pc = (IF cmd.preset = None THEN "configs" ELSE "preset") /\ loaded = <<>> /\ todo = <<fr>>
      /\ config = <<e>>
  BY DEF Init
<1>2. LoadOK
  BY InitLoad
<1>3. Made(loaded, config)
  <2>1. HavingIn(loaded, "version") = {} /\ DOMAIN loaded = {}
    BY <1>1 DEF HavingIn
  <2>2. DictOf(GoodValues, config)
    BY <1>2, ConfigIs DEF LoadOK
  <2>3. KeysOf(config) = {"version"} /\ e \in Range(config)
    BY <1>1 DEF KeysOf, Range
  <2>4. ValueAt(config, "version").t = "str"
    <3>1. ValueAt(config, e.key) = e.val
      BY <2>2, <2>3, ValueAtIs
    <3>2. QED BY <3>1 DEF Str
  <2>5. QED BY <2>1, <2>3, <2>4 DEF Made
<1>4. ASSUME cmd.preset = None PROVE InOrder(loaded \o OrderOfFrames(todo))
  <2>1. FramesOK(AllFiles, <<fr>>) /\ fr \in Range(<<fr>>)
    BY <1>1, <1>2, SeqOne DEF LoadOK
  <2>2. FrameOK(AllFiles, fr)
    BY <2>1 DEF FramesOK
  <2>3. OrderOfFrames(<<fr>>) = OrderOfFrame(fr) /\ OrderOfFrame(fr) \in Seq(AllFiles)
    BY <1>2, <2>2, OneFrame, OrderOfFrameIs
  <2>4. fr.t = "names" /\ fr.names = names /\ fr.depth = 1
    BY DEF Names
  <2>5. MaxDepth + 2 - 1 = MaxDepth + 1
    BY ConfigsAssumption
  <2>6. OrderOfFrame(fr) = OrderOfNames(Orders[MaxDepth + 1], names)
    BY <2>4, <2>5 DEF OrderOfFrame
  <2> HIDE DEF fr, names
  <2>7. OrderOfFrames(todo) = OrderOfNames(Orders[MaxDepth + 1], names) /\ OrderOfFrames(todo) \in Seq(AllFiles)
    BY <1>1, <2>3, <2>6
  <2>8. loaded \o OrderOfFrames(todo) = OrderOfFrames(todo)
    BY <1>1, <2>7
  <2>9. names = cmd.configs \o cmd.mirrors
    BY <1>4 DEF names
  <2>10. QED BY <2>7, <2>8, <2>9 DEF InOrder, RefOrder
<1>5. QED BY <1>1, <1>3, <1>4 DEF OrderOK

(* A file that is merged when the list of another grows comes after that   *)
(* one, which has "+then" as well.                                         *)
LEMMA NestedStays ==
  ASSUME LoadOK, NEW f \in AllFiles, loaded' = Append(loaded, f)
  PROVE  NestedThen => NestedThen'
<1> SUFFICES ASSUME NestedThen PROVE NestedThen'
  OBVIOUS
<1> DEFINE n == Len(loaded)
<1>1. /\ n \in Nat /\ DOMAIN loaded = 1 .. n /\ DOMAIN loaded' = 1 .. (n + 1)
      /\ \A i \in 1 .. n : loaded'[i] = loaded[i]
  BY OneMore DEF LoadOK
<1>2. PICK i, j \in DOMAIN loaded :
         i # j /\ "+then" \in KeysOf(loaded[i].body) /\ "+then" \in KeysOf(loaded[j].body)
  BY DEF NestedThen
<1>3. i \in DOMAIN loaded' /\ j \in DOMAIN loaded' /\ loaded'[i] = loaded[i] /\ loaded'[j] = loaded[j]
  BY <1>1, <1>2
<1>4. QED BY <1>2, <1>3 DEF NestedThen

LEMMA SameFrame ==
  ASSUME NEW F, NEW fr, FrameOK(F, fr)
  PROVE  [fr EXCEPT !.names = fr.names \o <<>>] = fr
<1>1. ASSUME NEW x, NEW a, NEW b, NEW c, NEW d, NEW e, fr = [t |-> a, names |-> b, file |-> c, id |-> d, depth |-> e]
      PROVE  [fr EXCEPT !.names = x] = [t |-> a, names |-> x, file |-> c, id |-> d, depth |-> e]
  BY <1>1
<1>2. fr = [t |-> fr.t, names |-> fr.names, file |-> fr.file, id |-> fr.id, depth |-> fr.depth]
  BY DEF FrameOK
<1>3. fr.names \o <<>> = fr.names
  BY DEF FrameOK, IsSeq
<1>4. QED BY <1>1, <1>2, <1>3

LEMMA NotGrown ==
  ASSUME LoadOK, Made(loaded, config), NEW f \in AllFiles, loaded' = Append(loaded, f), ~NestedThen'
  PROVE  Grown(todo, Included(Then(f.body)), Grows(f.body)) = todo
<1> DEFINE more == Included(Then(f.body))
           n == Len(todo)
<1>1. todo = [i \in DOMAIN todo |-> todo[i]] /\ \A i \in DOMAIN todo : FrameOK(AllFiles, todo[i])
  <2>1. todo \in Seq(Range(todo))
    BY DEF LoadOK, FramesOK, IsSeq
  <2>2. \A i \in DOMAIN todo : todo[i] \in Range(todo)
    BY <2>1, LenProperties
  <2>3. QED BY <2>1, <2>2 DEF LoadOK, FramesOK
<1>2. CASE "+then" \notin KeysOf(f.body)
  <2>1. more = <<>>
    BY <1>2 DEF Then, List, Included
  <2>2. \A i \in DOMAIN todo : [todo[i] EXCEPT !.names = todo[i].names \o more] = todo[i]
    BY <1>1, <2>1, SameFrame
  <2> HIDE DEF more
  <2>3. Grown(todo, more, Grows(f.body)) = [i \in DOMAIN todo |-> todo[i]]
    BY <2>2 DEF Grown
  <2>4. QED BY <1>1, <2>3 DEF more
<1>3. CASE "+then" \in KeysOf(f.body)
  <2>1. "+then" \notin KeysOf(config)
    <3> SUFFICES ASSUME "+then" \in KeysOf(config) PROVE FALSE
      OBVIOUS
    <3>1. HavingIn(loaded, "+then") # {}
      BY DEF Made
    <3>2. PICK j \in DOMAIN loaded : "+then" \in KeysOf(loaded[j].body)
      BY <3>1 DEF HavingIn
    <3> DEFINE k == Len(loaded)
    <3>3. /\ k \in Nat /\ DOMAIN loaded = 1 .. k /\ DOMAIN loaded' = 1 .. (k + 1)
          /\ loaded'[k + 1] = f /\ \A i \in 1 .. k : loaded'[i] = loaded[i]
      BY OneMore DEF LoadOK
    <3> HIDE DEF k
    <3>4. j \in 1 .. (k + 1) /\ k + 1 \in 1 .. (k + 1) /\ j # k + 1
      BY <3>2, <3>3
    <3>5. loaded'[j] = loaded[j]
      BY <3>2, <3>3
    <3>6. NestedThen'
      BY <1>3, <3>2, <3>3, <3>4, <3>5 DEF NestedThen
    <3>7. QED BY <3>6
  <2>2. ~Grows(f.body)
    BY <2>1 DEF Grows
  <2> HIDE DEF more
  <2>3. Grown(todo, more, Grows(f.body)) = [i \in DOMAIN todo |-> todo[i]]
    BY <2>2 DEF Grown
  <2>4. QED BY <1>1, <2>3 DEF more
<1>4. QED BY <1>2, <1>3

(* A step that only unfolds the frames.                                    *)
LEMMA FramesStay ==
  ASSUME OrderOK, pc \in {"preset", "configs"}, UNCHANGED <<cmd, files, config, loaded, pc>>,
         OrderOfFrames(todo') = OrderOfFrames(todo)
  PROVE  OrderOK'
<1>1. RefOrder(cmd.configs \o cmd.mirrors)' = RefOrder(cmd.configs \o cmd.mirrors)
      /\ OrderOfFrames(todo)' = OrderOfFrames(todo)
  BY SameOrder
<1>2. NestedThen' = NestedThen
  BY DEF NestedThen
<1>3. InOrder(loaded \o OrderOfFrames(todo)) => InOrder(loaded \o OrderOfFrames(todo))'
  BY <1>1, <1>2 DEF InOrder
<1>4. Made(loaded, config)' = Made(loaded, config)
  OBVIOUS
<1>5. QED BY <1>3, <1>4 DEF OrderOK

(* The frames of the files of a name stand for what the name stands for.   *)
LEMMA LoadFramesOrder ==
  ASSUME LoadOK, NEW name \in DOMAIN files, NEW depth \in 1 .. MaxDepth
  PROVE  OrderOfFrames(LoadFrames(files[name], depth)) = Orders[MaxDepth + 2 - depth][name]
<1> DEFINE of == Orders[MaxDepth + 1 - depth]
           s == files[name]
           x == LoadFrames(s, depth)
<1>1. Orders[MaxDepth + 2 - depth] = NextOrder(of)
  BY DepthIs
<1>2. NextOrder(of)[name] = FlattenSeq([i \in DOMAIN s |-> OrderOfFile(of, s[i])])
  BY DEF NextOrder
<1>3. \A f : OrderOfFrame(Frame("load", f, depth)) = OrderOfFile(of, f)
  BY DEF OrderOfFrame, Frame
<1>4. [i \in DOMAIN x |-> OrderOfFrame(x[i])] = [i \in DOMAIN s |-> OrderOfFile(of, s[i])]
  <2>1. DOMAIN x = DOMAIN s /\ \A i \in DOMAIN s : x[i] = Frame("load", s[i], depth)
    BY DEF LoadFrames
  <2> HIDE DEF x, of, s
  <2>2. \A i \in DOMAIN s : OrderOfFrame(x[i]) = OrderOfFile(of, s[i])
    BY <1>3, <2>1
  <2>3. QED BY <2>1, <2>2
<1>5. QED BY <1>1, <1>2, <1>4 DEF OrderOfFrames

LEMMA LoadNextOrder == LoadOK /\ OrderOK /\ LoadNext => OrderOK'
<1> SUFFICES ASSUME LoadOK, OrderOK, LoadNext PROVE OrderOK'
  OBVIOUS
<1> DEFINE name == Head(Top.names)
           rest == [Top EXCEPT !.names = Tail(Top.names)]
<1>1. /\ todo # <<>> /\ Top.t = "names" /\ pc \in {"preset", "configs"}
      /\ UNCHANGED <<cmd, files, config, loaded>>
  BY DEF LoadNext, Loading
<1>2. /\ FrameOK(AllFiles, Top) /\ FramesOK(AllFiles, Tail(todo)) /\ todo = <<Top>> \o Tail(todo)
      /\ IsSeq(Top.names) /\ Top.depth \in 1 .. (MaxDepth + 1)
  BY <1>1, TopIs DEF FrameOK
<1>3. /\ FramesOK(AllFiles, <<Top>>)
      /\ OrderOfFrames(todo) = OrderOfFrame(Top) \o OrderOfFrames(Tail(todo))
      /\ OrderOfFrame(Top) \in Seq(AllFiles) /\ OrderOfFrames(Tail(todo)) \in Seq(AllFiles)
  <2>1. FramesOK(AllFiles, <<Top>>)
    BY <1>2, SeqOne DEF FramesOK
  <2> DEFINE a == <<Top>>
             b == Tail(todo)
  <2>2. FramesOK(AllFiles, a) /\ FramesOK(AllFiles, b) /\ todo = a \o b
    BY <1>2, <2>1
  <2> HIDE DEF a, b
  <2>3. OrderOfFrames(a \o b) = OrderOfFrames(a) \o OrderOfFrames(b) /\ OrderOfFrames(b) \in Seq(AllFiles)
    BY <2>2, OrderOfFramesIs
  <2>4. QED BY <1>2, <2>1, <2>2, <2>3, OneFrame, OrderOfFrameIs DEF a, b
<1>4. CASE Top.names = <<>>
  <2>1. todo' = Tail(todo) /\ pc' = pc
    BY <1>4 DEF LoadNext
  <2>2. OrderOfFrame(Top) = <<>>
    <3>1. \A of : OrderOfNames(of, <<>>) = <<>>
      BY FlattenEmpty DEF OrderOfNames
    <3>2. QED BY <1>1, <1>4, <3>1 DEF OrderOfFrame
  <2>3. OrderOfFrames(todo') = OrderOfFrames(todo)
    BY <1>3, <2>1, <2>2
  <2>4. QED BY <1>1, <2>1, <2>3, FramesStay
<1>5. CASE Top.names # <<>> /\ (name \notin DOMAIN files \/ files[name] = <<>> \/ Top.depth > MaxDepth)
  <2>1. pc' = "failed"
    BY <1>5 DEF LoadNext, Fail
  <2>2. QED BY <2>1 DEF OrderOK
<1>6. CASE Top.names # <<>> /\ ~(name \notin DOMAIN files \/ files[name] = <<>> \/ Top.depth > MaxDepth)
  <2>1. todo' = LoadFrames(files[name], Top.depth) \o <<rest>> \o Tail(todo) /\ pc' = pc
    BY <1>6 DEF LoadNext, LoadFrames
  <2>2. name \in DOMAIN files /\ Top.depth \in 1 .. MaxDepth
    BY <1>2, <1>6, ConfigsAssumption
  <2>3. OrderOfFrames(LoadFrames(files[name], Top.depth)) = Orders[MaxDepth + 2 - Top.depth][name]
    BY <2>2, LoadFramesOrder
  <2>4. FramesOK(AllFiles, LoadFrames(files[name], Top.depth))
    <3>1. files[name] \in Seq(AllFiles)
      BY <2>2, FilesAre DEF LoadOK
    <3>2. QED BY <2>2, <3>1, LoadFramesOK
  <2>5. FrameOK(AllFiles, rest) /\ rest.t = "names" /\ rest.names = Tail(Top.names) /\ rest.depth = Top.depth
    <3>1. IsSeq(Tail(Top.names))
      BY <1>2, <1>6, SeqTail
    <3>2. FrameOK(AllFiles, rest) /\ rest.t = Top.t /\ rest.names = Tail(Top.names) /\ rest.depth = Top.depth
      BY <1>2, <3>1, FrameNames
    <3> HIDE DEF rest
    <3>3. QED BY <1>1, <3>2
  <2>6. OrderOfFrame(Top) = OrderOfNames(Orders[MaxDepth + 2 - Top.depth], Top.names)
        /\ OrderOfFrame(rest) = OrderOfNames(Orders[MaxDepth + 2 - Top.depth], Tail(Top.names))
    <3> HIDE DEF rest
    <3>1. QED BY <1>1, <2>5 DEF OrderOfFrame
  <2>7. OrderOfFrame(Top) = OrderOfFrames(LoadFrames(files[name], Top.depth)) \o OrderOfFrame(rest)
    <3> DEFINE of == Orders[MaxDepth + 2 - Top.depth]
    <3>1. of \in [DOMAIN files -> Seq(AllFiles)]
      BY <1>2, DepthIs
    <3> HIDE DEF rest, of
    <3>2. OrderOfNames(of, Top.names) = of[name] \o OrderOfNames(of, Tail(Top.names))
      <4> DEFINE names == Top.names
                 D == DOMAIN files
      <4>1. IsSeq(names) /\ names # <<>> /\ Head(names) \in D /\ of \in [D -> Seq(AllFiles)]
        BY <1>2, <1>6, <2>2, <3>1
      <4> HIDE DEF names, D
      <4>2. OrderOfNames(of, names) = of[Head(names)] \o OrderOfNames(of, Tail(names))
        BY ONLY <4>1, OrderOfNamesIs
      <4>3. QED BY <4>2 DEF names
    <3>3. QED BY <2>3, <2>6, <3>2 DEF of
  <2> DEFINE a == LoadFrames(files[name], Top.depth)
             b == <<rest>>
             c == Tail(todo)
  <2>8. FramesOK(AllFiles, a) /\ FramesOK(AllFiles, b) /\ FramesOK(AllFiles, c)
    BY <1>2, <2>4, <2>5, SeqOne DEF FramesOK
  <2>9. OrderOfFrames(b) = OrderOfFrame(rest)
    BY <2>5, OneFrame
  <2>10. todo' = a \o b \o c /\ pc' = pc
    BY <2>1
  <2> HIDE DEF a, b, c, rest
  <2>11. OrderOfFrames(a \o b \o c) = OrderOfFrames(a) \o OrderOfFrames(b) \o OrderOfFrames(c)
    <3>1. FramesOK(AllFiles, a \o b)
      BY <2>8, FramesConcat
    <3>2. OrderOfFrames(a \o b) = OrderOfFrames(a) \o OrderOfFrames(b)
      BY <2>8, OrderOfFramesIs
    <3>3. OrderOfFrames((a \o b) \o c) = OrderOfFrames(a \o b) \o OrderOfFrames(c)
      BY <2>8, <3>1, OrderOfFramesIs
    <3>4. QED BY <3>2, <3>3
  <2>12. OrderOfFrames(todo') = OrderOfFrames(todo)
    BY <1>3, <2>7, <2>9, <2>10, <2>11 DEF a, c
  <2>13. QED BY <1>1, <2>10, <2>12, FramesStay
<1>7. QED BY <1>4, <1>5, <1>6

LEMMA LoadFileOrder == LoadOK /\ OrderOK /\ LoadFile => OrderOK'
<1> SUFFICES ASSUME LoadOK, OrderOK, LoadFile PROVE OrderOK'
  OBVIOUS
<1>1. /\ todo # <<>> /\ Top.t = "load" /\ pc \in {"preset", "configs"}
      /\ UNCHANGED <<cmd, files, config, loaded>>
      /\ \/ pc' = "failed"
         \/ pc' = pc /\ todo' = AfterAlso(Top.file, Top.depth) \o Tail(todo)
  BY DEF LoadFile, Loading, Fail
<1>2. /\ FrameOK(AllFiles, Top) /\ FramesOK(AllFiles, Tail(todo)) /\ todo = <<Top>> \o Tail(todo)
      /\ Top.file \in AllFiles /\ Top.depth \in 1 .. MaxDepth
  BY <1>1, TopIs DEF FrameOK
<1>3. CASE pc' = "failed"
  BY <1>3 DEF OrderOK
<1>4. CASE pc' = pc /\ todo' = AfterAlso(Top.file, Top.depth) \o Tail(todo)
  <2> DEFINE of == Orders[MaxDepth + 1 - Top.depth]
             a == Names(Included(Top.file.also), 0, Top.depth + 1)
             b == Frame("merge", Top.file, Top.depth)
             t == Tail(todo)
  <2>1. of \in [DOMAIN files -> Seq(AllFiles)] /\ Top.depth + 1 \in 1 .. (MaxDepth + 1)
        /\ MaxDepth + 2 - (Top.depth + 1) = MaxDepth + 1 - Top.depth
    BY <1>2, DepthIs
  <2>2. FrameOK(AllFiles, a) /\ FrameOK(AllFiles, b)
    <3>1. IsSeq(Included(Top.file.also)) /\ "merge" \in {"load", "merge"}
      BY <1>2, FilesAre, StringsOf DEF LoadOK
    <3>2. QED BY <1>2, <2>1, <3>1, NamesOK, FileFrameOK
  <2>3. OrderOfFrame(a) = OrderOfNames(of, Included(Top.file.also))
    BY <2>1 DEF OrderOfFrame, Names
  <2>4. OrderOfFrame(b) = <<Top.file>> \o OrderOfNames(of, Included(Then(Top.file.body)))
    BY DEF OrderOfFrame, Frame
  <2>5. OrderOfFrame(Top) = OrderOfFile(of, Top.file)
    BY <1>1 DEF OrderOfFrame
  <2>6. OrderOfFrame(Top) = OrderOfFrame(a) \o OrderOfFrame(b)
    <3> HIDE DEF a, b, of
    <3>1. QED BY <1>2, <2>1, <2>3, <2>4, <2>5, OrderOfFileIs
  <2>7. todo' = <<a>> \o <<b>> \o t
    BY <1>4 DEF AfterAlso
  <2> HIDE DEF a, b, t, of
  <2>8. FramesOK(AllFiles, <<a>>) /\ FramesOK(AllFiles, <<b>>) /\ FramesOK(AllFiles, <<Top>>) /\ FramesOK(AllFiles, t)
    BY <1>2, <2>2, SeqOne DEF FramesOK, t
  <2>9. OrderOfFrames(<<a>>) = OrderOfFrame(a) /\ OrderOfFrames(<<b>>) = OrderOfFrame(b)
         /\ OrderOfFrames(<<Top>>) = OrderOfFrame(Top)
    BY <1>2, <2>2, OneFrame
  <2>10. OrderOfFrames(todo') = OrderOfFrames(todo)
    <3> DEFINE x == <<a>>
               y == <<b>>
               z == <<Top>>
    <3>1. FramesOK(AllFiles, x) /\ FramesOK(AllFiles, y) /\ FramesOK(AllFiles, z) /\ todo' = (x \o y) \o t /\ todo = z \o t
      BY <1>2, <2>7, <2>8 DEF t
    <3>2. OrderOfFrames(x) = OrderOfFrame(a) /\ OrderOfFrames(y) = OrderOfFrame(b) /\ OrderOfFrames(z) = OrderOfFrame(Top)
      BY <2>9
    <3> HIDE DEF x, y, z
    <3>3. FramesOK(AllFiles, x \o y)
      BY <3>1, FramesConcat
    <3>4. OrderOfFrames(x \o y) = OrderOfFrames(x) \o OrderOfFrames(y)
      BY <3>1, OrderOfFramesIs
    <3>5. OrderOfFrames((x \o y) \o t) = OrderOfFrames(x \o y) \o OrderOfFrames(t)
      BY <2>8, <3>3, OrderOfFramesIs
    <3>6. OrderOfFrames(z \o t) = OrderOfFrames(z) \o OrderOfFrames(t)
      BY <2>8, <3>1, OrderOfFramesIs
    <3>7. QED BY <2>6, <3>1, <3>2, <3>4, <3>5, <3>6
  <2>11. QED BY <1>1, <1>4, <2>10, FramesStay
<1>5. QED BY <1>1, <1>3, <1>4

LEMMA MergeFileOrder == LoadOK /\ OrderOK /\ MergeFile => OrderOK'
<1> SUFFICES ASSUME LoadOK, OrderOK, MergeFile PROVE OrderOK'
  OBVIOUS
<1> DEFINE f == Top.file
           more == Included(Then(f.body))
           id == MergeId(f.body, Grows(f.body))
           a == Names(more, id, Top.depth + 1)
           t == Tail(todo)
           of == Orders[MaxDepth + 1 - Top.depth]
<1>1. /\ todo # <<>> /\ Top.t = "merge" /\ pc \in {"preset", "configs"}
      /\ config' = DictMerge(config, f.body) /\ loaded' = Append(loaded, f)
      /\ UNCHANGED <<cmd, files>>
      /\ \/ pc' = pc /\ todo' = <<a>> \o Tail(Grown(todo, more, Grows(f.body)))
         \/ pc' = "failed"
  BY MergeFileIs
<1>2. /\ FrameOK(AllFiles, Top) /\ FramesOK(AllFiles, t) /\ todo = <<Top>> \o t
      /\ f \in AllFiles /\ Top.depth \in 1 .. MaxDepth
  BY <1>1, TopIs DEF FrameOK
<1>3. Made(loaded', config')
  <2>1. Bodies(AllFiles) /\ IsConfiguration(config) /\ loaded \in Seq(AllFiles) /\ Made(loaded, config)
    BY <1>1, FilesAre DEF Bodies, LoadOK, OrderOK
  <2> HIDE DEF f
  <2>2. QED BY <1>1, <1>2, <2>1, MadeMore
<1>4. CASE pc' = "failed"
  BY <1>4 DEF OrderOK
<1>5. CASE pc' = pc /\ todo' = <<a>> \o Tail(Grown(todo, more, Grows(f.body)))
  <2>1. of \in [DOMAIN files -> Seq(AllFiles)] /\ Top.depth + 1 \in 1 .. (MaxDepth + 1)
        /\ MaxDepth + 2 - (Top.depth + 1) = MaxDepth + 1 - Top.depth
    BY <1>2, DepthIs
  <2>2. IsSeq(more) /\ OrderOfNames(of, more) \in Seq(AllFiles)
    <3>1. IsSeq(more)
      BY <1>2, FilesAre, ThenIs DEF LoadOK
    <3> HIDE DEF of, more
    <3>2. QED BY <2>1, <3>1, OrderOfNamesIs
  <2>3. FrameOK(AllFiles, a)
    BY <2>1, <2>2, NamesOK
  <2>4. OrderOfFrame(a) = OrderOfNames(of, more)
    BY <2>1 DEF OrderOfFrame, Names
  <2>5. OrderOfFrame(Top) = <<f>> \o OrderOfNames(of, more)
    BY <1>1 DEF OrderOfFrame
  <2>6. OrderOfFrames(<<a>> \o t) = OrderOfNames(of, more) \o OrderOfFrames(t)
        /\ OrderOfFrames(todo) = (<<f>> \o OrderOfNames(of, more)) \o OrderOfFrames(t)
        /\ OrderOfFrames(t) \in Seq(AllFiles)
    <3> DEFINE x == <<a>>
               y == <<Top>>
    <3>1. FramesOK(AllFiles, x) /\ FramesOK(AllFiles, y) /\ todo = y \o t
      BY <1>2, <2>3, SeqOne DEF FramesOK
    <3>2. OrderOfFrames(x) = OrderOfNames(of, more) /\ OrderOfFrames(y) = <<f>> \o OrderOfNames(of, more)
      BY <1>2, <2>3, <2>4, <2>5, OneFrame
    <3> HIDE DEF x, y, t, of, more, f
    <3>3. OrderOfFrames(x \o t) = OrderOfFrames(x) \o OrderOfFrames(t)
      BY <1>2, <3>1, OrderOfFramesIs
    <3>4. OrderOfFrames(y \o t) = OrderOfFrames(y) \o OrderOfFrames(t) /\ OrderOfFrames(t) \in Seq(AllFiles)
      BY <1>2, <3>1, OrderOfFramesIs
    <3>5. QED BY <3>1, <3>2, <3>3, <3>4 DEF x
  <2>7. loaded' \o OrderOfFrames(<<a>> \o t) = loaded \o OrderOfFrames(todo)
    <3> DEFINE b == OrderOfNames(of, more)
               c == OrderOfFrames(t)
    <3>1. b \in Seq(AllFiles) /\ c \in Seq(AllFiles) /\ loaded \in Seq(AllFiles) /\ <<f>> \in Seq(AllFiles)
      BY <1>2, <2>2, <2>6 DEF LoadOK
    <3>2. loaded' = loaded \o <<f>>
      <4>1. \A F : \A s \in Seq(F) : \A x \in F : Append(s, x) = s \o <<x>>
        OBVIOUS
      <4>2. QED BY <1>1, <1>2, <3>1, <4>1
    <3> HIDE DEF b, c
    <3>3. \A x, y, z \in Seq(AllFiles) : x \o y \o z = x \o (y \o z) /\ x \o y \in Seq(AllFiles)
      BY ConcatAssociative, ConcatProperties
    <3>4. (loaded \o <<f>>) \o (b \o c) = loaded \o ((<<f>> \o b) \o c)
      <4> DEFINE g == <<f>>
      <4> HIDE DEF g
      <4>1. (loaded \o g) \o (b \o c) = loaded \o (g \o (b \o c)) /\ (g \o b) \o c = g \o (b \o c)
        BY <3>1, <3>3 DEF g
      <4>2. QED BY <4>1 DEF g
    <3>5. QED BY <2>6, <3>2, <3>4 DEF b, c
  <2>8. pc = "configs" => InOrder(loaded \o OrderOfFrames(todo))'
    <3> SUFFICES ASSUME pc = "configs", ~NestedThen', cmd.preset = None
        PROVE  (loaded \o OrderOfFrames(todo))' = RefOrder(cmd.configs \o cmd.mirrors)'
      BY <1>1 DEF InOrder
    <3>1. ~NestedThen
      BY <1>1, <1>2, NestedStays
    <3>2. Grown(todo, more, Grows(f.body)) = todo
      BY <1>1, <1>2, NotGrown DEF OrderOK
    <3>3. todo' = <<a>> \o t
      BY <1>5, <3>2
    <3>4. loaded \o OrderOfFrames(todo) = RefOrder(cmd.configs \o cmd.mirrors)
      BY <3>1 DEF OrderOK, InOrder
    <3>5. RefOrder(cmd.configs \o cmd.mirrors)' = RefOrder(cmd.configs \o cmd.mirrors)
          /\ OrderOfFrames(todo)' = OrderOfFrames(todo')
      BY <1>1, SameOrder
    <3> HIDE DEF a, t
    <3>6. QED BY <2>7, <3>3, <3>4, <3>5
  <2>9. pc' = "preset" => cmd.preset # None
    BY <1>5 DEF OrderOK
  <2>10. Made(loaded, config)'
    BY <1>3
  <2>11. QED BY <1>1, <1>5, <2>8, <2>9, <2>10 DEF OrderOK
<1>6. QED BY <1>1, <1>4, <1>5

LEMMA PresetLoadedOrder == LoadOK /\ OrderOK /\ PresetLoaded => OrderOK'
<1> SUFFICES ASSUME LoadOK, OrderOK, PresetLoaded PROVE OrderOK'
  OBVIOUS
<1>1. /\ pc = "preset" /\ UNCHANGED <<cmd, files, config, loaded>> /\ pc' \in {"failed", "configs"}
  BY DEF PresetLoaded, Fail
<1>2. cmd.preset # None /\ Made(loaded, config)
  BY <1>1 DEF OrderOK
<1>3. Made(loaded, config)' /\ cmd'.preset # None
  BY <1>1, <1>2
<1>4. InOrder(loaded \o OrderOfFrames(todo))'
  BY <1>3 DEF InOrder
<1>5. QED BY <1>1, <1>3, <1>4 DEF OrderOK

LEMMA PopulateOrder == LoadOK /\ OrderOK /\ Populate => OrderOK'
<1> SUFFICES ASSUME LoadOK, OrderOK, Populate PROVE OrderOK'
  OBVIOUS
<1>1. /\ pc = "configs" /\ todo = <<>> /\ UNCHANGED <<cmd, files, loaded>>
      /\ \/ /\ pc' = "populated" /\ KeysOf(config') = KeysOf(config) \cup KeysOf(Paths0)
            /\ \A k \in KeysOf(config) \ KeysOf(Paths0) : ValueAt(config', k) = ValueAt(config, k)
         \/ pc' = "failed"
  BY PopulateIs
<1>2. Made(loaded, config) /\ InOrder(loaded \o OrderOfFrames(todo))
  BY <1>1 DEF OrderOK
<1>3. loaded \o OrderOfFrames(todo) = loaded
  <2>1. OrderOfFrames(todo) = <<>>
    BY <1>1, FlattenEmpty DEF OrderOfFrames
  <2>2. QED BY <2>1 DEF LoadOK
<1>4. InOrder(loaded)'
  <2>1. RefOrder(cmd.configs \o cmd.mirrors)' = RefOrder(cmd.configs \o cmd.mirrors)
    BY <1>1, SameOrder
  <2>2. NestedThen' = NestedThen
    BY <1>1 DEF NestedThen
  <2>3. InOrder(loaded)
    BY <1>2, <1>3
  <2>4. QED BY <1>1, <2>1, <2>2, <2>3 DEF InOrder
<1>5. CASE pc' = "failed"
  BY <1>5 DEF OrderOK
<1>6. CASE /\ pc' = "populated" /\ KeysOf(config') = KeysOf(config) \cup KeysOf(Paths0)
           /\ \A k \in KeysOf(config) \ KeysOf(Paths0) : ValueAt(config', k) = ValueAt(config, k)
  <2>1. ASSUME NEW key \in KeysOf(config') \ KeysOf(Paths0), HavingIn(loaded, key) # {}
        PROVE  FromFiles(loaded, key, ValueAt(config', key))
    <3>1. key \in KeysOf(config) \ KeysOf(Paths0) /\ ValueAt(config', key) = ValueAt(config, key)
      BY <1>6
    <3>2. FromFiles(loaded, key, ValueAt(config, key))
      BY <1>2, <2>1, <3>1 DEF Made
    <3>3. QED BY <3>1, <3>2
  <2>2. (\A key \in KeysOf(config) \ KeysOf(Paths0) :
            HavingIn(loaded, key) # {} => FromFiles(loaded, key, ValueAt(config, key)))'
    BY <1>1, <2>1
  <2>3. QED BY <1>4, <1>6, <2>2 DEF OrderOK
<1>7. QED BY <1>1, <1>5, <1>6

LEMMA OrderKeeps == LoadOK /\ OrderOK /\ [Next]_vars => OrderOK'
<1> SUFFICES ASSUME LoadOK, OrderOK, [Next]_vars PROVE OrderOK'
  OBVIOUS
<1>1. CASE LoadNext \/ LoadFile \/ MergeFile
  BY <1>1, LoadNextOrder, LoadFileOrder, MergeFileOrder
<1>2. CASE PresetLoaded \/ Populate
  BY <1>2, PresetLoadedOrder, PopulateOrder
<1>3. CASE ResolveSubscript \/ ParseNode \/ NextPass \/ ParseRaises \/ AddRootCmdline \/ Ended \/ UNCHANGED vars
  <2>1. UNCHANGED <<cmd, files, config, loaded>> /\ todo' = todo
    BY <1>3 DEF ResolveSubscript, ParseNode, NextPass, ParseRaises, AddRootCmdline, Ended, vars, loading
  <2>2. pc' = pc \/ pc' \in {"failed", "again", "added", "done"}
        \/ (pc \in {"populated", "resolve"} /\ pc' \in {"resolve", "ready"})
    BY <1>3 DEF ResolveSubscript, ParseNode, NextPass, ParseRaises, AddRootCmdline, Ended, vars, Fail, Parsing
  <2>3. InOrder(loaded) => InOrder(loaded)'
    <3>1. RefOrder(cmd.configs \o cmd.mirrors)' = RefOrder(cmd.configs \o cmd.mirrors)
      BY <2>1, SameOrder
    <3>2. NestedThen' = NestedThen
      BY <2>1 DEF NestedThen
    <3>3. QED BY <2>1, <3>1, <3>2 DEF InOrder
  <2>4. ASSUME pc' = pc, pc \in {"preset", "configs"} PROVE OrderOK'
    BY <2>1, <2>4, FramesStay
  <2>5. CASE pc' \in {"failed", "again", "added", "done"}
    BY <2>5 DEF OrderOK
  <2>6. CASE pc \in {"populated", "resolve", "ready"} /\ pc' \in {"populated", "resolve", "ready"}
    <3>1. /\ InOrder(loaded)
          /\ \A key \in KeysOf(config) \ KeysOf(Paths0) :
                HavingIn(loaded, key) # {} => FromFiles(loaded, key, ValueAt(config, key))
      BY <2>6 DEF OrderOK
    <3>2. (\A key \in KeysOf(config) \ KeysOf(Paths0) :
              HavingIn(loaded, key) # {} => FromFiles(loaded, key, ValueAt(config, key)))'
      BY <2>1, <3>1
    <3>3. QED BY <2>3, <2>6, <3>1, <3>2 DEF OrderOK
  <2>7. CASE pc' = pc /\ pc \notin {"preset", "configs", "populated", "resolve", "ready"}
    BY <2>7 DEF OrderOK
  <2>8. QED BY <2>2, <2>4, <2>5, <2>6, <2>7
<1>4. QED BY <1>1, <1>2, <1>3 DEF Next, Step

LEMMA InOrderIs == LoadOK /\ OrderOK => LoadedInOrder
<1> SUFFICES ASSUME LoadOK, OrderOK, pc \in {"populated", "ready"} PROVE
        /\ NestedThen \/ cmd.preset # None \/ loaded = RefOrder(cmd.configs \o cmd.mirrors)
        /\ \A e \in Range(config) :
              LET last == ValueIn(LastWith(e.key), e.key)
                  run == LastRun(e.key)
              IN  Having(e.key) # {} /\ e.key \notin KeysOf(Paths0) =>
                     CASE last.t = "str" -> e.val = last
                       [] last.t = "list" ->
                            e.val.strings = FlattenSeq([i \in DOMAIN loaded |->
                                IF i \in run THEN ValueIn(i, e.key).strings ELSE <<>>])
                       [] last.t = "dict" ->
                            KeysOf(e.val.entries) = UNION {KeysOf(ValueIn(i, e.key).entries) : i \in run}
  BY DEF LoadedInOrder
<1>1. NestedThen \/ cmd.preset # None \/ loaded = RefOrder(cmd.configs \o cmd.mirrors)
  BY DEF OrderOK, InOrder
<1>2. ASSUME NEW e \in Range(config), Having(e.key) # {}, e.key \notin KeysOf(Paths0)
      PROVE  LET last == ValueIn(LastWith(e.key), e.key)
                 run == LastRun(e.key)
             IN  CASE last.t = "str" -> e.val = last
                   [] last.t = "list" ->
                        e.val.strings = FlattenSeq([i \in DOMAIN loaded |->
                            IF i \in run THEN ValueIn(i, e.key).strings ELSE <<>>])
                   [] last.t = "dict" ->
                        KeysOf(e.val.entries) = UNION {KeysOf(ValueIn(i, e.key).entries) : i \in run}
  <2> DEFINE key == e.key
             last == ValueOf(loaded, LastIn(loaded, key), key)
             run == RunIn(loaded, key)
  <2>1. Having(key) = HavingIn(loaded, key) /\ \A i : ValueIn(i, key) = ValueOf(loaded, i, key)
    BY DEF Having, HavingIn, ValueIn, ValueOf
  <2>2. LastWith(key) = LastIn(loaded, key)
    BY <2>1 DEF LastWith, LastIn
  <2>3. LastRun(key) = run
    BY <2>1, <2>2 DEF LastRun, RunIn
  <2>4. DictOf(GoodValues, config)
    BY ConfigIs DEF LoadOK
  <2>5. key \in KeysOf(config) /\ ValueAt(config, key) = e.val
    BY <2>4, ValueAtIs
  <2>6. FromFiles(loaded, key, e.val)
    BY <1>2, <2>1, <2>5 DEF OrderOK
  <2>7. last.t \in {"str", "list", "dict"}
    <3>1. e.val \in GoodValues
      BY <2>4, <2>5, ValueAtIs
    <3>2. e.val.t \in {"str", "list", "dict"}
      BY <3>1, ValueTypes DEF GoodValues
    <3>3. QED BY <2>6, <3>2 DEF FromFiles
  <2>8. /\ last.t = "str" => e.val = last
        /\ last.t = "list" => e.val.strings = FlattenSeq(StringsIn(loaded, key, run))
        /\ last.t = "dict" => KeysOf(e.val.entries) = KeysIn(loaded, key, run)
    BY <2>6 DEF FromFiles
  <2>9. ValueIn(LastWith(key), key) = last
    BY <2>1, <2>2
  <2>10. StringsIn(loaded, key, run) = [i \in DOMAIN loaded |-> IF i \in run THEN ValueIn(i, key).strings ELSE <<>>]
    BY <2>1 DEF StringsIn
  <2>11. KeysIn(loaded, key, run) = UNION {KeysOf(ValueIn(i, key).entries) : i \in run}
    BY <2>1 DEF KeysIn
  <2> HIDE DEF last, run
  <2>12. QED BY <2>3, <2>7, <2>8, <2>9, <2>10, <2>11
<1>3. QED BY <1>1, <1>2

-----------------------------------------------------------------------------
(* The theorems.                                                           *)

(* While the files are loaded the configuration is one, and every frame of *)
(* load_configs and load_config_file has names to go through or a file of  *)
(* configs/, no deeper than Python lets the recursion go.                  *)
THEOREM LoadingIsTyped == Spec => []LoadOK
<1>1. QED BY InitLoad, LoadKeeps, PTL DEF Spec

(* What parse and parse_rec have replaced so far is decided by the         *)
(* references alone: a value that counts as resolved can be, its text is   *)
(* one its pieces allow, and a pass that resolves nothing has met only     *)
(* values that nothing resolved can give a text.                           *)
THEOREM ValuesAreKept == ASSUME NumeralsDiffer PROVE Spec => [](LoadOK /\ ValuesOK)
<1>1. Init => LoadOK /\ ValuesOK
  BY InitLoad, InitValues
<1>2. LoadOK /\ ValuesOK /\ [Next]_vars => (LoadOK /\ ValuesOK)'
  BY LoadKeeps, ValuesKeep
<1>3. QED BY <1>1, <1>2, PTL DEF Spec

(* SubScript.parse refuses a configuration exactly when one of its         *)
(* references can never be looked up or some value can have no text, in    *)
(* whatever order the keys are, whatever refers to what, and both times    *)
(* that resolve_subscript is called.                                       *)
THEOREM ReferencesAreResolved == ASSUME NumeralsDiffer PROVE Spec => []ResolvableIsResolved
<1>1. QED BY ValuesAreKept, NoneIsReplacedWrong, PTL

(* Every value that process and parse_rec replaced agrees with the values  *)
(* it refers to, through any chain of references, and took a default only  *)
(* for what cannot be had without one; also after proc_cmdline_root has    *)
(* added to the configuration that is resolved again.                      *)
THEOREM ReferencesAgree == ASSUME NumeralsDiffer PROVE Spec => []ReplacedAgree
<1>1. QED BY ValuesAreKept, AllReplacedAgree, PTL

(* load_configs and load_config_file merge the files in the order that     *)
(* "+also" and "+then" ask for, for any files with any includes of which   *)
(* at most one file merged has "+then", without a preset; and for any      *)
(* files at all _dict_merge leaves the last string, all strings of the     *)
(* lists and all keys of the dicts.  The frames always stand for the rest  *)
(* of the order, and every value is what the files merged so far make.     *)
THEOREM FilesAreInOrder == Spec => []LoadedInOrder
<1>1. LoadOK /\ OrderOK /\ [Next]_vars => (LoadOK /\ OrderOK)'
  BY LoadKeeps, OrderKeeps
<1>2. QED BY InitLoad, InitOrder, <1>1, InOrderIs, PTL DEF Spec
=============================================================================
