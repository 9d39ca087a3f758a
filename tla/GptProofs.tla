------------------------------ MODULE GptProofs ------------------------------
(***************************************************************************)
(* Proofs about GptLayout, for any disks, configurations and alignment:    *)
(* what the lists of areas hold, and where the partitions lie.             *)
(***************************************************************************)
EXTENDS GptLayout, SequenceTheorems, FiniteSetTheorems, WellFoundedInduction, TLAPS

-----------------------------------------------------------------------------
(* Loops: a recursive function over 0..n.                                  *)

LEMMA LeastIndex ==
  ASSUME NEW I \in SUBSET Nat, I # {}
  PROVE  \E x \in I : \A y \in I : x =< y
<1>1. \E x \in I : \A y \in I : ~(<<y, x>> \in OpToRel(<, Nat))
  BY WFMin, NatLessThanWellFounded
<1>2. \A x, y \in Nat : x =< y \/ <<y, x>> \in OpToRel(<, Nat)
  BY DEF OpToRel
<1>3. QED BY <1>1, <1>2

(* A set with 0 that goes from each number to the next has all of them.    *)
LEMMA Upto ==
  ASSUME NEW n \in Nat, NEW G, 0 \in G, \A i \in 1 .. n : i - 1 \in G => i \in G
  PROVE  \A i \in 0 .. n : i \in G
<1> DEFINE bad == {i \in 0 .. n : i \notin G}
<1>1. SUFFICES ASSUME bad # {} PROVE FALSE
  OBVIOUS
<1>2. bad \in SUBSET Nat
  OBVIOUS
<1> HIDE DEF bad
<1>3. PICK x \in bad : \A y \in bad : x =< y
  BY <1>1, <1>2, LeastIndex
<1>4. x \in 0 .. n /\ x \notin G
  BY DEF bad
<1>5. x \in 1 .. n /\ x - 1 \in 0 .. n
  BY <1>4
<1>6. x - 1 \notin bad
  BY <1>3, <1>5, <1>2
<1>7. QED BY <1>4, <1>5, <1>6 DEF bad

IsLoop(f, n, a, F) == f = [i \in 0 .. n |-> IF i = 0 THEN a ELSE F[i][f[i - 1]]]

(* The function that such a loop defines exists.                           *)
LEMMA Loop ==
  ASSUME NEW n \in Nat, NEW X, NEW a \in X, NEW F \in [1 .. n -> [X -> X]]
  PROVE  \E f \in [0 .. n -> X] : IsLoop(f, n, a, F)
<1> DEFINE Is(f, m) == /\ f \in [0 .. m -> X] /\ f[0] = a
                       /\ \A i \in 1 .. m : f[i] = F[i][f[i - 1]]
           G == {m \in 0 .. n : \E f : Is(f, m)}
<1>1. 0 \in G
  <2>1. Is([i \in 0 .. 0 |-> a], 0)
    OBVIOUS
  <2> HIDE DEF Is
  <2>2. 0 \in 0 .. n
    OBVIOUS
  <2>3. QED BY <2>1, <2>2
<1>2. ASSUME NEW m \in 1 .. n, m - 1 \in G PROVE m \in G
  <2>1. PICK g : Is(g, m - 1)
    BY <1>2
  <2>2. /\ g \in [0 .. (m - 1) -> X] /\ g[0] = a
        /\ \A i \in 1 .. (m - 1) : g[i] = F[i][g[i - 1]]
    BY <2>1
  <2>3. m \in Nat /\ m # 0 /\ m - 1 \in 0 .. (m - 1) /\ \A i \in 0 .. m : i # m => i \in 0 .. (m - 1)
    OBVIOUS
  <2> DEFINE f == [i \in 0 .. m |-> IF i = m THEN F[m][g[m - 1]] ELSE g[i]]
  <2>4. g[m - 1] \in X
    BY <2>2, <2>3
  <2>5. F[m][g[m - 1]] \in X
    BY <2>4
  <2>6. f \in [0 .. m -> X] /\ \A i \in 0 .. m : f[i] = IF i = m THEN F[m][g[m - 1]] ELSE g[i]
    BY <2>2, <2>3, <2>5
  <2> HIDE DEF f
  <2>7. f[0] = a
    <3>1. 0 \in 0 .. m
      OBVIOUS
    <3>2. QED BY <2>2, <2>3, <2>6, <3>1
  <2>8. ASSUME NEW i \in 1 .. m PROVE f[i] = F[i][f[i - 1]]
    <3>1. i \in 0 .. m /\ i - 1 \in 0 .. m /\ i - 1 # m
      OBVIOUS
    <3>2. CASE i = m
      BY <3>1, <3>2, <2>6
    <3>3. CASE i # m
      <4>1. i \in 1 .. (m - 1)
        BY <3>3
      <4>2. f[i] = g[i] /\ f[i - 1] = g[i - 1]
        BY <3>1, <3>3, <2>6
      <4>3. QED BY <4>1, <4>2, <2>2
    <3>4. QED BY <3>2, <3>3
  <2>9. Is(f, m)
    BY <2>6, <2>7, <2>8
  <2>10. m \in 0 .. n
    OBVIOUS
  <2>11. QED BY <2>9, <2>10
<1> HIDE DEF G
<1>3. n \in G
  <2>1. \A i \in 0 .. n : i \in G
    BY <1>1, <1>2, Upto
  <2>2. n \in 0 .. n
    OBVIOUS
  <2>3. QED BY <2>1, <2>2
<1>4. PICK f : Is(f, n)
  BY <1>3 DEF G
<1>5. f = [i \in 0 .. n |-> IF i = 0 THEN a ELSE F[i][f[i - 1]]]
  <2>1. f = [i \in 0 .. n |-> f[i]]
    BY <1>4
  <2>2. \A i \in 0 .. n : i # 0 => i \in 1 .. n
    OBVIOUS
  <2>3. \A i \in 0 .. n : f[i] = IF i = 0 THEN a ELSE F[i][f[i - 1]]
    BY <2>2, <1>4
  <2>4. QED BY <2>1, <2>3
<1>6. QED BY <1>4, <1>5 DEF IsLoop

(* A set of positions that has each one below its elements is a prefix.     *)
LEMMA PrefixIs ==
  ASSUME NEW n \in Nat, NEW B \in SUBSET (1 .. n),
         \A i \in B : \A j \in 1 .. i : j \in B
  PROVE  Cardinality(B) \in 0 .. n /\ B = 1 .. Cardinality(B)
<1> DEFINE I == {i \in 1 .. (n + 1) : i \notin B}
<1>1. n + 1 \in I /\ I \in SUBSET Nat
  OBVIOUS
<1> HIDE DEF I
<1>2. PICK x \in I : \A y \in I : x =< y
  BY <1>1, LeastIndex
<1>3. x \in 1 .. (n + 1) /\ x \notin B
  BY DEF I
<1>4. B = 1 .. (x - 1)
  <2>1. \A i \in 1 .. (x - 1) : i \in 1 .. (n + 1) /\ ~(x =< i)
    BY <1>3
  <2>2. \A i \in 1 .. (x - 1) : i \in B
    BY <1>2, <2>1 DEF I
  <2>3. ASSUME NEW i \in B PROVE i \in 1 .. (x - 1)
    <3>1. i \in 1 .. n /\ ~(x \in 1 .. i)
      BY <1>3
    <3>2. QED BY <3>1, <1>3
  <2>4. QED BY <2>2, <2>3
<1>5. Cardinality(1 .. (x - 1)) = x - 1
  <2>1. 1 \in Int /\ x - 1 \in Int
    BY <1>3
  <2>2. QED BY <2>1, <1>3, FS_Interval
<1>6. x - 1 \in 0 .. n
  BY <1>3
<1>7. QED BY <1>4, <1>5, <1>6

-----------------------------------------------------------------------------
(* Sequences: what an insertion and a removal leave.                       *)

LEMMA InsertAtIs ==
  ASSUME NEW s, NEW i, NEW e, NEW k, i - 1 = k
  PROVE  InsertAt(s, i, e) = SubSeq(s, 1, k) \o <<e>> \o SubSeq(s, i, Len(s))
<1>1. InsertAt(s, i, e) = SubSeq(s, 1, i - 1) \o <<e>> \o SubSeq(s, i, Len(s))
  BY DEF InsertAt
<1>2. QED BY <1>1, Zenon

LEMMA InsertAtSeq ==
  ASSUME NEW S, NEW s \in Seq(S), NEW e \in S, NEW k \in 0 .. Len(s)
  PROVE  /\ InsertAt(s, k + 1, e) \in Seq(S)
         /\ Len(InsertAt(s, k + 1, e)) = Len(s) + 1
         /\ \A i \in 1 .. (Len(s) + 1) :
              InsertAt(s, k + 1, e)[i] =
                IF i <= k THEN s[i] ELSE IF i = k + 1 THEN e ELSE s[i - 1]
<1> DEFINE n == Len(s)
           t == InsertAt(s, k + 1, e)
           a == SubSeq(s, 1, k)
           b == a \o <<e>>
           c == SubSeq(s, k + 1, n)
<1>1. n \in Nat /\ k \in Nat /\ k =< n /\ \A i \in 1 .. n : s[i] \in S
  BY LenProperties
<1>2. t = b \o c
  <2> DEFINE m == k + 1
  <2>1. m - 1 = k
    BY <1>1
  <2> HIDE DEF m
  <2>2. InsertAt(s, m, e) = SubSeq(s, 1, k) \o <<e>> \o SubSeq(s, m, Len(s))
    BY <2>1, InsertAtIs
  <2>3. QED BY <2>2 DEF m
<1>3. a \in Seq(S) /\ Len(a) = k /\ \A i \in 1 .. k : a[i] = s[i]
  BY <1>1, SubSeqProperties
<1>4. c \in Seq(S) /\ Len(c) = n - k /\ \A i \in 1 .. (n - k) : c[i] = s[k + i]
  <2>1. k + 1 \in Int /\ n \in Int /\ \A i \in (k + 1) .. n : s[i] \in S
    BY <1>1
  <2> HIDE DEF n
  <2>2. /\ c \in Seq(S) /\ Len(c) = IF k + 1 <= n THEN n - (k + 1) + 1 ELSE 0
        /\ \A i \in 1 .. (n - (k + 1) + 1) : c[i] = s[(k + 1) + i - 1]
    BY <2>1, SubSeqProperties
  <2> HIDE DEF c
  <2>3. n - (k + 1) + 1 = n - k /\ \A i \in 1 .. (n - k) : (k + 1) + i - 1 = k + i
    BY <1>1
  <2>4. QED BY <2>2, <2>3, <1>1
<1> HIDE DEF a, c, n, t
<1>5. /\ b \in Seq(S) /\ Len(b) = k + 1 /\ b[k + 1] = e
      /\ \A i \in 1 .. k : b[i] = s[i]
  BY <1>1, <1>3
<1> HIDE DEF b
<1>6. /\ b \o c \in Seq(S)
      /\ Len(b \o c) = Len(b) + Len(c)
      /\ \A i \in 1 .. Len(b) + Len(c) : (b \o c)[i] = IF i <= Len(b) THEN b[i] ELSE c[i - Len(b)]
  BY <1>4, <1>5, ConcatProperties
<1>7. Len(b) + Len(c) = n + 1
  BY <1>1, <1>4, <1>5
<1>8. \A i \in 1 .. (n + 1) : t[i] = IF i <= k + 1 THEN b[i] ELSE c[i - (k + 1)]
  BY <1>2, <1>5, <1>6, <1>7
<1>9. ASSUME NEW i \in 1 .. (n + 1)
      PROVE  t[i] = IF i <= k THEN s[i] ELSE IF i = k + 1 THEN e ELSE s[i - 1]
  <2>1. CASE i <= k
    <3>1. i \in 1 .. k /\ i <= k + 1
      BY <1>1, <2>1
    <3>2. QED BY <2>1, <3>1, <1>5, <1>8
  <2>2. CASE i = k + 1
    BY <2>2, <1>1, <1>5, <1>8
  <2>3. CASE i > k + 1
    <3>1. i - (k + 1) \in 1 .. (n - k) /\ k + (i - (k + 1)) = i - 1 /\ ~(i <= k) /\ ~(i <= k + 1)
      BY <1>1, <2>3
    <3>2. t[i] = c[i - (k + 1)] /\ c[i - (k + 1)] = s[k + (i - (k + 1))]
      BY <3>1, <1>4, <1>8
    <3>3. QED BY <1>1, <2>3, <3>1, <3>2
  <2>4. QED BY <1>1, <2>1, <2>2, <2>3
<1>10. QED BY <1>2, <1>6, <1>7, <1>9 DEF t, n

LEMMA RemoveAtSeq ==
  ASSUME NEW S, NEW s \in Seq(S), NEW k \in 1 .. Len(s)
  PROVE  /\ RemoveAt(s, k) \in Seq(S)
         /\ Len(RemoveAt(s, k)) = Len(s) - 1
         /\ \A i \in 1 .. (Len(s) - 1) : RemoveAt(s, k)[i] = IF i < k THEN s[i] ELSE s[i + 1]
<1> DEFINE n == Len(s)
           t == RemoveAt(s, k)
           a == SubSeq(s, 1, k - 1)
           c == SubSeq(s, k + 1, n)
<1>1. n \in Nat /\ k \in Nat /\ 1 =< k /\ k =< n /\ \A i \in 1 .. n : s[i] \in S
  BY LenProperties
<1>2. t = a \o c
  BY DEF RemoveAt
<1>3. a \in Seq(S) /\ Len(a) = k - 1 /\ \A i \in 1 .. (k - 1) : a[i] = s[i]
  <2>1. k - 1 \in Int /\ 1 \in Int /\ \A i \in 1 .. (k - 1) : s[i] \in S
    BY <1>1
  <2> DEFINE j == k - 1
  <2> HIDE DEF j
  <2>2. /\ SubSeq(s, 1, j) \in Seq(S) /\ Len(SubSeq(s, 1, j)) = IF 1 <= j THEN j - 1 + 1 ELSE 0
        /\ \A i \in 1 .. (j - 1 + 1) : SubSeq(s, 1, j)[i] = s[1 + i - 1]
    BY <2>1, SubSeqProperties DEF j
  <2> HIDE DEF n
  <2>3. j \in Nat /\ \A i \in 1 .. j : i \in 1 .. (j - 1 + 1) /\ 1 + i - 1 = i
    BY <1>1 DEF j
  <2>4. QED BY <2>2, <2>3 DEF j
<1>4. c \in Seq(S) /\ Len(c) = n - k /\ \A i \in 1 .. (n - k) : c[i] = s[k + i]
  <2>1. k + 1 \in Int /\ n \in Int /\ \A i \in (k + 1) .. n : s[i] \in S
    BY <1>1
  <2> HIDE DEF n
  <2>2. /\ c \in Seq(S) /\ Len(c) = IF k + 1 <= n THEN n - (k + 1) + 1 ELSE 0
        /\ \A i \in 1 .. (n - (k + 1) + 1) : c[i] = s[(k + 1) + i - 1]
    BY <2>1, SubSeqProperties
  <2> HIDE DEF c
  <2>3. n - (k + 1) + 1 = n - k /\ \A i \in 1 .. (n - k) : (k + 1) + i - 1 = k + i
    BY <1>1
  <2>4. QED BY <2>2, <2>3, <1>1
<1> HIDE DEF a, c, n, t
<1>5. /\ a \o c \in Seq(S)
      /\ Len(a \o c) = Len(a) + Len(c)
      /\ \A i \in 1 .. Len(a) + Len(c) : (a \o c)[i] = IF i <= Len(a) THEN a[i] ELSE c[i - Len(a)]
  BY <1>3, <1>4, ConcatProperties
<1>6. Len(a) + Len(c) = n - 1
  BY <1>1, <1>3, <1>4
<1>7. \A i \in 1 .. (n - 1) : t[i] = IF i <= k - 1 THEN a[i] ELSE c[i - (k - 1)]
  BY <1>2, <1>3, <1>5, <1>6
<1>8. ASSUME NEW i \in 1 .. (n - 1) PROVE t[i] = IF i < k THEN s[i] ELSE s[i + 1]
  <2>1. CASE i < k
    <3>1. i \in 1 .. (k - 1) /\ i <= k - 1
      BY <1>1, <2>1
    <3>2. QED BY <2>1, <3>1, <1>3, <1>7
  <2>2. CASE ~(i < k)
    <3>1. i - (k - 1) \in 1 .. (n - k) /\ k + (i - (k - 1)) = i + 1 /\ ~(i <= k - 1)
      BY <1>1, <2>2
    <3>2. t[i] = c[i - (k - 1)] /\ c[i - (k - 1)] = s[k + (i - (k - 1))]
      BY <3>1, <1>4, <1>7
    <3>3. QED BY <2>2, <3>1, <3>2
  <2>3. QED BY <2>1, <2>2
<1>9. QED BY <1>2, <1>5, <1>6, <1>8 DEF t, n

-----------------------------------------------------------------------------
(* Areas as records, and runs: areas that hold a sector.                   *)

Recs == [start : Int, end : Int, size : Int]
Runs == {a \in Recs : 0 <= a.start /\ a.start <= a.end /\ a.size = a.end - a.start + 1}
Apart(a, b) == a.end < b.start \/ b.end < a.start
Two(a) == \/ a.start >= 0 /\ a.end >= 0
          \/ a.start >= 0 /\ a.size >= 0
          \/ a.end >= 0 /\ a.size >= 0

LEMMA RunIs ==
  ASSUME NEW a \in Runs
  PROVE  /\ a \in Recs /\ a.start \in Nat /\ a.end \in Nat /\ a.size \in Nat \ {0}
         /\ a.start <= a.end /\ a.size = a.end - a.start + 1
         /\ a = Area(a.start, a.end, a.size)
BY DEF Runs, Recs, Area

LEMMA InSectors ==
  ASSUME NEW a
  PROVE  \A x : x \in Sectors(a) <=> x \in a.start .. a.end
BY DEF Sectors

(* Two runs are apart when they share no sector.                           *)
LEMMA ApartIs ==
  ASSUME NEW a \in Runs, NEW b \in Runs, Sectors(a) \cap Sectors(b) = {}
  PROVE  Apart(a, b)
<1>1. SUFFICES ASSUME ~Apart(a, b) PROVE FALSE
  OBVIOUS
<1>2. a.start \in Int /\ a.end \in Int /\ b.start \in Int /\ b.end \in Int
  BY RunIs
<1>3. a.start <= a.end /\ b.start <= b.end /\ a.end >= b.start /\ b.end >= a.start
  BY <1>1, <1>2, RunIs DEF Apart
<1>4. CASE a.start <= b.start
  <2>1. b.start \in a.start .. a.end /\ b.start \in b.start .. b.end
    BY <1>2, <1>3, <1>4
  <2>2. QED BY <2>1 DEF Sectors
<1>5. CASE b.start <= a.start
  <2>1. a.start \in a.start .. a.end /\ a.start \in b.start .. b.end
    BY <1>2, <1>3, <1>5
  <2>2. QED BY <2>1 DEF Sectors
<1>6. QED BY <1>2, <1>4, <1>5

(* Two fields are given.                                                   *)
LEMMA GivenTwo ==
  ASSUME NEW a \in Recs
  PROVE  /\ Cardinality(Given(a)) >= 2 <=> Two(a)
         /\ "start" \in Given(a) <=> a.start >= 0
         /\ "end" \in Given(a) <=> a.end >= 0
         /\ "size" \in Given(a) <=> a.size >= 0
         /\ Given(a) \subseteq {"start", "end", "size"}
<1>1. /\ "start" \in Given(a) <=> a.start >= 0
      /\ "end" \in Given(a) <=> a.end >= 0
      /\ "size" \in Given(a) <=> a.size >= 0
      /\ Given(a) \subseteq {"start", "end", "size"}
  BY DEF Given
<1>2. IsFiniteSet({"start", "end", "size"})
  <2>1. IsFiniteSet({"start"})
    BY FS_Singleton
  <2>2. IsFiniteSet({"start"} \cup {"end"})
    BY <2>1, FS_AddElement
  <2>3. IsFiniteSet(({"start"} \cup {"end"}) \cup {"size"})
    BY <2>2, FS_AddElement
  <2>4. ({"start"} \cup {"end"}) \cup {"size"} = {"start", "end", "size"}
    OBVIOUS
  <2>5. QED BY <2>3, <2>4
<1>3. IsFiniteSet(Given(a))
  BY <1>1, <1>2, FS_Subset
<1>4. ASSUME NEW f, NEW g, f # g, f \in Given(a), g \in Given(a) PROVE Cardinality(Given(a)) >= 2
  <2>1. IsFiniteSet({f}) /\ Cardinality({f}) = 1
    BY FS_Singleton
  <2>2. Cardinality({f} \cup {g}) = 2
    BY <2>1, <1>4, FS_AddElement
  <2>3. {f} \cup {g} \in SUBSET Given(a)
    BY <1>4
  <2>4. Cardinality({f} \cup {g}) <= Cardinality(Given(a))
    BY <2>3, <1>3, FS_Subset
  <2>5. QED BY <2>2, <2>4, <1>3, FS_CardinalityType
<1>5. Two(a) => Cardinality(Given(a)) >= 2
  <2>1. "start" # "end" /\ "start" # "size" /\ "end" # "size"
    OBVIOUS
  <2>2. CASE "start" \in Given(a) /\ "end" \in Given(a)
    BY <2>1, <2>2, <1>4
  <2>3. CASE "start" \in Given(a) /\ "size" \in Given(a)
    BY <2>1, <2>3, <1>4
  <2>4. CASE "end" \in Given(a) /\ "size" \in Given(a)
    BY <2>1, <2>4, <1>4
  <2>5. QED BY <2>2, <2>3, <2>4, <1>1 DEF Two
<1>6. ASSUME ~Two(a) PROVE ~(Cardinality(Given(a)) >= 2)
  <2>1. PICK f : Given(a) \subseteq {f}
    BY <1>1, <1>6 DEF Two
  <2>2. IsFiniteSet({f}) /\ Cardinality({f}) = 1
    BY FS_Singleton
  <2>3. Cardinality(Given(a)) <= Cardinality({f})
    BY <2>1, <2>2, FS_Subset
  <2>4. QED BY <2>2, <2>3, <1>3, FS_CardinalityType
<1>7. QED BY <1>1, <1>5, <1>6

(* What fixup makes of an area, field by field.                            *)
LEMMA ConsistentIs ==
  ASSUME NEW a \in Recs
  PROVE  Consistent(a) <=>
           /\ Two(a)
           /\ a.start >= 0 /\ a.end >= 0 =>
                /\ a.start <= a.end + 1
                /\ a.size >= 0 => a.size = a.end - a.start + 1
<1>1. {"start", "end"} \subseteq Given(a) <=> a.start >= 0 /\ a.end >= 0
  BY GivenTwo
<1>2. QED BY <1>1, GivenTwo DEF Consistent

LEMMA CompleteIs ==
  ASSUME NEW a \in Recs, Consistent(a)
  PROVE  /\ Complete(a) \in Recs
         /\ Complete(a).size = Complete(a).end - Complete(a).start + 1
         /\ Complete(a).start <= Complete(a).end + 1
         /\ Two(Complete(a))
         /\ a.start >= 0 => Complete(a).start = a.start
         /\ a.end >= 0 => Complete(a).end = a.end
         /\ a.size >= 0 => Complete(a).size = a.size
<1>1. /\ {"start", "end"} \subseteq Given(a) <=> a.start >= 0 /\ a.end >= 0
      /\ {"start", "size"} \subseteq Given(a) <=> a.start >= 0 /\ a.size >= 0
  BY GivenTwo
<1>2. /\ Two(a)
      /\ a.start >= 0 /\ a.end >= 0 =>
           /\ a.start <= a.end + 1
           /\ a.size >= 0 => a.size = a.end - a.start + 1
  BY ConsistentIs
<1>3. a.start \in Int /\ a.end \in Int /\ a.size \in Int
  BY DEF Recs
<1>4. CASE a.start >= 0 /\ a.end >= 0
  <2>1. Complete(a) = [a EXCEPT !.size = a.end - a.start + 1]
    BY <1>1, <1>4 DEF Complete
  <2>2. /\ Complete(a) \in Recs /\ Complete(a).start = a.start /\ Complete(a).end = a.end
        /\ Complete(a).size = a.end - a.start + 1
    BY <2>1, <1>3 DEF Recs
  <2>3. QED BY <2>2, <1>2, <1>3, <1>4 DEF Two
<1>5. CASE ~(a.start >= 0 /\ a.end >= 0) /\ a.start >= 0 /\ a.size >= 0
  <2>1. Complete(a) = [a EXCEPT !.end = a.start + a.size - 1]
    BY <1>1, <1>5 DEF Complete
  <2>2. /\ Complete(a) \in Recs /\ Complete(a).start = a.start /\ Complete(a).size = a.size
        /\ Complete(a).end = a.start + a.size - 1
    BY <2>1, <1>3 DEF Recs
  <2>3. QED BY <2>2, <1>2, <1>3, <1>5 DEF Two
<1>6. CASE ~(a.start >= 0 /\ a.end >= 0) /\ ~(a.start >= 0 /\ a.size >= 0)
  <2>1. Complete(a) = [a EXCEPT !.start = a.end - a.size + 1]
    BY <1>1, <1>6 DEF Complete
  <2>2. /\ Complete(a) \in Recs /\ Complete(a).end = a.end /\ Complete(a).size = a.size
        /\ Complete(a).start = a.end - a.size + 1
    BY <2>1, <1>3 DEF Recs
  <2>3. a.end >= 0 /\ a.size >= 0
    BY <1>2, <1>6 DEF Two
  <2>4. QED BY <2>2, <2>3, <1>3, <1>6 DEF Two
<1>7. QED BY <1>4, <1>5, <1>6

(* An area that has all its fields is left alone.                          *)
LEMMA CompleteSame ==
  ASSUME NEW a \in Recs, a.size = a.end - a.start + 1, Two(a), a.start <= a.end + 1
  PROVE  Consistent(a) /\ Complete(a) = a
<1>1. a.start \in Int /\ a.end \in Int /\ a.size \in Int
  BY DEF Recs
<1>2. Consistent(a)
  BY <1>1, ConsistentIs
<1>3. /\ Complete(a) \in Recs
      /\ Complete(a).size = Complete(a).end - Complete(a).start + 1
      /\ a.start >= 0 => Complete(a).start = a.start
      /\ a.end >= 0 => Complete(a).end = a.end
      /\ a.size >= 0 => Complete(a).size = a.size
  BY <1>2, CompleteIs
<1>4. Complete(a).start \in Int /\ Complete(a).end \in Int /\ Complete(a).size \in Int
  BY <1>3 DEF Recs
<1>5. Complete(a).start = a.start /\ Complete(a).end = a.end /\ Complete(a).size = a.size
  BY <1>1, <1>3, <1>4 DEF Two
<1>6. QED BY <1>2, <1>3, <1>5 DEF Recs

LEMMA BetweenIs ==
  ASSUME NEW x \in Int, NEW y \in Int
  PROVE  Between(x, y) = IF x >= 0 /\ y >= 0 /\ x <= y + 1 THEN Area(x, y, y - x + 1) ELSE Raised
<1> DEFINE a == Area(x, y, Absent)
<1>1. a \in Recs /\ a.start = x /\ a.end = y /\ a.size = -1
  BY DEF Area, Absent, Recs
<1>2. Consistent(a) <=> x >= 0 /\ y >= 0 /\ x <= y + 1
  BY <1>1, ConsistentIs DEF Two
<1>3. ASSUME Consistent(a) PROVE Complete(a) = Area(x, y, y - x + 1)
  <2>1. /\ Complete(a) \in Recs /\ Complete(a).start = x /\ Complete(a).end = y
        /\ Complete(a).size = Complete(a).end - Complete(a).start + 1
    BY <1>1, <1>2, <1>3, CompleteIs
  <2>2. Complete(a).size = y - x + 1
    BY <2>1
  <2> HIDE DEF a
  <2>3. QED BY <2>1, <2>2 DEF Recs, Area
<1>4. QED BY <1>2, <1>3 DEF Between, Fixup

-----------------------------------------------------------------------------
(* Lists of areas: in order, with a gap between any two, and the sectors   *)
(* they hold.                                                              *)

Ordered(s) == s \in Seq(Runs) /\ \A i, j \in 1 .. Len(s) : i < j => s[i].end < s[j].start
Tidy(s) == s \in Seq(Runs) /\ \A i, j \in 1 .. Len(s) : i < j => s[i].end + 1 < s[j].start
Cover(s) == UNION {Sectors(a) : a \in Range(s)}

LEMMA RangeIs ==
  ASSUME NEW S, NEW s \in Seq(S)
  PROVE  Range(s) = {s[i] : i \in 1 .. Len(s)} /\ Range(s) \subseteq S
<1>1. DOMAIN s = 1 .. Len(s) /\ \A i \in 1 .. Len(s) : s[i] \in S
  BY LenProperties
<1>2. QED BY <1>1 DEF Range

LEMMA CoverIs ==
  ASSUME NEW S, NEW s \in Seq(S), NEW x
  PROVE  x \in Cover(s) <=> \E i \in 1 .. Len(s) : x \in Sectors(s[i])
<1>1. Range(s) = {s[i] : i \in 1 .. Len(s)}
  BY RangeIs
<1>2. QED BY <1>1 DEF Cover

LEMMA TidyIsOrdered ==
  ASSUME NEW s, Tidy(s)
  PROVE  Ordered(s)
<1>1. s \in Seq(Runs) /\ \A i, j \in 1 .. Len(s) : i < j => s[i].end + 1 < s[j].start
  BY DEF Tidy
<1>2. \A i \in 1 .. Len(s) : s[i].end \in Int /\ s[i].start \in Int
  BY <1>1, ElementOfSeq, RunIs
<1>3. QED BY <1>1, <1>2 DEF Ordered

LEMMA EmptyIsTidy == Tidy(<<>>) /\ Ordered(<<>>) /\ Cover(<<>>) = {}
<1>1. <<>> \in Seq(Runs) /\ Len(<<>>) = 0 /\ \A i \in 1 .. 0 : FALSE
  BY EmptySeq
<1>2. Range(<<>>) = {}
  BY DEF Range
<1>3. QED BY <1>1, <1>2 DEF Tidy, Ordered, Cover

(* Where sort puts an area among others that share no sector with it.      *)
LEMMA InsertPlace ==
  ASSUME NEW s \in Seq(Runs), NEW a \in Runs
  PROVE  /\ Cardinality({i \in DOMAIN s : ~Before(a, s[i])}) \in 0 .. Len(s)
         /\ Insert(s, a) \in Seq(Runs)
         /\ Range(Insert(s, a)) = Range(s) \cup {a}
<1> DEFINE n == Len(s)
           B == {i \in DOMAIN s : ~Before(a, s[i])}
           k == Cardinality(B)
           t == InsertAt(s, k + 1, a)
<1>1. s \in Seq(Runs) /\ n \in Nat /\ DOMAIN s = 1 .. n
  BY LenProperties
<1>2. k \in 0 .. n
  <2>1. B \in SUBSET (1 .. n)
    BY <1>1
  <2>2. IsFiniteSet(1 .. n) /\ Cardinality(1 .. n) = n
    BY <1>1, FS_Interval
  <2> HIDE DEF B, n
  <2>3. IsFiniteSet(B) /\ Cardinality(B) <= n
    BY <2>1, <2>2, FS_Subset
  <2>4. Cardinality(B) \in Nat
    BY <2>3, FS_CardinalityType
  <2>5. QED BY <1>1, <2>3, <2>4
<1>3. Insert(s, a) = t
  BY DEF Insert
<1> HIDE DEF k
<1>4. /\ t \in Seq(Runs) /\ Len(t) = n + 1
      /\ \A i \in 1 .. (n + 1) : t[i] = IF i <= k THEN s[i] ELSE IF i = k + 1 THEN a ELSE s[i - 1]
  <2>1. s \in Seq(Runs) /\ a \in Runs /\ k \in 0 .. Len(s)
    BY <1>2
  <2> DEFINE v == InsertAt(s, k + 1, a)
  <2> HIDE DEF n
  <2>2. /\ v \in Seq(Runs) /\ Len(v) = Len(s) + 1
        /\ \A i \in 1 .. (Len(s) + 1) :
             v[i] = IF i <= k THEN s[i] ELSE IF i = k + 1 THEN a ELSE s[i - 1]
    BY <2>1, InsertAtSeq
  <2>3. t = v
    OBVIOUS
  <2> HIDE DEF v, t
  <2>4. QED BY <2>2, <2>3 DEF n
<1> HIDE DEF t, n
<1>5. Range(t) = {t[i] : i \in 1 .. (n + 1)} /\ Range(s) = {s[i] : i \in 1 .. n}
  BY <1>4, RangeIs DEF n
<1>6. Range(t) = Range(s) \cup {a}
  <2>1. ASSUME NEW i \in 1 .. (n + 1) PROVE t[i] \in Range(s) \cup {a}
    <3>1. CASE i <= k
      <4>1. i \in 1 .. n
        BY <3>1, <1>1, <1>2
      <4>2. QED BY <3>1, <4>1, <1>4, <1>5
    <3>2. CASE i = k + 1
      BY <3>2, <1>1, <1>2, <1>4
    <3>3. CASE i > k + 1
      <4>1. i - 1 \in 1 .. n /\ ~(i <= k) /\ i # k + 1
        BY <3>3, <1>1, <1>2
      <4>2. QED BY <4>1, <1>4, <1>5
    <3>4. QED BY <3>1, <3>2, <3>3, <1>1, <1>2
  <2>2. ASSUME NEW i \in 1 .. n PROVE s[i] \in Range(t)
    <3>1. CASE i <= k
      <4>1. i \in 1 .. (n + 1)
        BY <1>1
      <4>2. QED BY <3>1, <4>1, <1>4, <1>5
    <3>2. CASE ~(i <= k)
      <4>1. i + 1 \in 1 .. (n + 1) /\ ~(i + 1 <= k) /\ i + 1 # k + 1 /\ (i + 1) - 1 = i
        BY <3>2, <1>1, <1>2
      <4>2. t[i + 1] = s[i]
        BY <4>1, <1>4
      <4>3. QED BY <4>1, <4>2, <1>5
    <3>3. QED BY <3>1, <3>2
  <2>3. a \in Range(t)
    <3>1. k + 1 \in 1 .. (n + 1) /\ ~(k + 1 <= k)
      BY <1>1, <1>2
    <3>2. t[k + 1] = a
      BY <3>1, <1>4
    <3>3. QED BY <3>1, <3>2, <1>5
  <2>4. QED BY <2>1, <2>2, <2>3, <1>5
<1>7. QED BY <1>2, <1>3, <1>4, <1>6 DEF k, n

LEMMA InsertOrdered ==
  ASSUME NEW s, Ordered(s), NEW a \in Runs, \A i \in 1 .. Len(s) : Apart(s[i], a)
  PROVE  Ordered(Insert(s, a))
<1> DEFINE n == Len(s)
           B == {i \in DOMAIN s : ~Before(a, s[i])}
           k == Cardinality(B)
           t == InsertAt(s, k + 1, a)
<1>1. s \in Seq(Runs) /\ \A i, j \in 1 .. n : i < j => s[i].end < s[j].start
  BY DEF Ordered
<1>2. n \in Nat /\ DOMAIN s = 1 .. n /\ \A i \in 1 .. n : s[i] \in Runs
  BY <1>1, LenProperties
<1>3. \A i \in 1 .. n : s[i].start \in Nat /\ s[i].end \in Nat /\ s[i].start <= s[i].end
  BY <1>2, RunIs
<1>4. a.start \in Nat /\ a.end \in Nat /\ a.start <= a.end
  BY RunIs
<1>5. \A i \in 1 .. n : s[i].end < a.start \/ a.end < s[i].start
  BY DEF Apart
<1>6. \A i \in 1 .. n : i \in B <=> s[i].end < a.start
  BY <1>2, <1>3, <1>4, <1>5 DEF Before
<1>7. B \in SUBSET (1 .. n)
  BY <1>2
<1> HIDE DEF B, n
<1>8. k \in 0 .. n /\ B = 1 .. k
  <2>1. ASSUME NEW i \in B, NEW j \in 1 .. i PROVE j \in B
    <3>1. i \in 1 .. n /\ j \in 1 .. n /\ (j = i \/ j < i)
      BY <1>2, <1>7
    <3>2. j < i => s[j].end < s[i].start
      BY <3>1, <1>1
    <3>3. QED BY <3>1, <3>2, <1>3, <1>4, <1>6
  <2>2. QED BY <1>2, <1>7, <2>1, PrefixIs
<1>9. Insert(s, a) = t
  BY DEF Insert, B
<1>10. \A i \in 1 .. n : s[i].end < a.start <=> i \in 1 .. k
  BY <1>6, <1>8
<1> HIDE DEF k
<1>11. /\ t \in Seq(Runs) /\ Len(t) = n + 1
       /\ \A i \in 1 .. (n + 1) : t[i] = IF i <= k THEN s[i] ELSE IF i = k + 1 THEN a ELSE s[i - 1]
  BY <1>1, <1>8, InsertAtSeq DEF n
<1> HIDE DEF t
<1>12. k \in Nat /\ k =< n
  BY <1>2, <1>8
<1>13. ASSUME NEW i \in 1 .. (n + 1), NEW j \in 1 .. (n + 1), i < j PROVE t[i].end < t[j].start
  <2>1. CASE j <= k
    <3>1. t[i] = s[i] /\ t[j] = s[j] /\ i \in 1 .. n /\ j \in 1 .. n
      BY <2>1, <1>2, <1>11, <1>12, <1>13
    <3>2. QED BY <3>1, <1>1, <1>13
  <2>2. CASE i <= k /\ j = k + 1
    <3>1. t[i] = s[i] /\ t[j] = a /\ i \in 1 .. k /\ i \in 1 .. n
      BY <2>2, <1>2, <1>11, <1>12
    <3>2. QED BY <3>1, <1>10
  <2>3. CASE i <= k /\ j > k + 1
    <3>1. t[i] = s[i] /\ t[j] = s[j - 1] /\ i \in 1 .. n /\ j - 1 \in 1 .. n /\ i < j - 1
      BY <2>3, <1>2, <1>11, <1>12
    <3>2. QED BY <3>1, <1>1
  <2>4. CASE i = k + 1
    <3>1. t[i] = a /\ t[j] = s[j - 1] /\ j - 1 \in 1 .. n /\ j - 1 \notin 1 .. k
      BY <2>4, <1>2, <1>11, <1>12, <1>13
    <3>2. ~(s[j - 1].end < a.start)
      BY <3>1, <1>10
    <3>3. a.end < s[j - 1].start
      BY <3>1, <3>2, <1>5
    <3>4. QED BY <3>1, <3>3
  <2>5. CASE i > k + 1
    <3>1. t[i] = s[i - 1] /\ t[j] = s[j - 1] /\ i - 1 \in 1 .. n /\ j - 1 \in 1 .. n /\ i - 1 < j - 1
      BY <2>5, <1>2, <1>11, <1>12, <1>13
    <3>2. QED BY <3>1, <1>1
  <2>6. QED BY <2>1, <2>2, <2>3, <2>4, <2>5, <1>12, <1>13
<1>14. QED BY <1>9, <1>11, <1>13 DEF Ordered

(* The sectors of the first elements of a list.                            *)
Held(s, i) == UNION {Sectors(s[j]) : j \in 1 .. i}

LEMMA HeldIs ==
  ASSUME NEW s
  PROVE  /\ Held(s, 0) = {}
         /\ \A i \in Nat \ {0} : Held(s, i) = Held(s, i - 1) \cup Sectors(s[i])
<1>1. 1 .. 0 = {}
  OBVIOUS
<1>2. \A i \in Nat \ {0} : 1 .. i = (1 .. (i - 1)) \cup {i}
  OBVIOUS
<1>3. QED BY <1>1, <1>2 DEF Held

LEMMA HeldAll ==
  ASSUME NEW S, NEW s \in Seq(S)
  PROVE  Held(s, Len(s)) = Cover(s)
<1>1. Range(s) = {s[i] : i \in 1 .. Len(s)}
  BY RangeIs
<1>2. QED BY <1>1 DEF Held, Cover

(* sort keeps the areas and puts them in order.                            *)
LEMMA SortedIs ==
  ASSUME NEW s \in Seq(Runs),
         \A i, j \in 1 .. Len(s) : i # j => Apart(s[i], s[j])
  PROVE  Ordered(Sorted(s)) /\ Range(Sorted(s)) = Range(s)
<1> DEFINE n == Len(s)
           X == Seq(Runs)
           Next1(x, i) == Insert(x, s[i])
           Added(k) == [i \in 0 .. n |-> IF i = 0 THEN <<>> ELSE Next1(k[i - 1], i)]
           added == CHOOSE k : k = Added(k)
           F == [i \in 1 .. n |-> [x \in X |-> Next1(x, i)]]
           e == <<>>
<1>1. Sorted(s) = added[n]
  BY DEF Sorted
<1>2. n \in Nat /\ \A i \in 1 .. n : s[i] \in Runs
  BY LenProperties
<1>3. e \in X
  BY EmptySeq
<1>4. ASSUME NEW i \in 1 .. n, NEW x \in X PROVE Next1(x, i) \in X
  BY <1>2, InsertPlace
<1> HIDE DEF Next1, X, n
<1>5. F \in [1 .. n -> [X -> X]]
  BY <1>4
<1>6. PICK f \in [0 .. n -> X] : IsLoop(f, n, e, F)
  <2> HIDE DEF F, e
  <2>1. QED BY <1>2, <1>3, <1>5, Loop
<1>7. f = Added(f)
  <2>1. ASSUME NEW i \in 0 .. n, i # 0 PROVE F[i][f[i - 1]] = Next1(f[i - 1], i)
    <3>1. i \in 1 .. n /\ i - 1 \in 0 .. n
      BY <2>1, <1>2
    <3>2. f[i - 1] \in X
      <4> HIDE DEF F, e
      <4>1. QED BY <3>1, <1>6
    <3>3. QED BY <3>1, <3>2
  <2> HIDE DEF F
  <2>2. QED BY <2>1, <1>6 DEF IsLoop
<1>8. added = Added(added)
  BY <1>7
<1> HIDE DEF added
<1>9. \A i \in 0 .. n : added[i] = IF i = 0 THEN e ELSE Next1(added[i - 1], i)
  BY <1>8
<1> DEFINE G == {i \in 0 .. n : Ordered(added[i]) /\ Range(added[i]) = {s[j] : j \in 1 .. i}}
<1>10. 0 \in G
  <2>1. 0 \in 0 .. n /\ 1 .. 0 = {}
    BY <1>2
  <2>2. added[0] = <<>>
    BY <2>1, <1>9
  <2>3. Range(<<>>) = {}
    BY DEF Range
  <2>4. QED BY <2>1, <2>2, <2>3, EmptyIsTidy
<1>11. ASSUME NEW i \in 1 .. n, i - 1 \in G PROVE i \in G
  <2> DEFINE d == added[i - 1]
  <2>1. i \in 0 .. n /\ i # 0 /\ s[i] \in Runs /\ i - 1 \in 0 .. n
    BY <1>2
  <2>2. Ordered(d) /\ Range(d) = {s[j] : j \in 1 .. (i - 1)}
    BY <1>11
  <2>3. added[i] = Insert(d, s[i])
    BY <2>1, <1>9 DEF Next1
  <2> HIDE DEF d
  <2>4. d \in Seq(Runs)
    BY <2>2 DEF Ordered
  <2>5. ASSUME NEW m \in 1 .. Len(d) PROVE Apart(d[m], s[i])
    <3>1. d[m] \in Range(d)
      BY <2>4, RangeIs
    <3>2. PICK j \in 1 .. (i - 1) : d[m] = s[j]
      BY <3>1, <2>2
    <3>3. j \in 1 .. n /\ j # i
      BY <1>2
    <3>4. QED BY <3>2, <3>3 DEF n
  <2>6. Ordered(added[i])
    BY <2>1, <2>2, <2>3, <2>5, InsertOrdered
  <2>7. Range(added[i]) = Range(d) \cup {s[i]}
    BY <2>1, <2>3, <2>4, InsertPlace
  <2>8. 1 .. i = (1 .. (i - 1)) \cup {i}
    BY <1>2
  <2>9. Range(added[i]) = {s[j] : j \in 1 .. i}
    BY <2>2, <2>7, <2>8
  <2>10. QED BY <2>1, <2>6, <2>9
<1> HIDE DEF G
<1>12. \A i \in 0 .. n : i \in G
  BY <1>10, <1>11, <1>2, Upto
<1>13. n \in 0 .. n
  BY <1>2
<1>14. Ordered(added[n]) /\ Range(added[n]) = {s[j] : j \in 1 .. n}
  BY <1>12, <1>13 DEF G
<1>15. Range(s) = {s[j] : j \in 1 .. n}
  BY RangeIs DEF n
<1>16. QED BY <1>1, <1>14, <1>15

(* merge's loop body: the area goes behind the others or widens the last.  *)
LEMMA AppendTidy ==
  ASSUME NEW d, Tidy(d), NEW a \in Runs,
         \A i \in 1 .. Len(d) : d[i].end + 1 < a.start
  PROVE  Tidy(Append(d, a)) /\ Cover(Append(d, a)) = Cover(d) \cup Sectors(a)
<1> DEFINE n == Len(d)
           t == Append(d, a)
<1>1. d \in Seq(Runs) /\ \A i, j \in 1 .. n : i < j => d[i].end + 1 < d[j].start
  BY DEF Tidy
<1>2. n \in Nat
  BY <1>1, LenProperties
<1>3. /\ t \in Seq(Runs) /\ Len(t) = n + 1 /\ t[n + 1] = a
      /\ \A i \in 1 .. n : t[i] = d[i]
  BY <1>1, AppendProperties
<1> HIDE DEF t
<1>4. \A i \in 1 .. n : d[i].end + 1 < a.start
  OBVIOUS
<1> HIDE DEF n
<1>5. ASSUME NEW i \in 1 .. (n + 1), NEW j \in 1 .. (n + 1), i < j PROVE t[i].end + 1 < t[j].start
  <2>1. CASE j = n + 1
    <3>1. i \in 1 .. n
      BY <2>1, <1>2, <1>5
    <3>2. QED BY <3>1, <2>1, <1>3, <1>4
  <2>2. CASE j # n + 1
    <3>1. i \in 1 .. n /\ j \in 1 .. n
      BY <2>2, <1>2, <1>5
    <3>2. QED BY <3>1, <1>1, <1>3, <1>5
  <2>3. QED BY <2>1, <2>2
<1>6. Tidy(t)
  BY <1>3, <1>5 DEF Tidy
<1>7. Cover(t) = Cover(d) \cup Sectors(a)
  <2>1. 1 .. (n + 1) = (1 .. n) \cup {n + 1}
    BY <1>2
  <2>2. Range(t) = {t[i] : i \in 1 .. (n + 1)} /\ Range(d) = {d[i] : i \in 1 .. n}
    BY <1>1, <1>3, RangeIs DEF n
  <2>3. Range(t) = Range(d) \cup {a}
    BY <2>1, <2>2, <1>3
  <2>4. QED BY <2>3 DEF Cover
<1>8. QED BY <1>6, <1>7 DEF t

LEMMA WidenTidy ==
  ASSUME NEW d, Tidy(d), d # <<>>, NEW a \in Runs, d[Len(d)].end + 1 = a.start,
         NEW b \in Runs, b.start = d[Len(d)].start, b.end = a.end
  PROVE  LET t == [d EXCEPT ![Len(d)] = b]
         IN  Tidy(t) /\ Len(t) = Len(d) /\ t[Len(d)] = b /\ Cover(t) = Cover(d) \cup Sectors(a)
<1> DEFINE n == Len(d)
           t == [d EXCEPT ![Len(d)] = b]
<1>1. d \in Seq(Runs) /\ \A i, j \in 1 .. n : i < j => d[i].end + 1 < d[j].start
  BY DEF Tidy
<1>2. n \in Nat \ {0} /\ n \in 1 .. n
  BY <1>1, EmptySeq
<1>3. /\ t \in Seq(Runs) /\ Len(t) = n
      /\ \A i \in 1 .. n : t[i] = IF i = n THEN b ELSE d[i]
  <2>1. Len(d) \in 1 .. Len(d)
    BY <1>2
  <2>2. QED BY <2>1, <1>1, ExceptSeq
<1>4. d[n].end + 1 = a.start /\ b.start = d[n].start /\ b.end = a.end
  OBVIOUS
<1> HIDE DEF t, n
<1>5. \A i \in 1 .. n : d[i] \in Runs
  BY <1>1, ElementOfSeq DEF n
<1>6. /\ \A i \in 1 .. n : d[i].start \in Nat /\ d[i].end \in Nat /\ d[i].start <= d[i].end
      /\ a.start \in Nat /\ a.end \in Nat /\ a.start <= a.end
  BY <1>5, RunIs
<1>7. ASSUME NEW i \in 1 .. n, NEW j \in 1 .. n, i < j PROVE t[i].end + 1 < t[j].start
  <2>1. i # n /\ t[i] = d[i]
    BY <1>2, <1>3, <1>7
  <2>2. t[j].start = d[j].start
    BY <1>3, <1>4
  <2>3. QED BY <2>1, <2>2, <1>1, <1>7
<1>8. Tidy(t)
  BY <1>3, <1>7 DEF Tidy
<1>9. Sectors(b) = Sectors(d[n]) \cup Sectors(a)
  <2>1. d[n].start \in Nat /\ d[n].end \in Nat /\ d[n].start <= d[n].end
    BY <1>2, <1>6
  <2>2. d[n].start .. a.end = (d[n].start .. d[n].end) \cup (a.start .. a.end)
    BY <2>1, <1>4, <1>6
  <2>3. QED BY <2>2, <1>4 DEF Sectors
<1>10. Cover(t) = Cover(d) \cup Sectors(a)
  <2>1. \A x : x \in Cover(t) <=> \E i \in 1 .. n : x \in Sectors(t[i])
    BY <1>3, CoverIs
  <2>2. \A x : x \in Cover(d) <=> \E i \in 1 .. n : x \in Sectors(d[i])
    BY <1>1, CoverIs DEF n
  <2>3. t[n] = b /\ \A i \in 1 .. n : i # n => t[i] = d[i]
    BY <1>2, <1>3
  <2>4. ASSUME NEW x PROVE x \in Cover(t) <=> x \in Cover(d) \cup Sectors(a)
    <3>1. CASE x \in Sectors(b)
      BY <3>1, <2>1, <2>2, <2>3, <1>2, <1>9
    <3>2. CASE x \notin Sectors(b)
      BY <3>2, <2>1, <2>2, <2>3, <1>2, <1>9
    <3>3. QED BY <3>1, <3>2
  <2>5. QED BY <2>4
<1>11. QED BY <1>2, <1>3, <1>8, <1>10 DEF t, n

LEMMA JoinIs ==
  ASSUME NEW d, Tidy(d), NEW a \in Runs, d # <<>> => d[Len(d)].end < a.start
  PROVE  /\ Tidy(Join(d, a)) /\ Cover(Join(d, a)) = Cover(d) \cup Sectors(a)
         /\ Join(d, a) # <<>> /\ Join(d, a)[Len(Join(d, a))].end = a.end
<1> DEFINE n == Len(d)
<1>1. d \in Seq(Runs) /\ \A i, j \in 1 .. n : i < j => d[i].end + 1 < d[j].start
  BY DEF Tidy
<1>2. n \in Nat /\ \A i \in 1 .. n : d[i] \in Runs
  BY <1>1, LenProperties
<1>3. /\ \A i \in 1 .. n : d[i].start \in Nat /\ d[i].end \in Nat /\ d[i].start <= d[i].end
      /\ a.start \in Nat /\ a.end \in Nat /\ a.start <= a.end /\ ~(a.size <= 0)
  BY <1>2, RunIs
<1>4. d # <<>> => n \in 1 .. n
  BY <1>1, <1>2, EmptySeq
<1>5. CASE d # <<>> /\ d[n].end + 1 >= a.start
  <2> DEFINE x == d[n].start
             y == a.end
             b == Between(x, y)
  <2>1. d[n].start \in Nat /\ d[n].end \in Nat /\ d[n].end + 1 = a.start
    BY <1>3, <1>4, <1>5
  <2>2. x \in Nat /\ y \in Nat /\ x <= y
    BY <2>1, <1>3, <1>4, <1>5
  <2> HIDE DEF x, y
  <2>3. b \in Runs /\ b.start = x /\ b.end = y
    <3>1. b = Area(x, y, y - x + 1)
      BY <2>2, BetweenIs
    <3>2. Area(x, y, y - x + 1) \in Runs
      BY <2>2 DEF Runs, Recs, Area
    <3>3. Area(x, y, y - x + 1).start = x /\ Area(x, y, y - x + 1).end = y
      BY DEF Area
    <3>4. QED BY <3>1, <3>2, <3>3, Zenon
  <2>4. Join(d, a) = [d EXCEPT ![Len(d)] = b]
    BY <1>3, <1>5 DEF Join, x, y
  <2> HIDE DEF b
  <2> DEFINE t == [d EXCEPT ![Len(d)] = b]
  <2>5. Tidy(t) /\ Len(t) = Len(d) /\ t[Len(d)] = b /\ Cover(t) = Cover(d) \cup Sectors(a)
    BY <2>1, <2>3, <1>5, WidenTidy DEF x, y
  <2> HIDE DEF t
  <2>6. t # <<>>
    BY <2>5, <1>4, <1>5
  <2>7. QED BY <2>3, <2>4, <2>5, <2>6 DEF t, y
<1>6. CASE ~(d # <<>> /\ d[n].end + 1 >= a.start)
  <2> DEFINE t == Append(d, a)
  <2>1. Join(d, a) = t
    BY <1>3, <1>6 DEF Join
  <2>2. ASSUME NEW i \in 1 .. n PROVE d[i].end + 1 < a.start
    <3>1. d # <<>> /\ n \in 1 .. n
      BY <1>2, <1>4
    <3>2. d[n].end + 1 < a.start
      BY <3>1, <1>3, <1>6
    <3>3. i = n \/ d[i].end + 1 < d[n].start
      BY <3>1, <1>1, <1>2
    <3>4. QED BY <3>1, <3>2, <3>3, <1>3
  <2>3. Tidy(t) /\ Cover(t) = Cover(d) \cup Sectors(a)
    BY <2>2, AppendTidy
  <2>4. t \in Seq(Runs) /\ Len(t) = n + 1 /\ t[n + 1] = a
    BY <1>1, AppendProperties
  <2> HIDE DEF t
  <2>5. t # <<>>
    BY <2>4, <1>2
  <2>6. QED BY <2>1, <2>3, <2>4, <2>5
<1>7. QED BY <1>5, <1>6

LEMMA BetweenRec ==
  ASSUME NEW x \in Int, NEW y \in Int
  PROVE  Between(x, y) \in Recs
<1>1. Area(x, y, y - x + 1) \in Recs /\ Raised \in Recs
  BY DEF Area, Raised, Absent, Recs
<1>2. QED BY <1>1, BetweenIs

LEMMA JoinRecs ==
  ASSUME NEW d \in Seq(Recs), NEW a \in Recs
  PROVE  Join(d, a) \in Seq(Recs)
<1> DEFINE n == Len(d)
<1>1. CASE d # <<>>
  <2> DEFINE b == Between(d[n].start, a.end)
  <2>1. n \in 1 .. n
    BY <1>1, EmptySeq
  <2>2. d[n] \in Recs
    BY <2>1, ElementOfSeq
  <2>3. d[n].start \in Int /\ a.end \in Int
    BY <2>2 DEF Recs
  <2>4. b \in Recs
    BY <2>3, BetweenRec
  <2> HIDE DEF b
  <2>5. [d EXCEPT ![n] = b] \in Seq(Recs)
    BY <2>1, <2>4, ExceptSeq
  <2>6. Join(d, a) \in {d, [d EXCEPT ![n] = b], Append(d, a)}
    BY <1>1 DEF Join, b
  <2>7. QED BY <2>5, <2>6, AppendProperties
<1>2. CASE d = <<>>
  <2>1. Join(d, a) \in {d, Append(d, a)}
    BY <1>2 DEF Join
  <2>2. QED BY <2>1, AppendProperties
<1>3. QED BY <1>1, <1>2

(* merge closes the gaps of areas in order and loses no sector.            *)
LEMMA JoinedIs ==
  ASSUME NEW s, Ordered(s)
  PROVE  Tidy(Joined(s)) /\ Cover(Joined(s)) = Cover(s)
<1> DEFINE n == Len(s)
           X == Seq(Recs)
           Next1(x, i) == Join(x, s[i])
           Added(k) == [i \in 0 .. n |-> IF i = 0 THEN <<>> ELSE Next1(k[i - 1], i)]
           added == CHOOSE k : k = Added(k)
           F == [i \in 1 .. n |-> [x \in X |-> Next1(x, i)]]
           e == <<>>
<1>1. Joined(s) = added[n]
  BY DEF Joined
<1>2. s \in Seq(Runs) /\ \A i, j \in 1 .. n : i < j => s[i].end < s[j].start
  BY DEF Ordered
<1>3. n \in Nat /\ \A i \in 1 .. n : s[i] \in Runs /\ s[i] \in Recs
  BY <1>2, LenProperties DEF Runs
<1>4. e \in X
  BY EmptySeq
<1>5. ASSUME NEW i \in 1 .. n, NEW x \in X PROVE Next1(x, i) \in X
  BY <1>3, JoinRecs
<1>6. Held(s, n) = Cover(s)
  BY <1>2, HeldAll
<1> HIDE DEF Next1, X, n
<1>7. F \in [1 .. n -> [X -> X]]
  BY <1>5
<1>8. PICK f \in [0 .. n -> X] : IsLoop(f, n, e, F)
  <2> HIDE DEF F, e
  <2>1. QED BY <1>3, <1>4, <1>7, Loop
<1>9. f = Added(f)
  <2>1. ASSUME NEW i \in 0 .. n, i # 0 PROVE F[i][f[i - 1]] = Next1(f[i - 1], i)
    <3>1. i \in 1 .. n /\ i - 1 \in 0 .. n
      BY <2>1, <1>3
    <3>2. f[i - 1] \in X
      <4> HIDE DEF F, e
      <4>1. QED BY <3>1, <1>8
    <3>3. QED BY <3>1, <3>2
  <2> HIDE DEF F
  <2>2. QED BY <2>1, <1>8 DEF IsLoop
<1>10. added = Added(added)
  BY <1>9
<1> HIDE DEF added
<1>11. \A i \in 0 .. n : added[i] = IF i = 0 THEN e ELSE Next1(added[i - 1], i)
  BY <1>10
<1> DEFINE Good(d, i) == /\ Tidy(d) /\ Cover(d) = Held(s, i)
                         /\ d # <<>> => i # 0 /\ d[Len(d)].end = s[i].end
           G == {i \in 0 .. n : Good(added[i], i)}
<1>12. 0 \in G
  <2>1. 0 \in 0 .. n
    BY <1>3
  <2>2. added[0] = <<>>
    BY <2>1, <1>11
  <2>3. QED BY <2>1, <2>2, EmptyIsTidy, HeldIs
<1>13. ASSUME NEW i \in 1 .. n, i - 1 \in G PROVE i \in G
  <2> DEFINE d == added[i - 1]
  <2>1. i \in 0 .. n /\ i # 0 /\ i \in Nat \ {0} /\ s[i] \in Runs /\ i - 1 \in 0 .. n
    BY <1>3
  <2>2. Good(d, i - 1)
    BY <1>13
  <2>3. added[i] = Join(d, s[i])
    BY <2>1, <1>11 DEF Next1
  <2> HIDE DEF d
  <2>4. Tidy(d) /\ Cover(d) = Held(s, i - 1)
    BY <2>2
  <2>5. d # <<>> => d[Len(d)].end < s[i].start
    <3>1. SUFFICES ASSUME d # <<>> PROVE d[Len(d)].end < s[i].start
      OBVIOUS
    <3>2. i - 1 # 0 /\ d[Len(d)].end = s[i - 1].end
      BY <2>2, <3>1
    <3>3. i - 1 \in 1 .. n /\ i - 1 < i
      BY <2>1, <3>2
    <3>4. QED BY <3>2, <3>3, <1>2
  <2>6. /\ Tidy(Join(d, s[i])) /\ Cover(Join(d, s[i])) = Cover(d) \cup Sectors(s[i])
        /\ Join(d, s[i])[Len(Join(d, s[i]))].end = s[i].end
    BY <2>1, <2>4, <2>5, JoinIs
  <2>7. Held(s, i) = Held(s, i - 1) \cup Sectors(s[i])
    BY <2>1, HeldIs
  <2>8. Good(added[i], i)
    BY <2>1, <2>3, <2>4, <2>6, <2>7
  <2>9. QED BY <2>1, <2>8
<1> HIDE DEF G
<1>14. \A i \in 0 .. n : i \in G
  BY <1>12, <1>13, <1>3, Upto
<1>15. n \in 0 .. n
  BY <1>3
<1>16. Good(added[n], n)
  BY <1>14, <1>15 DEF G
<1>17. QED BY <1>1, <1>6, <1>16

AllApart(s) == s \in Seq(Runs) /\ \A i, j \in 1 .. Len(s) : i # j => Apart(s[i], s[j])

LEMMA MergeIs ==
  ASSUME NEW s, AllApart(s)
  PROVE  Tidy(Merge(s)) /\ Cover(Merge(s)) = Cover(s)
<1>1. Ordered(Sorted(s)) /\ Range(Sorted(s)) = Range(s)
  BY SortedIs DEF AllApart
<1>2. Tidy(Merge(s)) /\ Cover(Merge(s)) = Cover(Sorted(s))
  BY <1>1, JoinedIs DEF Merge
<1>3. QED BY <1>1, <1>2 DEF Cover

LEMMA OrderedIsApart ==
  ASSUME NEW s, Ordered(s)
  PROVE  AllApart(s)
<1>1. s \in Seq(Runs) /\ \A i, j \in 1 .. Len(s) : i < j => s[i].end < s[j].start
  BY DEF Ordered
<1>2. Len(s) \in Nat
  BY <1>1, LenProperties
<1>3. ASSUME NEW i \in 1 .. Len(s), NEW j \in 1 .. Len(s), i # j PROVE Apart(s[i], s[j])
  <2>1. i < j \/ j < i
    BY <1>2, <1>3
  <2>2. QED BY <2>1, <1>1 DEF Apart
<1>4. QED BY <1>1, <1>3 DEF AllApart

(* Sectors in a row that are all in a tidy list are in one of its areas.   *)
LEMMA RowInOne ==
  ASSUME NEW s, Tidy(s), NEW x \in Int, NEW y \in Int, x <= y, x .. y \subseteq Cover(s)
  PROVE  \E i \in 1 .. Len(s) : Covers(s[i], x) /\ Covers(s[i], y)
<1> DEFINE n == Len(s)
<1>1. s \in Seq(Runs) /\ \A i, j \in 1 .. n : i < j => s[i].end + 1 < s[j].start
  BY DEF Tidy
<1>2. n \in Nat /\ \A i \in 1 .. n : s[i] \in Runs
  BY <1>1, LenProperties
<1>3. \A i \in 1 .. n : s[i].start \in Nat /\ s[i].end \in Nat /\ s[i].start <= s[i].end
  BY <1>2, RunIs
<1>4. \A z \in x .. y : \E i \in 1 .. n : s[i].start <= z /\ z <= s[i].end
  <2>1. SUFFICES ASSUME NEW z \in x .. y PROVE \E i \in 1 .. n : s[i].start <= z /\ z <= s[i].end
    OBVIOUS
  <2>2. z \in Cover(s)
    OBVIOUS
  <2>3. PICK i \in 1 .. n : z \in Sectors(s[i])
    BY <2>2, <1>1, CoverIs
  <2>4. QED BY <2>3, <1>3 DEF Sectors
<1> HIDE DEF n
<1>5. PICK i \in 1 .. n : s[i].start <= x /\ x <= s[i].end
  BY <1>4
<1>6. y <= s[i].end
  <2>1. SUFFICES ASSUME ~(y <= s[i].end) PROVE FALSE
    OBVIOUS
  <2>2. s[i].end + 1 \in x .. y
    BY <2>1, <1>3, <1>5
  <2>3. PICK j \in 1 .. n : s[j].start <= s[i].end + 1 /\ s[i].end + 1 <= s[j].end
    BY <2>2, <1>4
  <2>4. i < j \/ j < i \/ i = j
    BY <1>2
  <2>5. /\ s[i].start \in Nat /\ s[i].end \in Nat /\ s[i].start <= s[i].end
        /\ s[j].start \in Nat /\ s[j].end \in Nat
    BY <1>3
  <2>6. CASE i < j
    <3>1. s[i].end + 1 < s[j].start
      BY <2>6, <1>1 DEF n
    <3>2. QED BY <3>1, <2>3, <2>5
  <2>7. CASE j < i
    <3>1. s[j].end + 1 < s[i].start
      BY <2>7, <1>1 DEF n
    <3>2. QED BY <3>1, <2>3, <2>5
  <2>8. CASE i = j
    BY <2>8, <2>3, <2>5
  <2>9. QED BY <2>4, <2>6, <2>7, <2>8
<1>7. s[i].start \in Nat /\ s[i].end \in Nat
  BY <1>3
<1>8. s[i].start <= y /\ x <= s[i].end
  BY <1>5, <1>6, <1>7
<1>9. QED BY <1>5, <1>6, <1>8 DEF Covers, n

-----------------------------------------------------------------------------
(* splice: the free areas without a range.                                 *)

LEMMA MinIs ==
  ASSUME NEW S \in SUBSET Int, NEW x \in S, \A y \in S : x =< y
  PROVE  Min(S) = x
<1>1. \E z \in S : \A y \in S : z =< y
  OBVIOUS
<1> DEFINE m == Min(S)
<1>2. m \in S /\ \A y \in S : m =< y
  BY <1>1 DEF Min
<1> HIDE DEF m
<1>3. m =< x /\ x =< m /\ m \in Int /\ x \in Int
  BY <1>2
<1>4. m = x
  BY <1>3
<1>5. QED BY <1>4 DEF m

LEMMA MaxIs ==
  ASSUME NEW S \in SUBSET Int, NEW x \in S, \A y \in S : x >= y
  PROVE  Max(S) = x
<1>1. \E z \in S : \A y \in S : z >= y
  OBVIOUS
<1> DEFINE m == Max(S)
<1>2. m \in S /\ \A y \in S : m >= y
  BY <1>1 DEF Max
<1> HIDE DEF m
<1>3. m >= x /\ x >= m /\ m \in Int /\ x \in Int
  BY <1>2
<1>4. m = x
  BY <1>3
<1>5. QED BY <1>4 DEF m

LEMMA SpanIs ==
  ASSUME NEW s, Ordered(s), s # <<>>
  PROVE  LET lo == Min({a.start : a \in Range(s)})
             hi == Max({a.end : a \in Range(s)})
         IN  /\ lo \in Nat /\ hi \in Nat /\ lo <= hi
             /\ lo \in Cover(s) /\ hi \in Cover(s) /\ Cover(s) \subseteq lo .. hi
<1> DEFINE n == Len(s)
           R == Range(s)
           lo == Min({a.start : a \in R})
           hi == Max({a.end : a \in R})
<1>1. s \in Seq(Runs) /\ \A i, j \in 1 .. n : i < j => s[i].end < s[j].start
  BY DEF Ordered
<1>2. n \in Nat \ {0} /\ 1 \in 1 .. n /\ n \in 1 .. n /\ \A i \in 1 .. n : s[i] \in Runs
  BY <1>1, EmptySeq, ElementOfSeq
<1>3. \A i \in 1 .. n : s[i].start \in Nat /\ s[i].end \in Nat /\ s[i].start <= s[i].end
  BY <1>2, RunIs
<1>4. R = {s[i] : i \in 1 .. n}
  BY <1>1, RangeIs
<1>5. \A x : x \in Cover(s) <=> \E i \in 1 .. n : x \in Sectors(s[i])
  BY <1>1, CoverIs
<1> HIDE DEF n, R
<1>6. \A i \in 1 .. n : s[1].start <= s[i].start /\ s[i].end <= s[n].end
  <2>1. \A i \in 1 .. n : (i = 1 \/ 1 < i) /\ (i = n \/ i < n)
    BY <1>2
  <2>2. QED BY <2>1, <1>1, <1>2, <1>3
<1>7. lo = s[1].start
  <2> DEFINE S == {a.start : a \in R}
  <2>1. S \in SUBSET Int /\ s[1].start \in S /\ \A y \in S : s[1].start =< y
    BY <1>2, <1>3, <1>4, <1>6
  <2> HIDE DEF S
  <2>2. Min(S) = s[1].start
    BY <2>1, MinIs
  <2>3. QED BY <2>2 DEF S
<1>8. hi = s[n].end
  <2> DEFINE S == {a.end : a \in R}
  <2>1. S \in SUBSET Int /\ s[n].end \in S /\ \A y \in S : s[n].end >= y
    BY <1>2, <1>3, <1>4, <1>6
  <2> HIDE DEF S
  <2>2. Max(S) = s[n].end
    BY <2>1, MaxIs
  <2>3. QED BY <2>2 DEF S
<1> HIDE DEF lo, hi
<1>9. lo \in Nat /\ hi \in Nat /\ lo <= hi
  BY <1>2, <1>3, <1>6, <1>7, <1>8
<1>10. lo \in Sectors(s[1]) /\ hi \in Sectors(s[n])
  BY <1>2, <1>3, <1>7, <1>8 DEF Sectors
<1>11. lo \in Cover(s) /\ hi \in Cover(s)
  BY <1>2, <1>5, <1>10
<1>12. ASSUME NEW x \in Cover(s) PROVE x \in lo .. hi
  <2>1. PICK i \in 1 .. n : x \in Sectors(s[i])
    BY <1>5, <1>12
  <2>2. x \in Int /\ s[i].start <= x /\ x <= s[i].end
    BY <2>1, <1>3 DEF Sectors
  <2>3. QED BY <2>2, <1>2, <1>3, <1>6, <1>7, <1>8
<1>13. QED BY <1>9, <1>11, <1>12 DEF lo, hi, R

(* add: what is left on one side of the range, if anything.                *)
LEMMA AppendApart ==
  ASSUME NEW s, AllApart(s), NEW a \in Runs, \A b \in Range(s) : Apart(b, a)
  PROVE  /\ AllApart(Append(s, a)) /\ Range(Append(s, a)) = Range(s) \cup {a}
<1> DEFINE n == Len(s)
           t == Append(s, a)
<1>1. s \in Seq(Runs) /\ \A i, j \in 1 .. n : i # j => Apart(s[i], s[j])
  BY DEF AllApart
<1>2. n \in Nat /\ Range(s) = {s[i] : i \in 1 .. n}
  BY <1>1, LenProperties, RangeIs
<1>3. /\ t \in Seq(Runs) /\ Len(t) = n + 1 /\ t[n + 1] = a
      /\ \A i \in 1 .. n : t[i] = s[i]
  BY <1>1, AppendProperties
<1>4. Range(t) = {t[i] : i \in 1 .. (n + 1)}
  BY <1>3, RangeIs
<1> HIDE DEF t, n
<1>5. 1 .. (n + 1) = (1 .. n) \cup {n + 1}
  BY <1>2
<1>6. \A i \in 1 .. n : Apart(s[i], a) /\ Apart(a, s[i])
  BY <1>2 DEF Apart
<1>7. ASSUME NEW i \in 1 .. (n + 1), NEW j \in 1 .. (n + 1), i # j PROVE Apart(t[i], t[j])
  BY <1>1, <1>3, <1>5, <1>6, <1>7
<1>8. Range(t) = Range(s) \cup {a}
  BY <1>2, <1>3, <1>4, <1>5
<1>9. QED BY <1>3, <1>7, <1>8 DEF AllApart, t

LEMMA AddBetween ==
  ASSUME NEW s, AllApart(s), NEW x \in Nat, NEW y \in Int, x <= y + 1,
         \A b \in Range(s) : b.end < x \/ y < b.start
  PROVE  LET t == Add(s, Between(x, y))
         IN  /\ AllApart(t) /\ Cover(t) = Cover(s) \cup (x .. y)
             /\ \A b \in Range(t) : b \in Range(s) \/ (b.start = x /\ b.end = y)
<1> DEFINE a == Area(x, y, y - x + 1)
           t == Add(s, Between(x, y))
<1>1. CASE x <= y
  <2>1. Between(x, y) = a
    BY <1>1, BetweenIs
  <2>2. a \in Runs /\ ~(a.size <= 0) /\ a.start = x /\ a.end = y
    BY <1>1 DEF Area, Runs, Recs
  <2>3. t = Append(s, a)
    BY <2>1, <2>2 DEF Add
  <2>4. Sectors(a) = x .. y
    BY <2>2 DEF Sectors
  <2> HIDE DEF a, t
  <2>5. \A b \in Range(s) : Apart(b, a)
    BY <2>2 DEF Apart
  <2>6. AllApart(t) /\ Range(t) = Range(s) \cup {a}
    BY <2>2, <2>3, <2>5, AppendApart
  <2>7. Cover(t) = Cover(s) \cup (x .. y)
    BY <2>4, <2>6 DEF Cover
  <2>8. QED BY <2>2, <2>6, <2>7 DEF t
<1>2. CASE ~(x <= y)
  <2>1. Between(x, y).size <= 0
    <3>1. y - x + 1 <= 0 /\ -2 <= 0
      BY <1>2
    <3>2. Area(x, y, y - x + 1).size = y - x + 1 /\ Raised.size = -2
      BY DEF Area, Raised
    <3>3. Between(x, y) \in {Area(x, y, y - x + 1), Raised}
      BY BetweenIs
    <3>4. QED BY <3>1, <3>2, <3>3, Zenon
  <2>2. t = s
    BY <2>1 DEF Add
  <2>3. x .. y = {}
    BY <1>2
  <2> HIDE DEF t
  <2>4. QED BY <2>2, <2>3 DEF t
<1>3. QED BY <1>1, <1>2

LEMMA RemoveApart ==
  ASSUME NEW s, AllApart(s), NEW k \in 1 .. Len(s)
  PROVE  /\ AllApart(RemoveAt(s, k))
         /\ Range(RemoveAt(s, k)) = {s[i] : i \in (1 .. Len(s)) \ {k}}
<1> DEFINE n == Len(s)
           t == RemoveAt(s, k)
<1>1. s \in Seq(Runs) /\ \A i, j \in 1 .. n : i # j => Apart(s[i], s[j])
  BY DEF AllApart
<1>2. n \in Nat /\ k \in 1 .. n
  BY <1>1, LenProperties
<1>3. /\ t \in Seq(Runs) /\ Len(t) = n - 1
      /\ \A i \in 1 .. (n - 1) : t[i] = IF i < k THEN s[i] ELSE s[i + 1]
  BY <1>1, RemoveAtSeq
<1>4. Range(t) = {t[i] : i \in 1 .. (n - 1)}
  BY <1>3, RangeIs
<1> HIDE DEF t, n
<1> DEFINE old(i) == IF i < k THEN i ELSE i + 1
<1>5. \A i \in 1 .. (n - 1) : old(i) \in 1 .. n /\ old(i) # k /\ t[i] = s[old(i)]
  BY <1>2, <1>3
<1>6. \A i, j \in 1 .. (n - 1) : i # j => old(i) # old(j)
  BY <1>2
<1>7. AllApart(t)
  <2> HIDE DEF old
  <2>1. \A i, j \in 1 .. (n - 1) : i # j => Apart(t[i], t[j])
    BY <1>1, <1>5, <1>6
  <2>2. QED BY <2>1, <1>3 DEF AllApart
<1>8. ASSUME NEW i \in (1 .. n) \ {k} PROVE s[i] \in Range(t)
  <2>1. CASE i < k
    <3>1. i \in 1 .. (n - 1)
      BY <2>1, <1>2
    <3>2. t[i] = s[i]
      BY <3>1, <2>1, <1>3
    <3>3. QED BY <3>1, <3>2, <1>4
  <2>2. CASE ~(i < k)
    <3>1. i - 1 \in 1 .. (n - 1) /\ ~(i - 1 < k) /\ (i - 1) + 1 = i
      BY <2>2, <1>2
    <3>2. t[i - 1] = s[i]
      BY <3>1, <1>3
    <3>3. QED BY <3>1, <3>2, <1>4
  <2>3. QED BY <2>1, <2>2
<1>9. Range(t) = {s[i] : i \in (1 .. n) \ {k}}
  <2> HIDE DEF old
  <2>1. ASSUME NEW i \in 1 .. (n - 1) PROVE t[i] \in {s[j] : j \in (1 .. n) \ {k}}
    BY <1>5
  <2>2. QED BY <2>1, <1>4, <1>8
<1>10. QED BY <1>7, <1>9 DEF t, n

LEMMA CutIs ==
  ASSUME NEW s, Tidy(s), NEW m \in 1 .. Len(s), NEW x \in Int, NEW y \in Int,
         Covers(s[m], x), Covers(s[m], y), x <= y + 1
  PROVE  LET t == Merge(Add(Add(RemoveAt(s, m), Between(s[m].start, x - 1)),
                            Between(y + 1, s[m].end)))
         IN  Tidy(t) /\ Cover(t) = Cover(s) \ (x .. y)
<1> DEFINE g == s[m]
           rest == RemoveAt(s, m)
           x1 == x - 1
           y1 == y + 1
           left == Add(rest, Between(g.start, x1))
           both == Add(left, Between(y1, g.end))
<1>1. s \in Seq(Runs) /\ AllApart(s)
  BY TidyIsOrdered, OrderedIsApart DEF Tidy
<1>2. g \in Runs
  BY <1>1, ElementOfSeq
<1>3. /\ g.start \in Nat /\ g.end \in Nat
      /\ g.start <= x /\ x <= g.end /\ g.start <= y /\ y <= g.end
  BY <1>2, RunIs DEF Covers
<1>4. AllApart(rest) /\ Range(rest) = {s[i] : i \in (1 .. Len(s)) \ {m}}
  BY <1>1, RemoveApart
<1>5. Range(s) = {s[i] : i \in 1 .. Len(s)}
  BY <1>1, RangeIs
<1>6. \A b \in Range(rest) : b.end < g.start \/ g.end < b.start
  BY <1>1, <1>4 DEF AllApart, Apart
<1>7. \A b \in Range(rest) : b \in Runs
  <2>1. rest \in Seq(Runs)
    BY <1>4 DEF AllApart
  <2>2. QED BY <2>1, RangeIs
<1>8. \A b \in Range(rest) : b.start \in Nat /\ b.end \in Nat /\ b.start <= b.end
  BY <1>7, RunIs
<1>9. x1 \in Int /\ y1 \in Nat /\ g.start <= x1 + 1 /\ y1 <= g.end + 1 /\ x1 < y1 /\ x1 <= g.end
  BY <1>3
<1> HIDE DEF g, rest
<1>10. /\ AllApart(left) /\ Cover(left) = Cover(rest) \cup (g.start .. x1)
       /\ \A b \in Range(left) : b \in Range(rest) \/ (b.start = g.start /\ b.end = x1)
  <2>1. \A b \in Range(rest) : b.end < g.start \/ x1 < b.start
    BY <1>3, <1>6, <1>8, <1>9
  <2> HIDE DEF x1, y1
  <2>2. QED BY <2>1, <1>3, <1>4, <1>9, AddBetween
<1> HIDE DEF left
<1>11. /\ AllApart(both) /\ Cover(both) = Cover(left) \cup (y1 .. g.end)
  <2>1. \A b \in Range(left) : b.end < y1 \/ g.end < b.start
    <3>1. SUFFICES ASSUME NEW b \in Range(left) PROVE b.end < y1 \/ g.end < b.start
      OBVIOUS
    <3>2. CASE b \in Range(rest)
      BY <3>2, <1>3, <1>6, <1>8, <1>9
    <3>3. CASE b.start = g.start /\ b.end = x1
      BY <3>3, <1>9
    <3>4. QED BY <3>2, <3>3, <1>10
  <2>2. y1 \in Nat /\ g.end \in Int /\ y1 <= g.end + 1 /\ AllApart(left)
    BY <1>3, <1>9, <1>10
  <2> HIDE DEF x1, y1
  <2>3. QED BY <2>1, <2>2, AddBetween
<1> HIDE DEF both
<1>12. Tidy(Merge(both)) /\ Cover(Merge(both)) = Cover(both)
  BY <1>11, MergeIs
<1>13. Cover(rest) = Cover(s) \ Sectors(g)
  <2>1. Range(s) = Range(rest) \cup {g}
    BY <1>4, <1>5 DEF g
  <2>2. ASSUME NEW b \in Range(rest), NEW z \in Sectors(b) PROVE z \notin Sectors(g)
    BY <1>3, <1>6, <1>8, <2>2 DEF Sectors
  <2>3. QED BY <2>1, <2>2 DEF Cover
<1>14. Sectors(g) \subseteq Cover(s)
  BY <1>5 DEF Cover, g
<1>15. (g.start .. x1) \cup (y1 .. g.end) = Sectors(g) \ (x .. y) /\ x .. y \subseteq Sectors(g)
  <2>1. x .. y \subseteq g.start .. g.end
    BY <1>3
  <2>2. (g.start .. (x - 1)) \cup ((y + 1) .. g.end) = (g.start .. g.end) \ (x .. y)
    BY <1>3
  <2>3. QED BY <2>1, <2>2 DEF Sectors
<1> HIDE DEF x1, y1
<1>16. Cover(both) = Cover(s) \ (x .. y)
  BY <1>10, <1>11, <1>13, <1>14, <1>15
<1>17. QED BY <1>12, <1>16 DEF both, left, rest, g, x1, y1

LEMMA TidyNotRaised ==
  ASSUME NEW s, Tidy(s)
  PROVE  s # RaisedList
<1>1. SUFFICES ASSUME s = RaisedList PROVE FALSE
  OBVIOUS
<1>2. s \in Seq(Runs) /\ 1 \in 1 .. Len(s) /\ s[1] = Raised
  BY <1>1 DEF Tidy, RaisedList
<1>3. Raised \in Runs
  BY <1>2, ElementOfSeq
<1>4. QED BY <1>3 DEF Runs, Raised, Area, Absent

(* splice takes the range out when it meets the span of the free areas in  *)
(* free sectors only; it never frees a sector.  It raises only for a range *)
(* that is empty or has a sector that is not free.                         *)
LEMMA SpliceIs ==
  ASSUME NEW s, Tidy(s), NEW r \in Recs, r.start \in Nat, r.start <= r.end + 1
  PROVE  /\ Splice(s, r) # RaisedList => Tidy(Splice(s, r)) /\ Cover(Splice(s, r)) \subseteq Cover(s)
         /\ Splice(s, r) # RaisedList
            /\ (\A x, y \in Cover(s) : (x .. y) \cap Sectors(r) \subseteq Cover(s))
              => Cover(Splice(s, r)) = Cover(s) \ Sectors(r)
         /\ Sectors(r) # {} /\ Sectors(r) \subseteq Cover(s) => Splice(s, r) # RaisedList
<1> DEFINE n == Len(s)
           lo == Min({a.start : a \in Range(s)})
           hi == Max({a.end : a \in Range(s)})
           start == IF r.start < lo THEN lo ELSE r.start
           end == IF r.end > hi THEN hi ELSE r.end
           targets == {i \in DOMAIN s : Covers(s[i], start) /\ Covers(s[i], end)}
           m == Min(targets)
           cut == Merge(Add(Add(RemoveAt(s, m), Between(s[m].start, start - 1)),
                            Between(end + 1, s[m].end)))
           t == Splice(s, r)
<1>1. t = IF s = <<>> \/ s = RaisedList THEN s
          ELSE IF start > end + 1 THEN RaisedList
          ELSE IF targets = {} THEN s ELSE cut
  BY DEF Splice
<1>2. s # RaisedList
  BY TidyNotRaised
<1>3. r.start \in Nat /\ r.end \in Int /\ r.start <= r.end + 1
  BY DEF Recs
<1>4. s \in Seq(Runs) /\ DOMAIN s = 1 .. n /\ n \in Nat
  BY LenProperties DEF Tidy
<1> HIDE DEF t, cut
<1>5. CASE s = <<>>
  <2>1. t = s /\ Cover(s) = {}
    BY <1>1, <1>5, EmptyIsTidy
  <2>2. QED BY <2>1, <1>2 DEF t
<1>6. CASE s # <<>>
  <2>1. /\ lo \in Nat /\ hi \in Nat /\ lo <= hi
        /\ lo \in Cover(s) /\ hi \in Cover(s) /\ Cover(s) \subseteq lo .. hi
    BY <1>6, TidyIsOrdered, SpanIs
  <2> HIDE DEF lo, hi
  <2>2. start \in Nat /\ end \in Int /\ lo <= start /\ end <= hi /\ r.start <= start /\ end <= r.end
    BY <2>1, <1>3
  <2>3. start .. end = (lo .. hi) \cap Sectors(r)
    <3>1. start .. end = (lo .. hi) \cap (r.start .. r.end)
      BY <2>1, <1>3
    <3>2. QED BY <3>1 DEF Sectors
  <2>4. Cover(s) \ (start .. end) = Cover(s) \ Sectors(r)
    BY <2>1, <2>3
  <2>5. Sectors(r) # {} /\ Sectors(r) \subseteq Cover(s) => start <= end
    <3>1. SUFFICES ASSUME Sectors(r) # {}, Sectors(r) \subseteq Cover(s) PROVE start <= end
      OBVIOUS
    <3>2. r.start <= r.end
      BY <3>1, <1>3 DEF Sectors
    <3>3. r.start \in Sectors(r) /\ r.end \in Sectors(r)
      BY <3>2, <1>3 DEF Sectors
    <3>4. r.start \in lo .. hi /\ r.end \in lo .. hi
      BY <3>1, <3>3, <2>1
    <3>5. QED BY <3>2, <3>4, <2>1, <1>3
  <2> HIDE DEF start, end
  <2>6. CASE start > end + 1
    <3>1. t = RaisedList /\ ~(start <= end)
      BY <1>1, <1>2, <1>6, <2>2, <2>6
    <3>2. QED BY <3>1, <2>5 DEF t
  <2>7. CASE ~(start > end + 1) /\ targets = {}
    <3>1. t = s
      BY <1>1, <1>2, <1>6, <2>7
    <3>2. ASSUME \A x, y \in Cover(s) : (x .. y) \cap Sectors(r) \subseteq Cover(s)
          PROVE  start .. end = {}
      <4>1. SUFFICES ASSUME start .. end # {} PROVE FALSE
        OBVIOUS
      <4>2. start <= end
        BY <4>1, <2>2
      <4>3. start .. end \subseteq Cover(s)
        BY <3>2, <2>1, <2>3
      <4>4. \E i \in 1 .. Len(s) : Covers(s[i], start) /\ Covers(s[i], end)
        BY <4>2, <4>3, <2>2, RowInOne
      <4>5. QED BY <4>4, <2>7, <1>4
    <3>3. QED BY <3>1, <3>2, <2>4, <1>2 DEF t
  <2>8. CASE ~(start > end + 1) /\ targets # {}
    <3>1. t = cut
      BY <1>1, <1>2, <1>6, <2>8
    <3>2. m \in targets
      <4>1. targets \in SUBSET Nat /\ targets # {}
        BY <2>8, <1>4
      <4> HIDE DEF targets
      <4>2. \E i \in targets : \A j \in targets : i =< j
        BY <4>1, LeastIndex
      <4>3. QED BY <4>2 DEF Min
    <3>3. m \in 1 .. Len(s) /\ Covers(s[m], start) /\ Covers(s[m], end)
      BY <3>2, <1>4
    <3> HIDE DEF m
    <3>4. Tidy(cut) /\ Cover(cut) = Cover(s) \ (start .. end)
      <4>1. start <= end + 1
        BY <2>2, <2>8
      <4>2. QED BY <4>1, <3>3, <2>2, CutIs DEF cut
    <3>5. t # RaisedList
      BY <3>1, <3>4, TidyNotRaised
    <3>6. QED BY <3>1, <3>4, <3>5, <2>4 DEF t
  <2>9. QED BY <2>6, <2>7, <2>8
<1>7. QED BY <1>5, <1>6

-----------------------------------------------------------------------------
(* align: the areas cut to whole blocks, but for those it passes over.     *)

LEMMA Times ==
  ASSUME NEW i \in Int, NEW j \in Int, NEW a \in Nat, a > 0
  PROVE  /\ i * a \in Int
         /\ i < j <=> i * a < j * a
         /\ i <= j <=> i * a <= j * a
         /\ i < j => i * a + a <= j * a
<1>1. i * a \in Int /\ j * a \in Int /\ (j - i) * a = j * a - i * a
  BY Z3
<1>2. i < j => (j - i) * a >= a
  <2> DEFINE d == j - i
  <2>1. d \in Int /\ (i < j <=> d >= 1)
    OBVIOUS
  <2> HIDE DEF d
  <2>2. d >= 1 => d * a >= a
    BY <2>1, Z3
  <2>3. QED BY <2>1, <2>2 DEF d
<1>3. j < i => (i - j) * a >= a /\ (i - j) * a = i * a - j * a
  <2> DEFINE d == i - j
  <2>1. d \in Int /\ (j < i <=> d >= 1)
    OBVIOUS
  <2>2. (i - j) * a = i * a - j * a
    BY Z3
  <2> HIDE DEF d
  <2>3. d >= 1 => d * a >= a
    BY <2>1, Z3
  <2>4. QED BY <2>1, <2>2, <2>3 DEF d
<1>4. i = j => i * a = j * a
  OBVIOUS
<1>5. i < j \/ j < i \/ i = j
  OBVIOUS
<1> DEFINE p == i * a
           q == j * a
           u == (j - i) * a
           v == (i - j) * a
<1>6. p \in Int /\ q \in Int /\ u = q - p /\ (i < j => u >= a) /\ (j < i => v >= a /\ v = p - q) /\ (i = j => p = q)
  BY <1>1, <1>2, <1>3, <1>4
<1> HIDE DEF p, q, u, v
<1>7. /\ i < j => p + a <= q
      /\ j < i => q + a <= p
  BY <1>6
<1>8. /\ p \in Int /\ i < j <=> p < q
      /\ i <= j <=> p <= q
      /\ i < j => p + a <= q
  BY <1>5, <1>6, <1>7
<1>9. QED BY <1>8 DEF p, q

LEMMA RoundDownIs ==
  ASSUME NEW n \in Int, NEW a \in Nat, a > 0
  PROVE  /\ RoundDown(n, a) \in Int /\ RoundDown(n, a) <= n /\ n < RoundDown(n, a) + a
         /\ \A k \in Int : k * a <= n => k * a <= RoundDown(n, a)
<1> DEFINE q == n \div a
<1>1. q \in Int /\ q * a <= n /\ n < q * a + a /\ q * a \in Int
  BY Z3
<1> HIDE DEF q
<1>2. ASSUME NEW k \in Int, k * a <= n PROVE k * a <= q * a
  <2>1. SUFFICES ASSUME ~(k <= q) PROVE FALSE
    BY <1>1, Times
  <2>2. q * a + a <= k * a /\ k * a \in Int
    BY <1>1, <2>1, Times
  <2>3. QED BY <1>1, <1>2, <2>2
<1>3. RoundDown(n, a) = q * a
  BY DEF RoundDown, q
<1>4. QED BY <1>1, <1>2, <1>3

LEMMA RoundUpIs ==
  ASSUME NEW n \in Int, NEW a \in Nat, a > 0
  PROVE  /\ RoundUp(n, a) \in Int /\ n <= RoundUp(n, a) /\ RoundUp(n, a) < n + a
         /\ \A k \in Int : n <= k * a => RoundUp(n, a) <= k * a
<1> DEFINE m == n + a - 1
           q == m \div a
<1>1. m \in Int
  OBVIOUS
<1> HIDE DEF m
<1>2. q \in Int /\ q * a <= m /\ m < q * a + a /\ q * a \in Int
  BY <1>1, Z3
<1> HIDE DEF q
<1>3. n <= q * a /\ q * a < n + a
  <2> DEFINE p == q * a
  <2>1. p \in Int /\ p <= m /\ m < p + a
    BY <1>2
  <2> HIDE DEF p
  <2>2. n <= p /\ p < n + a
    BY <2>1 DEF m
  <2>3. QED BY <2>2 DEF p
<1>4. ASSUME NEW k \in Int, n <= k * a PROVE q * a <= k * a
  <2>1. SUFFICES ASSUME k < q PROVE FALSE
    BY <1>2, Times
  <2> DEFINE p == q * a
             l == k * a
  <2>2. l + a <= p /\ l \in Int
    BY <1>2, <2>1, Times
  <2>3. p \in Int /\ p < n + a /\ n <= l
    BY <1>2, <1>3, <1>4
  <2> HIDE DEF p, l
  <2>4. QED BY <2>2, <2>3
<1>5. RoundUp(n, a) = q * a
  BY DEF RoundUp, RoundDown, q, m
<1>6. QED BY <1>2, <1>3, <1>4, <1>5

Big(a, align) ==
  LET b == Aligned(a, align) IN b.start < b.end /\ b.size >= align

LEMMA AlignedIs ==
  ASSUME NEW a \in Runs, NEW align \in Nat, align > 0
  PROVE  LET b == Aligned(a, align)
         IN  /\ b \in Recs /\ b.size = b.end - b.start + 1
             /\ a.start <= b.start /\ b.end <= a.end
             /\ Sectors(b) \subseteq Sectors(a)
             /\ b.start < b.end => b \in Runs
<1> DEFINE b == Aligned(a, align)
           x == RoundUp(a.start, align)
           d == RoundDown(a.end + 1, align)
<1>1. a.start \in Nat /\ a.end \in Nat
  BY RunIs
<1>2. x \in Int /\ a.start <= x
  BY <1>1, RoundUpIs
<1>3. d \in Int /\ d <= a.end + 1
  <2>1. a.end + 1 \in Int
    BY <1>1
  <2>2. QED BY <2>1, RoundDownIs
<1>4. b = Area(x, d - 1, d - 1 - x + 1)
  BY DEF Aligned
<1> HIDE DEF b, x, d
<1>5. b \in Recs /\ b.start = x /\ b.end = d - 1 /\ b.size = b.end - b.start + 1
  BY <1>2, <1>3, <1>4 DEF Area, Recs
<1>6. a.start <= b.start /\ b.end <= a.end
  BY <1>1, <1>2, <1>3, <1>5
<1>7. Sectors(b) \subseteq Sectors(a)
  BY <1>1, <1>2, <1>3, <1>5, <1>6 DEF Sectors
<1>8. b.start < b.end => b \in Runs
  BY <1>1, <1>2, <1>3, <1>5, <1>6 DEF Runs
<1>9. QED BY <1>5, <1>6, <1>7, <1>8 DEF b

LEMMA AppendOrdered ==
  ASSUME NEW d, Ordered(d), NEW a \in Runs, \A i \in 1 .. Len(d) : d[i].end < a.start
  PROVE  Ordered(Append(d, a)) /\ Cover(Append(d, a)) = Cover(d) \cup Sectors(a)
<1> DEFINE n == Len(d)
           t == Append(d, a)
<1>1. d \in Seq(Runs) /\ \A i, j \in 1 .. n : i < j => d[i].end < d[j].start
  BY DEF Ordered
<1>2. n \in Nat
  BY <1>1, LenProperties
<1>3. /\ t \in Seq(Runs) /\ Len(t) = n + 1 /\ t[n + 1] = a
      /\ \A i \in 1 .. n : t[i] = d[i]
  BY <1>1, AppendProperties
<1>4. \A i \in 1 .. n : d[i].end < a.start
  OBVIOUS
<1>5. Range(t) = {t[i] : i \in 1 .. (n + 1)} /\ Range(d) = {d[i] : i \in 1 .. n}
  BY <1>1, <1>3, RangeIs
<1> HIDE DEF t, n
<1>6. ASSUME NEW i \in 1 .. (n + 1), NEW j \in 1 .. (n + 1), i < j PROVE t[i].end < t[j].start
  <2>1. i \in 1 .. n
    BY <1>2, <1>6
  <2>2. j = n + 1 \/ j \in 1 .. n
    BY <1>2
  <2>3. QED BY <2>1, <2>2, <1>1, <1>3, <1>4, <1>6
<1>7. Range(t) = Range(d) \cup {a}
  <2>1. 1 .. (n + 1) = (1 .. n) \cup {n + 1}
    BY <1>2
  <2>2. QED BY <2>1, <1>3, <1>5
<1>8. Cover(t) = Cover(d) \cup Sectors(a)
  BY <1>7 DEF Cover
<1>9. QED BY <1>3, <1>6, <1>8 DEF Ordered, t

Accs == [areas : Seq(Runs), passOver : BOOLEAN]

(* One turn of the loop: nothing is kept, or the area or what is aligned   *)
(* of it; an area that holds a whole block keeps its whole blocks.         *)
LEMMA AlignStepIs ==
  ASSUME NEW align \in Nat, align > 0, NEW acc \in Accs, NEW a \in Runs
  PROVE  LET new == AlignStep(align, acc, a)
             b == Aligned(a, align)
         IN  /\ new \in Accs
             /\ \/ new.areas = acc.areas /\ ~Big(a, align)
                \/ new.areas = Append(acc.areas, a)
                \/ new.areas = Append(acc.areas, b) /\ b \in Runs
<1> DEFINE new == AlignStep(align, acc, a)
           b == Aligned(a, align)
<1>1. acc.areas \in Seq(Runs) /\ acc.passOver \in BOOLEAN
  BY DEF Accs
<1>2. b.start < b.end => b \in Runs
  BY AlignedIs
<1>3. b.start \in Int /\ b.end \in Int /\ b.size \in Int
  BY AlignedIs DEF Recs
<1>4. Append(acc.areas, a) \in Seq(Runs)
  BY <1>1, AppendProperties
<1>5. CASE acc.passOver
  <2>1. new = [areas |-> Append(acc.areas, a), passOver |-> FALSE]
    BY <1>5 DEF AlignStep
  <2>2. QED BY <2>1, <1>4 DEF Accs
<1>6. CASE ~acc.passOver /\ (b.start >= b.end \/ b.size < align)
  <2>1. new = [acc EXCEPT !.passOver = TRUE]
    BY <1>6 DEF AlignStep
  <2>2. ~Big(a, align)
    BY <1>3, <1>6 DEF Big
  <2>3. new \in Accs /\ new.areas = acc.areas
    BY <2>1 DEF Accs
  <2>4. QED BY <2>2, <2>3
<1>7. CASE ~acc.passOver /\ ~(b.start >= b.end \/ b.size < align)
  <2>1. b \in Runs
    BY <1>2, <1>3, <1>7
  <2>2. new = [acc EXCEPT !.areas = Append(acc.areas, b)]
    BY <1>7 DEF AlignStep
  <2> HIDE DEF b
  <2>3. Append(acc.areas, b) \in Seq(Runs)
    BY <2>1, <1>1, AppendProperties
  <2>4. new \in Accs /\ new.areas = Append(acc.areas, b)
    BY <2>2, <2>3 DEF Accs
  <2>5. QED BY <2>1, <2>4 DEF b
<1>8. QED BY <1>1, <1>5, <1>6, <1>7

LEMMA AlignAllIs ==
  ASSUME NEW align \in Nat, align > 0, NEW s, Tidy(s)
  PROVE  /\ Tidy(AlignAll(s, align)) /\ Cover(AlignAll(s, align)) \subseteq Cover(s)
         /\ \A m \in 1 .. Len(s) :
              Big(s[m], align) => Sectors(Aligned(s[m], align)) \subseteq Cover(AlignAll(s, align))
<1> DEFINE order == Sorted(s)
           n == Len(order)
           X == Accs
           e == [areas |-> <<>>, passOver |-> FALSE]
           Next1(x, i) == AlignStep(align, x, order[i])
           Added(k) == [i \in 0 .. n |-> IF i = 0 THEN e ELSE Next1(k[i - 1], i)]
           added == CHOOSE k : k = Added(k)
           F == [i \in 1 .. n |-> [x \in X |-> Next1(x, i)]]
<1>1. AlignAll(s, align) = Merge(added[n].areas)
  BY TidyNotRaised DEF AlignAll
<1>2. Ordered(order) /\ Range(order) = Range(s)
  <2>1. AllApart(s)
    BY TidyIsOrdered, OrderedIsApart
  <2>2. QED BY <2>1, SortedIs DEF AllApart
<1> HIDE DEF order
<1>3. order \in Seq(Runs) /\ \A i, j \in 1 .. n : i < j => order[i].end < order[j].start
  BY <1>2 DEF Ordered
<1>4. n \in Nat /\ \A i \in 1 .. n : order[i] \in Runs
  BY <1>3, LenProperties
<1>5. Held(order, n) = Cover(s)
  <2>1. Held(order, n) = Cover(order)
    BY <1>3, HeldAll
  <2>2. QED BY <2>1, <1>2 DEF Cover
<1>6. \A m \in 1 .. Len(s) : \E i \in 1 .. n : s[m] = order[i]
  <2>1. Range(order) = {order[i] : i \in 1 .. n}
    BY <1>3, RangeIs
  <2>2. \A m \in 1 .. Len(s) : s[m] \in Range(s)
    BY RangeIs DEF Tidy
  <2>3. QED BY <2>1, <2>2, <1>2
<1>7. e \in X
  BY EmptySeq DEF Accs
<1>8. ASSUME NEW i \in 1 .. n, NEW x \in X PROVE Next1(x, i) \in X
  BY <1>4, AlignStepIs
<1> HIDE DEF Next1, X, n
<1>9. F \in [1 .. n -> [X -> X]]
  BY <1>8
<1>10. PICK f \in [0 .. n -> X] : IsLoop(f, n, e, F)
  <2> HIDE DEF F, e
  <2>1. QED BY <1>4, <1>7, <1>9, Loop
<1>11. f = Added(f)
  <2>1. ASSUME NEW i \in 0 .. n, i # 0 PROVE F[i][f[i - 1]] = Next1(f[i - 1], i)
    <3>1. i \in 1 .. n /\ i - 1 \in 0 .. n
      BY <2>1, <1>4
    <3>2. f[i - 1] \in X
      <4> HIDE DEF F, e
      <4>1. QED BY <3>1, <1>10
    <3>3. QED BY <3>1, <3>2
  <2> HIDE DEF F
  <2>2. QED BY <2>1, <1>10 DEF IsLoop
<1>12. added = Added(added)
  BY <1>11
<1> HIDE DEF added
<1>13. \A i \in 0 .. n : added[i] = IF i = 0 THEN e ELSE Next1(added[i - 1], i)
  BY <1>12
<1> DEFINE Good(acc, i) ==
             /\ acc \in Accs /\ Ordered(acc.areas) /\ Cover(acc.areas) \subseteq Held(order, i)
             /\ \A j \in 1 .. Len(acc.areas) : i # 0 /\ acc.areas[j].end <= order[i].end
             /\ \A m \in 1 .. i : Big(order[m], align) =>
                  Sectors(Aligned(order[m], align)) \subseteq Cover(acc.areas)
           G == {i \in 0 .. n : Good(added[i], i)}
<1>14. 0 \in G
  <2>1. 0 \in 0 .. n /\ 1 .. 0 = {}
    BY <1>4
  <2>2. added[0] = e
    BY <2>1, <1>13
  <2>3. e.areas = <<>> /\ Len(<<>>) = 0
    OBVIOUS
  <2>4. QED BY <2>1, <2>2, <2>3, <1>7, EmptyIsTidy DEF X
<1>15. ASSUME NEW i \in 1 .. n, i - 1 \in G PROVE i \in G
  <2> DEFINE acc == added[i - 1]
             new == added[i]
             a == order[i]
             b == Aligned(a, align)
             d == acc.areas
  <2>1. i \in 0 .. n /\ i # 0 /\ i \in Nat \ {0} /\ a \in Runs /\ i - 1 \in 0 .. n
    BY <1>4
  <2>2. Good(acc, i - 1)
    BY <1>15
  <2>3. new = AlignStep(align, acc, a)
    BY <2>1, <1>13 DEF Next1
  <2> HIDE DEF acc, new
  <2>4. /\ new \in Accs
        /\ \/ new.areas = d /\ ~Big(a, align)
           \/ new.areas = Append(d, a)
           \/ new.areas = Append(d, b) /\ b \in Runs
    <3>1. acc \in Accs
      BY <2>2
    <3>2. QED BY <2>1, <2>3, <3>1, AlignStepIs
  <2>5. /\ a.start \in Nat /\ a.end \in Nat /\ a.start <= a.end
        /\ a.start <= b.start /\ b.end <= a.end /\ b \in Recs /\ Sectors(b) \subseteq Sectors(a)
    BY <2>1, RunIs, AlignedIs
  <2>6. /\ Ordered(d) /\ Cover(d) \subseteq Held(order, i - 1)
        /\ \A j \in 1 .. Len(d) : i - 1 # 0 /\ d[j].end <= order[i - 1].end
        /\ \A m \in 1 .. (i - 1) : Big(order[m], align) =>
             Sectors(Aligned(order[m], align)) \subseteq Cover(d)
    BY <2>2
  <2>7. d \in Seq(Runs) /\ Len(d) \in Nat /\ \A j \in 1 .. Len(d) : d[j] \in Runs
    BY <2>6, LenProperties DEF Ordered
  <2>8. \A j \in 1 .. Len(d) : d[j].end \in Nat
    BY <2>7, RunIs
  <2>9. \A j \in 1 .. Len(d) : d[j].end < a.start
    <3>1. SUFFICES ASSUME NEW j \in 1 .. Len(d) PROVE d[j].end < a.start
      OBVIOUS
    <3>2. i - 1 \in 1 .. n /\ i - 1 < i /\ d[j].end <= order[i - 1].end
      BY <2>1, <2>6
    <3>3. order[i - 1].end < a.start
      BY <3>2, <1>3 DEF n
    <3>4. order[i - 1].end \in Nat
      BY <3>2, <1>4, RunIs
    <3>5. QED BY <3>2, <3>3, <3>4, <2>5, <2>8
  <2>10. Held(order, i) = Held(order, i - 1) \cup Sectors(a)
    BY <2>1, HeldIs
  <2> HIDE DEF a, d, Good
  <2>11. ASSUME NEW c \in Runs, a.start <= c.start, c.end <= a.end, Sectors(c) \subseteq Sectors(a),
                Sectors(b) \subseteq Sectors(c), new.areas = Append(d, c)
         PROVE  Good(new, i)
    <3>1. c.start \in Nat /\ c.end \in Nat
      BY RunIs
    <3>2. \A j \in 1 .. Len(d) : d[j].end < c.start
      BY <2>5, <2>8, <2>9, <2>11, <3>1
    <3>3. Ordered(new.areas) /\ Cover(new.areas) = Cover(d) \cup Sectors(c)
      BY <2>6, <2>11, <3>2, AppendOrdered
    <3>4. Cover(new.areas) \subseteq Held(order, i)
      BY <3>3, <2>6, <2>10, <2>11
    <3>5. /\ Len(new.areas) = Len(d) + 1 /\ new.areas[Len(d) + 1] = c
          /\ \A j \in 1 .. Len(d) : new.areas[j] = d[j]
      BY <2>7, <2>11, AppendProperties
    <3>6. \A j \in 1 .. Len(new.areas) : new.areas[j].end <= a.end
      <4>1. SUFFICES ASSUME NEW j \in 1 .. Len(new.areas) PROVE new.areas[j].end <= a.end
        OBVIOUS
      <4>2. CASE j = Len(d) + 1
        BY <4>2, <3>5, <2>11
      <4>3. CASE j # Len(d) + 1
        <5>1. j \in 1 .. Len(d)
          BY <4>3, <3>5, <2>7
        <5>2. QED BY <5>1, <3>5, <2>5, <2>8, <2>9
      <4>4. QED BY <4>2, <4>3
    <3>7. \A m \in 1 .. i : Big(order[m], align) =>
            Sectors(Aligned(order[m], align)) \subseteq Cover(new.areas)
      <4>1. \A m \in 1 .. i : m = i \/ m \in 1 .. (i - 1)
        BY <2>1
      <4>2. QED BY <4>1, <3>3, <2>6, <2>11 DEF a
    <3>8. QED BY <3>3, <3>4, <3>6, <3>7, <2>1, <2>4 DEF Good, a
  <2>12. ASSUME new.areas = d, ~Big(a, align) PROVE Good(new, i)
    <3>1. \A j \in 1 .. Len(d) : d[j].end <= a.end
      BY <2>5, <2>8, <2>9
    <3>2. \A m \in 1 .. i : m = i \/ m \in 1 .. (i - 1)
      BY <2>1
    <3>3. \A m \in 1 .. i : Big(order[m], align) =>
            Sectors(Aligned(order[m], align)) \subseteq Cover(new.areas)
      BY <3>2, <2>6, <2>12 DEF a
    <3>4. Cover(new.areas) \subseteq Held(order, i)
      BY <2>6, <2>10, <2>12
    <3>5. Ordered(new.areas) /\ \A j \in 1 .. Len(new.areas) : i # 0 /\ new.areas[j].end <= a.end
      BY <3>1, <2>1, <2>6, <2>12
    <3>6. QED BY <3>3, <3>4, <3>5, <2>4 DEF Good, a
  <2>13. ASSUME new.areas = Append(d, a) PROVE Good(new, i)
    <3> HIDE DEF b
    <3>1. a.start <= a.start /\ a.end <= a.end /\ Sectors(a) \subseteq Sectors(a)
      BY <2>5
    <3>2. QED BY <3>1, <2>1, <2>5, <2>11, <2>13
  <2>14. ASSUME new.areas = Append(d, b), b \in Runs PROVE Good(new, i)
    <3> HIDE DEF b
    <3>1. QED BY <2>5, <2>11, <2>14
  <2>15. Good(new, i)
    BY <2>4, <2>12, <2>13, <2>14
  <2>16. QED BY <2>1, <2>15 DEF new
<1> HIDE DEF G
<1>16. \A i \in 0 .. n : i \in G
  BY <1>14, <1>15, <1>4, Upto
<1>17. n \in 0 .. n
  BY <1>4
<1>18. Good(added[n], n)
  BY <1>16, <1>17 DEF G
<1> DEFINE d == added[n].areas
<1>19. /\ Ordered(d) /\ Cover(d) \subseteq Cover(s)
       /\ \A m \in 1 .. n : Big(order[m], align) => Sectors(Aligned(order[m], align)) \subseteq Cover(d)
  BY <1>5, <1>18
<1> HIDE DEF d
<1>20. Tidy(Merge(d)) /\ Cover(Merge(d)) = Cover(d)
  BY <1>19, OrderedIsApart, MergeIs
<1>21. QED BY <1>1, <1>6, <1>19, <1>20 DEF d

-----------------------------------------------------------------------------
(* find: the area an entry is given.                                       *)

LEMMA SmallestIn ==
  ASSUME NEW s \in Seq(Runs), NEW use \in SUBSET (1 .. Len(s)), use # {}
  PROVE  \E i \in use : Smallest(s, use) = s[i]
<1> DEFINE n == Len(s)
           Z == {s[i].size : i \in use}
           T == {i \in use : \A j \in use : s[i].size <= s[j].size}
<1>1. n \in Nat /\ \A i \in 1 .. n : s[i].size \in Nat
  <2>1. n \in Nat /\ \A i \in 1 .. n : s[i] \in Runs
    BY LenProperties
  <2>2. QED BY <2>1, RunIs
<1>2. Z \in SUBSET Nat /\ Z # {}
  BY <1>1
<1>3. \E x \in Z : \A y \in Z : x =< y
  <2> HIDE DEF Z
  <2>1. QED BY <1>2, LeastIndex
<1>4. T # {} /\ T \in SUBSET Nat /\ T \subseteq use
  <2>1. PICK x \in Z : \A y \in Z : x =< y
    BY <1>3
  <2>2. PICK i \in use : s[i].size = x
    BY <2>1
  <2>3. \A j \in use : s[i].size <= s[j].size
    BY <2>1, <2>2
  <2>4. i \in T
    BY <2>2, <2>3
  <2>5. use \subseteq Nat
    BY <1>1
  <2>6. QED BY <2>4, <2>5
<1> HIDE DEF T
<1>5. \E x \in T : \A y \in T : x =< y
  BY <1>4, LeastIndex
<1>6. Min(T) \in T
  BY <1>5 DEF Min
<1>7. Smallest(s, use) = s[Min(T)]
  BY DEF Smallest, T
<1>8. QED BY <1>4, <1>6, <1>7

LEMMA FindTwo ==
  ASSUME NEW s, Tidy(s), NEW a \in Recs, Two(a)
  PROVE  Find(s, a) = IF ~Consistent(a) THEN Raised
                      ELSE IF \E i \in 1 .. Len(s) : IsAreaIn(s[i], Complete(a))
                        THEN Complete(a) ELSE NoArea
<1>1. Cardinality(Given(a)) >= 2 /\ s # RaisedList
  BY GivenTwo, TidyNotRaised
<1>2. DOMAIN s = 1 .. Len(s)
  BY LenProperties DEF Tidy
<1>3. QED BY <1>1, <1>2 DEF Find

LEMMA FindOne ==
  ASSUME NEW s, Tidy(s), NEW a \in Recs, ~Two(a)
  PROVE  LET use == {i \in 1 .. Len(s) : Fits(s[i], a)}
         IN  Find(s, a) = IF use = {} THEN NoArea ELSE Fixup(Overwrite(Smallest(s, use), a))
<1>1. ~(Cardinality(Given(a)) >= 2) /\ s # RaisedList
  BY GivenTwo, TidyNotRaised
<1>2. DOMAIN s = 1 .. Len(s)
  BY LenProperties DEF Tidy
<1>3. QED BY <1>1, <1>2 DEF Find

LEMMA NotTwo ==
  ASSUME NEW a, Two(a)
  PROVE  IsArea(a)
BY DEF Two, IsArea, NoArea, Raised, Area, Absent

(* What an entry with less than two fields makes of a free area.           *)
LEMMA OverwriteIs ==
  ASSUME NEW g \in Runs, NEW a \in Recs, ~Two(a)
  PROVE  LET b == Overwrite(g, a)
         IN  /\ b \in Recs
             /\ a.start < 0 /\ a.end < 0 /\ a.size < 0 => b = g
             /\ a.start < 0 /\ a.end < 0 /\ a.size >= 0 =>
                  b.start = g.start /\ b.end = Absent /\ b.size = a.size
<1>1. /\ g \in Recs /\ g.start \in Nat /\ g.end \in Nat /\ g.size \in Nat
  BY RunIs
<1>2. a.start \in Int /\ a.end \in Int /\ a.size \in Int
  BY DEF Recs
<1>3. Absent \in Int
  BY DEF Absent
<1>4. CASE a.start >= 0
  <2>1. ~(a.end >= 0) /\ ~(a.size >= 0)
    BY <1>4 DEF Two
  <2>2. Overwrite(g, a) = Area(a.start, Absent, g.size)
    BY <2>1, <1>4 DEF Overwrite
  <2>3. Area(a.start, Absent, g.size) \in Recs
    BY <1>1, <1>2, <1>3 DEF Area, Recs
  <2>4. QED BY <2>2, <2>3, <1>2, <1>4
<1>5. CASE ~(a.start >= 0) /\ a.end >= 0
  <2>1. ~(a.size >= 0)
    BY <1>5 DEF Two
  <2>2. Overwrite(g, a) = Area(Absent, a.end, g.size)
    BY <2>1, <1>5 DEF Overwrite
  <2>3. Area(Absent, a.end, g.size) \in Recs
    BY <1>1, <1>2, <1>3 DEF Area, Recs
  <2>4. QED BY <2>2, <2>3, <1>2, <1>5
<1>6. CASE ~(a.start >= 0) /\ ~(a.end >= 0) /\ a.size >= 0
  <2>1. Overwrite(g, a) = Area(g.start, Absent, a.size)
    BY <1>6 DEF Overwrite
  <2>2. Area(g.start, Absent, a.size) \in Recs
    BY <1>1, <1>2, <1>3 DEF Area, Recs
  <2>3. Area(g.start, Absent, a.size).start = g.start /\ Area(g.start, Absent, a.size).end = Absent
        /\ Area(g.start, Absent, a.size).size = a.size
    BY DEF Area
  <2>4. QED BY <2>1, <2>2, <2>3, <1>2, <1>6
<1>7. CASE ~(a.start >= 0) /\ ~(a.end >= 0) /\ ~(a.size >= 0)
  <2>1. Overwrite(g, a) = g
    BY <1>7 DEF Overwrite
  <2>2. QED BY <2>1, <1>1, <1>2, <1>7
<1>8. QED BY <1>4, <1>5, <1>6, <1>7

(* What find returns has at least two fields ...                           *)
LEMMA FindGives ==
  ASSUME NEW s, Tidy(s), NEW a \in Recs, IsArea(Find(s, a))
  PROVE  Find(s, a) \in Recs /\ Two(Find(s, a))
<1>1. CASE Two(a)
  <2>1. Consistent(a) /\ Find(s, a) = Complete(a)
    BY <1>1, FindTwo DEF IsArea
  <2>2. QED BY <2>1, CompleteIs
<1>2. CASE ~Two(a)
  <2> DEFINE use == {i \in 1 .. Len(s) : Fits(s[i], a)}
             b == Overwrite(Smallest(s, use), a)
  <2>1. use # {} /\ Find(s, a) = Fixup(b)
    BY <1>2, FindOne DEF IsArea
  <2>2. s \in Seq(Runs)
    BY DEF Tidy
  <2>3. use \in SUBSET (1 .. Len(s))
    OBVIOUS
  <2> HIDE DEF use
  <2>4. PICK i \in use : Smallest(s, use) = s[i]
    BY <2>1, <2>2, <2>3, SmallestIn
  <2>5. s[i] \in Runs
    BY <2>2, <2>3, ElementOfSeq
  <2>6. b \in Recs
    BY <1>2, <2>4, <2>5, OverwriteIs
  <2> HIDE DEF b
  <2>7. Consistent(b) /\ Find(s, a) = Complete(b)
    BY <2>1 DEF Fixup, IsArea
  <2>8. QED BY <2>6, <2>7, CompleteIs
<1>3. QED BY <1>1, <1>2

(* ... and an area looked up by two lies in a free one.                    *)
LEMMA FindIn ==
  ASSUME NEW s, Tidy(s), NEW a \in Recs, Two(a), IsArea(Find(s, a))
  PROVE  LET b == Find(s, a)
         IN  /\ b \in Recs /\ b.start \in Nat /\ b.end \in Nat /\ b.start <= b.end + 1
             /\ b.start \in Cover(s) /\ b.end \in Cover(s) /\ Sectors(b) \subseteq Cover(s)
<1> DEFINE b == Complete(a)
<1>1. Consistent(a) /\ Find(s, a) = b /\ \E i \in 1 .. Len(s) : IsAreaIn(s[i], b)
  BY FindTwo DEF IsArea
<1>2. b \in Recs /\ b.start <= b.end + 1
  BY <1>1, CompleteIs
<1>3. b.start \in Int /\ b.end \in Int
  BY <1>2 DEF Recs
<1> HIDE DEF b
<1>4. PICK i \in 1 .. Len(s) : IsAreaIn(s[i], b)
  BY <1>1
<1>5. s \in Seq(Runs) /\ s[i] \in Runs
  BY ElementOfSeq DEF Tidy
<1>6. s[i].start \in Nat /\ s[i].end \in Nat
  BY <1>5, RunIs
<1>7. s[i].start <= b.start /\ b.start <= s[i].end /\ s[i].start <= b.end /\ b.end <= s[i].end
  BY <1>4 DEF IsAreaIn, Covers
<1>8. Sectors(s[i]) \subseteq Cover(s)
  BY <1>5, CoverIs
<1>9. b.start \in Sectors(s[i]) /\ b.end \in Sectors(s[i]) /\ Sectors(b) \subseteq Sectors(s[i])
  BY <1>3, <1>6, <1>7 DEF Sectors
<1>10. QED BY <1>1, <1>2, <1>3, <1>6, <1>7, <1>8, <1>9

(* The area that a lookup gave is found again, unless the entry gave only  *)
(* a start or an end, or no sectors.                                       *)
LEMMA FoundAgain ==
  ASSUME NEW s, Tidy(s), NEW a \in Recs, IsArea(Find(s, a)),
         Find(s, Find(s, a)) = NoArea
  PROVE  Given(a) \in {{"start"}, {"end"}} \/ a.size = 0
<1> DEFINE b == Find(s, a)
<1>1. s \in Seq(Runs)
  BY DEF Tidy
<1>2. b \in Recs /\ Two(b)
  BY FindGives
<1>3. a.start \in Int /\ a.end \in Int /\ a.size \in Int
  BY DEF Recs
<1>4. ASSUME b.size = b.end - b.start + 1, b.start <= b.end + 1,
             \E i \in 1 .. Len(s) : IsAreaIn(s[i], b)
      PROVE  FALSE
  <2> HIDE DEF b
  <2>1. Consistent(b) /\ Complete(b) = b
    BY <1>2, <1>4, CompleteSame
  <2>2. Find(s, b) = b
    BY <2>1, <1>2, <1>4, FindTwo
  <2>3. IsArea(b)
    BY <1>2, NotTwo
  <2>4. QED BY <2>2, <2>3 DEF b, IsArea
<1>5. CASE Two(a)
  <2>1. Consistent(a) /\ b = Complete(a) /\ \E i \in 1 .. Len(s) : IsAreaIn(s[i], Complete(a))
    BY <1>5, FindTwo DEF IsArea
  <2> HIDE DEF b
  <2>2. b.size = b.end - b.start + 1 /\ b.start <= b.end + 1
    BY <2>1, CompleteIs
  <2>3. QED BY <2>1, <2>2, <1>4
<1>6. CASE ~Two(a) /\ a.start < 0 /\ a.end < 0 /\ a.size # 0
  <2> DEFINE use == {i \in 1 .. Len(s) : Fits(s[i], a)}
             c == Overwrite(Smallest(s, use), a)
  <2>1. use # {} /\ b = Fixup(c)
    BY <1>6, FindOne DEF IsArea
  <2>2. use \in SUBSET (1 .. Len(s)) /\ \A i \in use : Fits(s[i], a)
    OBVIOUS
  <2> HIDE DEF use
  <2>3. PICK i \in use : Smallest(s, use) = s[i]
    BY <2>1, <2>2, <1>1, SmallestIn
  <2> DEFINE g == s[i]
  <2>4. g \in Runs /\ i \in 1 .. Len(s) /\ Fits(g, a)
    BY <2>2, <1>1, ElementOfSeq
  <2>5. /\ c \in Recs
        /\ a.size < 0 => c = g
        /\ a.size >= 0 => c.start = g.start /\ c.end = Absent /\ c.size = a.size
    BY <1>6, <2>3, <2>4, OverwriteIs
  <2>6. /\ g.start \in Nat /\ g.end \in Nat /\ g.size \in Nat \ {0} /\ g \in Recs
        /\ g.start <= g.end /\ g.size = g.end - g.start + 1
    BY <2>4, RunIs
  <2>7. a.size >= 0 => a.size <= g.size
    BY <2>4 DEF Fits
  <2> HIDE DEF c, g
  <2>8. Consistent(c) /\ b = Complete(c)
    BY <2>1 DEF Fixup, IsArea
  <2> HIDE DEF b
  <2>9. /\ b \in Recs /\ b.size = b.end - b.start + 1 /\ b.start <= b.end + 1
        /\ c.start >= 0 => b.start = c.start
        /\ c.size >= 0 => b.size = c.size
    BY <2>5, <2>8, CompleteIs
  <2>10. b.start \in Int /\ b.end \in Int /\ b.size \in Int
    BY <2>9 DEF Recs
  <2>11. b.start = g.start /\ b.size >= 1 /\ b.size <= g.size
    <3>1. CASE a.size < 0
      <4>1. c = g
        BY <2>5, <3>1
      <4>2. QED BY <4>1, <2>6, <2>9
    <3>2. CASE a.size >= 0
      <4>1. c.start = g.start /\ c.size = a.size /\ a.size >= 1
        BY <2>5, <3>2, <1>3, <1>6
      <4>2. QED BY <4>1, <2>6, <2>7, <2>9, <1>3
    <3>3. QED BY <3>1, <3>2, <1>3
  <2>12. IsAreaIn(g, b)
    BY <2>6, <2>9, <2>10, <2>11 DEF IsAreaIn, Covers
  <2>13. QED BY <2>4, <2>9, <2>12, <1>4 DEF g
<1>7. CASE ~Two(a) /\ (a.start >= 0 \/ a.end >= 0)
  <2>1. Given(a) \in {{"start"}, {"end"}}
    <3>1. CASE a.start >= 0
      <4>1. ~(a.end >= 0) /\ ~(a.size >= 0)
        BY <1>7, <3>1 DEF Two
      <4>2. Given(a) = {"start"}
        BY <3>1, <4>1, GivenTwo
      <4>3. QED BY <4>2
    <3>2. CASE a.end >= 0
      <4>1. ~(a.start >= 0) /\ ~(a.size >= 0)
        BY <1>7, <3>2 DEF Two
      <4>2. Given(a) = {"end"}
        BY <3>2, <4>1, GivenTwo
      <4>3. QED BY <4>2
    <3>3. QED BY <3>1, <3>2, <1>7
  <2>2. QED BY <2>1
<1>8. QED BY <1>3, <1>5, <1>6, <1>7

(* A size alone is refused only when every free area is smaller.           *)
LEMMA NoneFits ==
  ASSUME NEW s, Tidy(s), NEW a \in Recs, Given(a) = {"size"}, Find(s, a) = NoArea
  PROVE  \A i \in 1 .. Len(s) : s[i].size < a.size
<1>1. ~(a.start >= 0) /\ ~(a.end >= 0) /\ a.size >= 0 /\ ~Two(a)
  BY GivenTwo DEF Two
<1>2. a.size \in Int
  BY DEF Recs
<1> DEFINE use == {i \in 1 .. Len(s) : Fits(s[i], a)}
           c == Overwrite(Smallest(s, use), a)
<1>3. s \in Seq(Runs)
  BY DEF Tidy
<1>4. use = {}
  <2>1. SUFFICES ASSUME use # {} PROVE FALSE
    OBVIOUS
  <2>2. Fixup(c) = NoArea
    BY <1>1, <2>1, FindOne
  <2>3. use \in SUBSET (1 .. Len(s))
    OBVIOUS
  <2> HIDE DEF use
  <2>4. PICK i \in use : Smallest(s, use) = s[i]
    BY <2>1, <2>3, <1>3, SmallestIn
  <2>5. s[i] \in Runs
    BY <2>3, <1>3, ElementOfSeq
  <2>6. c \in Recs
    BY <1>1, <2>4, <2>5, OverwriteIs
  <2> HIDE DEF c
  <2>7. NoArea # Raised
    BY DEF NoArea, Raised, Area, Absent
  <2>8. Consistent(c) /\ Complete(c) = NoArea
    BY <2>2, <2>7 DEF Fixup
  <2>9. Two(NoArea)
    BY <2>6, <2>8, CompleteIs
  <2>10. QED BY <2>9, NotTwo DEF IsArea
<1>5. ASSUME NEW i \in 1 .. Len(s) PROVE s[i].size < a.size
  <2>1. ~Fits(s[i], a)
    BY <1>4
  <2>2. ~(a.size <= s[i].size)
    BY <2>1, <1>1 DEF Fits
  <2>3. s[i].size \in Int
    BY <1>3, ElementOfSeq, RunIs
  <2>4. QED BY <2>2, <2>3, <1>2
<1>6. QED BY <1>5

-----------------------------------------------------------------------------
(* Where the partitions may lie.                                           *)

Parts == {p \in [start : Nat, end : Int, aligned : BOOLEAN] : p.start <= p.end + 1}
First == disk.entries_lba + EntriesSectors + 1
Span(aligned) ==
    IF disk.entries_lba < 2 \/ disk.entries_count <= 0 THEN NoArea
    ELSE Between(IF aligned THEN RoundUp(First, AlignLba) ELSE First,
                 (IF aligned THEN RoundDown(BackupEntriesLba, AlignLba) ELSE BackupEntriesLba) - 1)

LEMMA DiskIs ==
  ASSUME disk \in Disks
  PROVE  /\ disk.total \in Nat /\ disk.entries_lba \in Nat /\ disk.entries_count \in Nat
         /\ EntriesSectors \in Nat /\ First \in Nat
         /\ BackupEntriesLba \in Int /\ BackupEntriesLba = disk.total - EntriesSectors - 1
         /\ AlignLba \in Nat /\ AlignLba > 0
<1>1. disk.total \in Nat /\ disk.entries_lba \in Nat /\ disk.entries_count \in Nat
  BY GptAssumption
<1>2. AlignLba \in Nat /\ AlignLba > 0 /\ SectorSize \in Nat \ {0} /\ EntrySize \in Nat \ {0}
  BY GptAssumption
<1>3. EntriesSize \in Nat
  BY <1>1, <1>2, SMT DEF EntriesSize
<1>4. EntriesSectors \in Nat
  BY <1>2, <1>3 DEF EntriesSectors
<1>5. QED BY <1>1, <1>2, <1>4 DEF First, BackupEntriesLba

(* The usable area is the same whatever was placed in it.                  *)
LEMMA UsableIsSpan ==
  ASSUME \A i \in DOMAIN partitions : First <= partitions[i].start, NEW aligned
  PROVE  UsableArea(aligned) = Span(aligned)
BY DEF UsableArea, Span, First

LEMMA SpanIn ==
  ASSUME disk \in Disks, NEW aligned \in BOOLEAN, IsArea(Span(aligned))
  PROVE  LET u == Span(aligned)
         IN  /\ u \in Recs /\ u.start \in Nat /\ u.end \in Nat /\ u.size = u.end - u.start + 1
             /\ u.start <= u.end + 1 /\ First <= u.start /\ u.end < BackupEntriesLba
             /\ disk.entries_lba >= 2
<1> DEFINE low == IF aligned THEN RoundUp(First, AlignLba) ELSE First
           high == (IF aligned THEN RoundDown(BackupEntriesLba, AlignLba) ELSE BackupEntriesLba) - 1
<1>1. First \in Nat /\ BackupEntriesLba \in Int /\ AlignLba \in Nat /\ AlignLba > 0 /\ First \in Int
  BY DiskIs
<1>2. disk.entries_lba \in Nat /\ ~(disk.entries_lba < 2 \/ disk.entries_count <= 0)
  BY DiskIs DEF Span, IsArea
<1>3. Span(aligned) = Between(low, high)
  BY <1>2 DEF Span
<1>4. low \in Int /\ First <= low
  BY <1>1, RoundUpIs
<1>5. high \in Int /\ high < BackupEntriesLba
  BY <1>1, RoundDownIs
<1> HIDE DEF low, high
<1>6. low >= 0 /\ high >= 0 /\ low <= high + 1 /\ Between(low, high) = Area(low, high, high - low + 1)
  BY <1>3, <1>4, <1>5, BetweenIs DEF IsArea
<1>7. Between(low, high) = [start |-> low, end |-> high, size |-> high - low + 1]
  BY <1>6 DEF Area
<1>8. QED BY <1>2, <1>3, <1>4, <1>5, <1>6, <1>7 DEF Recs

LEMMA ToAreaIs ==
  ASSUME NEW p \in Parts
  PROVE  /\ ToArea(p) \in Recs /\ ToArea(p).start = p.start /\ ToArea(p).end = p.end
         /\ p.start \in Nat /\ p.end \in Int /\ p.start <= p.end + 1
         /\ Sectors(ToArea(p)) = Sectors(p)
BY DEF Parts, Recs, ToArea, Area, Sectors

(* The partitions taken out one after the other: what is left is what no   *)
(* partition holds, unless a splice raises.                                *)
LEMMA SplicedIs ==
  ASSUME NEW u \in Runs, partitions \in Seq(Parts),
         \A i, j \in 1 .. Len(partitions) : i # j =>
           Sectors(partitions[i]) \cap Sectors(partitions[j]) = {}
  PROVE  /\ Spliced(u) = RaisedList
            \/ (Tidy(Spliced(u)) /\ Cover(Spliced(u)) = Sectors(u) \ Held(partitions, Len(partitions)))
         /\ (\A i \in 1 .. Len(partitions) :
               Sectors(partitions[i]) # {} /\ Sectors(partitions[i]) \subseteq Sectors(u))
              => Spliced(u) # RaisedList
<1> DEFINE n == Len(partitions)
           X == {d \in Seq(Runs) : Tidy(d)} \cup {RaisedList}
           e == <<u>>
           r(i) == ToArea(partitions[i])
           Next1(x, i) == Splice(x, r(i))
           Added(k) == [i \in 0 .. n |-> IF i = 0 THEN e ELSE Next1(k[i - 1], i)]
           added == CHOOSE k : k = Added(k)
           F == [i \in 1 .. n |-> [x \in X |-> Next1(x, i)]]
<1>1. Spliced(u) = added[n]
  BY DEF Spliced
<1>2. n \in Nat /\ \A i \in 1 .. n : partitions[i] \in Parts
  BY LenProperties
<1>3. \A i \in 1 .. n : /\ r(i) \in Recs /\ r(i).start \in Nat /\ r(i).start <= r(i).end + 1
                        /\ Sectors(r(i)) = Sectors(partitions[i])
  BY <1>2, ToAreaIs
<1>4. Tidy(e) /\ Cover(e) = Sectors(u)
  <2>1. e \in Seq(Runs) /\ Len(e) = 1 /\ e[1] = u
    OBVIOUS
  <2>2. \A i \in 1 .. 1 : i = 1
    OBVIOUS
  <2>3. Tidy(e)
    BY <2>1, <2>2 DEF Tidy
  <2>4. Range(e) = {u}
    <3> HIDE DEF e
    <3>1. Range(e) = {e[i] : i \in 1 .. 1}
      BY <2>1, RangeIs
    <3>2. QED BY <3>1, <2>1, <2>2
  <2>5. QED BY <2>3, <2>4 DEF Cover
<1>5. e \in X
  BY <1>4 DEF Tidy
<1> HIDE DEF r, n
<1>6. \A i : Next1(RaisedList, i) = RaisedList
  BY DEF Splice
<1>7. ASSUME NEW i \in 1 .. n, NEW x \in X PROVE Next1(x, i) \in X
  <2>1. CASE x = RaisedList
    BY <2>1, <1>6
  <2>2. CASE Tidy(x)
    BY <2>2, <1>3, SpliceIs DEF Tidy
  <2>3. QED BY <1>7, <2>1, <2>2
<1> HIDE DEF Next1, X
<1>8. F \in [1 .. n -> [X -> X]]
  BY <1>7
<1>9. PICK f \in [0 .. n -> X] : IsLoop(f, n, e, F)
  <2> HIDE DEF F, e
  <2>1. QED BY <1>2, <1>5, <1>8, Loop
<1>10. f = Added(f)
  <2>1. ASSUME NEW i \in 0 .. n, i # 0 PROVE F[i][f[i - 1]] = Next1(f[i - 1], i)
    <3>1. i \in 1 .. n /\ i - 1 \in 0 .. n
      BY <2>1, <1>2
    <3>2. f[i - 1] \in X
      <4> HIDE DEF F, e
      <4>1. QED BY <3>1, <1>9
    <3>3. QED BY <3>1, <3>2
  <2> HIDE DEF F
  <2>2. QED BY <2>1, <1>9 DEF IsLoop
<1>11. added = Added(added)
  BY <1>10
<1> HIDE DEF added
<1>12. \A i \in 0 .. n : added[i] = IF i = 0 THEN e ELSE Next1(added[i - 1], i)
  BY <1>11
<1> DEFINE Whole == \A i \in 1 .. n : Sectors(partitions[i]) # {} /\ Sectors(partitions[i]) \subseteq Sectors(u)
           Good(d, i) == /\ d = RaisedList \/ (Tidy(d) /\ Cover(d) = Sectors(u) \ Held(partitions, i))
                         /\ Whole => d # RaisedList
           G == {i \in 0 .. n : Good(added[i], i)}
<1>13. 0 \in G
  <2>1. 0 \in 0 .. n /\ Held(partitions, 0) = {}
    BY <1>2, HeldIs
  <2>2. added[0] = e
    BY <2>1, <1>12
  <2>3. e # RaisedList
    BY <1>4, TidyNotRaised
  <2> HIDE DEF e
  <2>4. QED BY <2>1, <2>2, <2>3, <1>4
<1>14. ASSUME NEW i \in 1 .. n, i - 1 \in G PROVE i \in G
  <2> DEFINE d == added[i - 1]
             t == added[i]
             p == partitions[i]
             used == Held(partitions, i - 1)
  <2>1. i \in 0 .. n /\ i # 0 /\ i \in Nat \ {0} /\ i - 1 \in 0 .. n
    BY <1>2
  <2>2. Good(d, i - 1)
    BY <1>14
  <2>3. t = Splice(d, r(i))
    BY <2>1, <1>12 DEF Next1
  <2>4. /\ r(i) \in Recs /\ r(i).start \in Nat /\ r(i).start <= r(i).end + 1
        /\ Sectors(r(i)) = Sectors(p)
    BY <1>3
  <2>5. Held(partitions, i) = used \cup Sectors(p)
    BY <2>1, HeldIs
  <2>6. Sectors(p) \cap used = {}
    <3>1. \A j \in 1 .. (i - 1) : j \in 1 .. n /\ j # i
      BY <1>2
    <3>2. \A j \in 1 .. (i - 1) : Sectors(partitions[j]) \cap Sectors(p) = {}
      BY <3>1 DEF n
    <3>3. QED BY <3>2 DEF Held
  <2> HIDE DEF d, t, p, used
  <2>7. CASE d = RaisedList
    <3>1. t = RaisedList
      BY <2>3, <2>7, <1>6 DEF Next1
    <3>2. ~Whole
      BY <2>2, <2>7
    <3>3. Good(t, i)
      BY <3>1, <3>2
    <3>4. QED BY <2>1, <3>3 DEF t
  <2>8. CASE d # RaisedList
    <3>1. Tidy(d) /\ Cover(d) = Sectors(u) \ used
      BY <2>2, <2>8 DEF used
    <3>2. \A x, y \in Cover(d) : (x .. y) \cap Sectors(r(i)) \subseteq Cover(d)
      <4>1. SUFFICES ASSUME NEW x \in Cover(d), NEW y \in Cover(d),
                            NEW z \in x .. y, z \in Sectors(p)
                     PROVE  z \in Cover(d)
        BY <2>4
      <4>2. x \in Sectors(u) /\ y \in Sectors(u)
        BY <3>1
      <4>3. u.start \in Nat /\ u.end \in Nat
        BY RunIs
      <4>4. z \in Sectors(u)
        BY <4>2, <4>3 DEF Sectors
      <4>5. QED BY <4>1, <4>4, <3>1, <2>6
    <3>3. t = RaisedList \/ (Tidy(t) /\ Cover(t) = Cover(d) \ Sectors(p))
      BY <2>3, <2>4, <3>1, <3>2, SpliceIs
    <3>4. t = RaisedList \/ (Tidy(t) /\ Cover(t) = Sectors(u) \ Held(partitions, i))
      BY <3>1, <3>3, <2>5
    <3>5. Whole => t # RaisedList
      <4>1. SUFFICES ASSUME Whole PROVE t # RaisedList
        OBVIOUS
      <4>2. Sectors(p) # {} /\ Sectors(p) \subseteq Cover(d)
        BY <4>1, <2>6, <3>1 DEF p
      <4>3. QED BY <4>2, <2>3, <2>4, <3>1, SpliceIs
    <3>6. QED BY <2>1, <3>4, <3>5 DEF t
  <2>9. QED BY <2>7, <2>8
<1> HIDE DEF G
<1>15. \A i \in 0 .. n : i \in G
  BY <1>13, <1>14, <1>2, Upto
<1>16. n \in 0 .. n
  BY <1>2
<1>17. Good(added[n], n)
  BY <1>15, <1>16 DEF G
<1>18. QED BY <1>1, <1>17 DEF n

-----------------------------------------------------------------------------
(* Where the partitions lie, and what is free then.                        *)

TableOk == disk \in Disks
PartsOk == partitions \in Seq(Parts)
NoneShared ==
    \A i, j \in 1 .. Len(partitions) : i # j =>
      Sectors(partitions[i]) \cap Sectors(partitions[j]) = {}
Lies(p) ==
    /\ disk.entries_lba >= 2
    /\ First <= p.start /\ p.end < BackupEntriesLba
    /\ Sectors(p) \subseteq Sectors(Span(p.aligned))
Inside == \A p \in Range(partitions) : Lies(p)
Placed == TableOk /\ PartsOk /\ NoneShared /\ Inside

LEMMA PlacedUsable ==
  ASSUME Placed, NEW aligned
  PROVE  UsableArea(aligned) = Span(aligned)
<1>1. DOMAIN partitions = 1 .. Len(partitions)
  BY DEF Placed, PartsOk
<1>2. \A i \in 1 .. Len(partitions) : partitions[i] \in Range(partitions)
  BY RangeIs DEF Placed, PartsOk
<1>3. QED BY <1>1, <1>2, UsableIsSpan DEF Placed, Inside, Lies

LEMMA InUseIs ==
  ASSUME PartsOk
  PROVE  InUse = Held(partitions, Len(partitions))
<1>1. DOMAIN partitions = 1 .. Len(partitions)
  BY DEF PartsOk
<1>2. QED BY <1>1 DEF InUse, Held

(* The free areas of a usable area that is a run.                          *)
LEMMA RunFree ==
  ASSUME Placed, NEW aligned \in BOOLEAN, IsArea(Span(aligned)), Span(aligned).size # 0
  PROVE  LET u == Span(aligned)
         IN  /\ u \in Runs
             /\ Spliced(u) = RaisedList
                \/ (Tidy(Spliced(u)) /\ Cover(Spliced(u)) = Sectors(u) \ InUse)
             /\ FreeAreas(aligned) = IF aligned THEN AlignAll(Spliced(u), AlignLba) ELSE Spliced(u)
<1> DEFINE u == Span(aligned)
<1>1. /\ u \in Recs /\ u.start \in Nat /\ u.end \in Nat /\ u.size = u.end - u.start + 1
      /\ u.start <= u.end + 1
  BY SpanIn DEF Placed, TableOk
<1>2. UsableArea(aligned) = u
  BY PlacedUsable
<1>3. u # NoArea /\ u # Raised /\ u.size # 0
  BY DEF IsArea
<1> HIDE DEF u
<1>4. u \in Runs
  BY <1>1, <1>3 DEF Runs
<1>5. Spliced(u) = RaisedList
      \/ (Tidy(Spliced(u)) /\ Cover(Spliced(u)) = Sectors(u) \ Held(partitions, Len(partitions)))
  BY <1>4, SplicedIs DEF Placed, PartsOk, NoneShared
<1>6. InUse = Held(partitions, Len(partitions))
  BY InUseIs DEF Placed
<1>7. FreeAreas(aligned) = IF aligned THEN AlignAll(Spliced(u), AlignLba) ELSE Spliced(u)
  BY <1>2, <1>3 DEF FreeAreas
<1>8. QED BY <1>4, <1>5, <1>6, <1>7 DEF u

(* Free areas are runs of usable sectors that no partition holds.          *)
LEMMA FreeIs ==
  ASSUME Placed, NEW aligned \in BOOLEAN, FreeAreas(aligned) # RaisedList
  PROVE  /\ Tidy(FreeAreas(aligned))
         /\ Cover(FreeAreas(aligned)) \subseteq Sectors(Span(aligned)) \ InUse
         /\ Cover(FreeAreas(aligned)) # {} => IsArea(Span(aligned))
<1> DEFINE u == Span(aligned)
           f == FreeAreas(aligned)
<1>1. UsableArea(aligned) = u
  BY PlacedUsable
<1>2. CASE u = NoArea \/ u.size = 0
  <2>1. f = <<>>
    BY <1>1, <1>2 DEF FreeAreas
  <2> HIDE DEF f, u
  <2>2. QED BY <2>1, EmptyIsTidy DEF f, u
<1>3. CASE u = Raised
  <2>1. u # NoArea /\ u.size # 0
    BY <1>3 DEF Raised, NoArea, Area, Absent
  <2>2. f = RaisedList
    BY <1>1, <1>3, <2>1 DEF FreeAreas
  <2>3. QED BY <2>2
<1>4. CASE u # NoArea /\ u # Raised /\ u.size # 0
  <2>1. IsArea(u)
    BY <1>4 DEF IsArea
  <2> DEFINE s == Spliced(u)
  <2>2. /\ s = RaisedList \/ (Tidy(s) /\ Cover(s) = Sectors(u) \ InUse)
        /\ f = IF aligned THEN AlignAll(s, AlignLba) ELSE s
    BY <2>1, <1>4, RunFree
  <2>3. AlignAll(RaisedList, AlignLba) = RaisedList
    BY DEF AlignAll
  <2>4. f # RaisedList /\ AlignLba \in Nat /\ AlignLba > 0
    BY DiskIs DEF Placed, TableOk
  <2>5. Tidy(f) /\ Cover(f) \subseteq Sectors(u) \ InUse
    <3> HIDE DEF f, s, u
    <3>1. Tidy(s) /\ Cover(s) = Sectors(u) \ InUse
      BY <2>2, <2>3, <2>4
    <3>2. Tidy(AlignAll(s, AlignLba)) /\ Cover(AlignAll(s, AlignLba)) \subseteq Cover(s)
      BY <3>1, <2>4, AlignAllIs
    <3>3. QED BY <2>2, <3>1, <3>2
  <2>6. QED BY <2>1, <2>5
<1>5. QED BY <1>2, <1>3, <1>4

(* The greatest of finitely many indices.                                  *)
LEMMA Greatest ==
  ASSUME NEW n \in Nat, NEW S \in SUBSET (1 .. n), S # {}
  PROVE  Max(S) \in S
<1> DEFINE M == {n - i : i \in S}
<1>1. M \in SUBSET Nat /\ M # {}
  <2>1. \A i \in S : n - i \in Nat
    OBVIOUS
  <2>2. M \subseteq Nat
    BY <2>1
  <2>3. QED BY <2>2
<1>2. PICK x \in M : \A y \in M : x =< y
  <2> HIDE DEF M
  <2>1. QED BY <1>1, LeastIndex
<1>3. PICK i \in S : x = n - i
  BY <1>2
<1>4. \A j \in S : i >= j
  <2>1. SUFFICES ASSUME NEW j \in S PROVE i >= j
    OBVIOUS
  <2>2. n - j \in M
    OBVIOUS
  <2>3. x =< n - j
    BY <2>2, <1>2
  <2>4. QED BY <2>3, <1>3
<1>5. S \in SUBSET Int
  OBVIOUS
<1>6. Max(S) = i
  BY <1>4, <1>5, MaxIs
<1>7. QED BY <1>3, <1>6

(* An entry gives numbers of sectors.                                      *)
LEMMA ParseIs ==
  ASSUME NEW r \in Requests
  PROVE  ParseArea(r) \in Recs /\ IsAligned(r) \in BOOLEAN
<1> DEFINE value(key) ==
             CASE key = "end"       -> SizeToSectors(r[key]) - 1
               [] key \in LbaKeys   -> r[key]
               [] OTHER             -> SizeToSectors(r[key])
           found(keys) == {i \in 1 .. Len(keys) : keys[i] \in DOMAIN r}
           field(keys) == IF found(keys) = {} THEN Absent ELSE value(keys[Max(found(keys))])
<1>1. ASSUME NEW key \in DOMAIN r \cap BytesKeys PROVE SizeToSectors(r[key]) \in Int
  <2>1. r[key].n \in Int /\ r[key].unit \in Units /\ SectorSize \in Nat \ {0}
    BY <1>1, GptAssumption
  <2>2. UnitBytes[r[key].unit] \in Nat
    BY <2>1 DEF UnitBytes, Units
  <2> DEFINE v == r[key]
  <2>3. v.n \in Int /\ UnitBytes[v.unit] \in Nat
    BY <2>1, <2>2
  <2> HIDE DEF v
  <2>4. v.n * UnitBytes[v.unit] \in Int
    BY <2>3, SMT
  <2>5. (v.n * UnitBytes[v.unit] + SectorSize - 1) \div SectorSize \in Int
    BY <2>1, <2>4
  <2>6. QED BY <2>5 DEF SizeToSectors, v
<1>2. ASSUME NEW key \in DOMAIN r \cap LbaKeys PROVE r[key] \in Int
  BY GptAssumption
<1>3. ASSUME NEW key \in DOMAIN r, key \in BytesKeys \cup LbaKeys PROVE value(key) \in Int
  <2>1. CASE key \in LbaKeys
    <3>1. key # "end"
      BY <2>1 DEF LbaKeys
    <3>2. QED BY <2>1, <3>1, <1>2, <1>3
  <2>2. CASE key \notin LbaKeys
    <3>1. SizeToSectors(r[key]) \in Int
      BY <2>2, <1>1, <1>3
    <3>2. QED BY <2>2, <3>1
  <2>3. QED BY <2>1, <2>2
<1> HIDE DEF value
<1>4. ASSUME NEW keys \in Seq(BytesKeys \cup LbaKeys) PROVE field(keys) \in Int
  <2>1. CASE found(keys) = {}
    BY <2>1 DEF Absent
  <2>2. CASE found(keys) # {}
    <3> DEFINE S == found(keys)
    <3>1. S \in SUBSET (1 .. Len(keys)) /\ S # {}
      BY <2>2
    <3> HIDE DEF S
    <3>2. Max(S) \in S
      <4>1. Len(keys) \in Nat
        BY <1>4, LenProperties
      <4>2. QED BY <3>1, <4>1, Greatest
    <3>3. keys[Max(S)] \in DOMAIN r /\ keys[Max(S)] \in BytesKeys \cup LbaKeys
      BY <3>1, <3>2, <1>4, ElementOfSeq DEF S
    <3>4. value(keys[Max(S)]) \in Int
      BY <3>3, <1>3
    <3>5. QED BY <2>2, <3>4 DEF S
  <2>3. QED BY <2>1, <2>2
<1>5. /\ StartKeys \in Seq(BytesKeys \cup LbaKeys) /\ EndKeys \in Seq(BytesKeys \cup LbaKeys)
      /\ SizeKeys \in Seq(BytesKeys \cup LbaKeys)
  BY DEF StartKeys, EndKeys, SizeKeys, BytesKeys, LbaKeys
<1>6. field(StartKeys) \in Int /\ field(EndKeys) \in Int /\ field(SizeKeys) \in Int
  BY <1>4, <1>5
<1>7. ParseArea(r) = Area(field(StartKeys), field(EndKeys), field(SizeKeys))
  BY DEF ParseArea, value
<1> HIDE DEF field
<1>8. ParseArea(r) \in Recs
  BY <1>6, <1>7 DEF Area, Recs
<1>9. QED BY <1>8, GptAssumption DEF IsAligned

-----------------------------------------------------------------------------
(* resort_partitions keeps the partitions as they are.                     *)

Shared(p, q) == Sectors(p) \cap Sectors(q) # {}

LEMMA StartPlace ==
  ASSUME NEW d \in Seq(Parts), NEW p \in Parts
  PROVE  LET k == Cardinality({i \in DOMAIN d : d[i].start <= p.start})
         IN  k \in 0 .. Len(d) /\ InsertByStart(d, p) = InsertAt(d, k + 1, p)
             /\ InsertByStart(d, p) \in Seq(Parts)
<1> DEFINE n == Len(d)
           B == {i \in DOMAIN d : d[i].start <= p.start}
           k == Cardinality(B)
<1>1. n \in Nat /\ DOMAIN d = 1 .. n
  BY LenProperties
<1>2. k \in 0 .. n
  <2>1. IsFiniteSet(1 .. n) /\ Cardinality(1 .. n) = n
    BY <1>1, FS_Interval
  <2>2. B \subseteq 1 .. n
    BY <1>1
  <2> HIDE DEF B, n
  <2>3. Cardinality(B) <= n /\ IsFiniteSet(B)
    BY <2>1, <2>2, FS_Subset
  <2>4. Cardinality(B) \in Nat
    BY <2>3, FS_CardinalityType
  <2>5. QED BY <2>3, <2>4, <1>1
<1>3. InsertByStart(d, p) = InsertAt(d, k + 1, p)
  BY DEF InsertByStart
<1> HIDE DEF k
<1>4. InsertAt(d, k + 1, p) \in Seq(Parts)
  <2>1. k \in 0 .. Len(d)
    BY <1>2
  <2>2. QED BY <2>1, InsertAtSeq
<1>5. QED BY <1>2, <1>3, <1>4 DEF k

LEMMA InsertPart ==
  ASSUME NEW d \in Seq(Parts), NEW p \in Parts,
         \A i, j \in 1 .. Len(d) : i # j => ~Shared(d[i], d[j]),
         \A i \in 1 .. Len(d) : ~Shared(d[i], p)
  PROVE  LET t == InsertByStart(d, p)
         IN  /\ t \in Seq(Parts)
             /\ \A i \in 1 .. Len(t) : t[i] = p \/ \E j \in 1 .. Len(d) : t[i] = d[j]
             /\ \A i, j \in 1 .. Len(t) : i # j => ~Shared(t[i], t[j])
<1> DEFINE n == Len(d)
           B == {i \in DOMAIN d : d[i].start <= p.start}
           k == Cardinality(B)
           t == InsertByStart(d, p)
<1>1. n \in Nat /\ DOMAIN d = 1 .. n
  BY LenProperties
<1>2. k \in 0 .. n /\ t = InsertAt(d, k + 1, p)
  BY StartPlace
<1> HIDE DEF t, k
<1>4. /\ t \in Seq(Parts) /\ Len(t) = n + 1
      /\ \A i \in 1 .. (n + 1) : t[i] = IF i <= k THEN d[i] ELSE IF i = k + 1 THEN p ELSE d[i - 1]
  <2>1. d \in Seq(Parts) /\ p \in Parts /\ k \in 0 .. Len(d)
    BY <1>2
  <2>2. t = InsertAt(d, k + 1, p)
    BY <1>2
  <2> DEFINE v == InsertAt(d, k + 1, p)
  <2> HIDE DEF n
  <2>3. /\ v \in Seq(Parts) /\ Len(v) = Len(d) + 1
        /\ \A i \in 1 .. (Len(d) + 1) :
             v[i] = IF i <= k THEN d[i] ELSE IF i = k + 1 THEN p ELSE d[i - 1]
    BY <2>1, InsertAtSeq
  <2>4. t = v
    BY <2>2
  <2> HIDE DEF v
  <2>5. QED BY <2>3, <2>4 DEF n
<1> DEFINE from(i) == IF i <= k THEN i ELSE i - 1
<1>5. \A i \in 1 .. (n + 1) : i # k + 1 => from(i) \in 1 .. n /\ t[i] = d[from(i)]
  BY <1>1, <1>2, <1>4
<1>6. \A i \in 1 .. (n + 1) : i = k + 1 => t[i] = p
  BY <1>2, <1>4
<1>7. \A i, j \in 1 .. (n + 1) : i # k + 1 /\ j # k + 1 /\ i # j => from(i) # from(j)
  BY <1>1, <1>2
<1> HIDE DEF from, n
<1>8. ASSUME NEW i \in 1 .. (n + 1), NEW j \in 1 .. (n + 1), i # j PROVE ~Shared(t[i], t[j])
  <2>1. CASE i = k + 1
    <3>1. t[i] = p /\ from(j) \in 1 .. n /\ t[j] = d[from(j)]
      BY <2>1, <1>5, <1>6, <1>8
    <3>2. ~Shared(d[from(j)], p)
      BY <3>1 DEF n
    <3>3. QED BY <3>1, <3>2 DEF Shared
  <2>2. CASE j = k + 1
    <3>1. t[j] = p /\ from(i) \in 1 .. n /\ t[i] = d[from(i)]
      BY <2>2, <1>5, <1>6, <1>8
    <3>2. QED BY <3>1 DEF n
  <2>3. CASE i # k + 1 /\ j # k + 1
    <3>1. /\ from(i) \in 1 .. n /\ t[i] = d[from(i)] /\ from(j) \in 1 .. n /\ t[j] = d[from(j)]
          /\ from(i) # from(j)
      BY <2>3, <1>5, <1>7, <1>8
    <3>2. QED BY <3>1 DEF n
  <2>4. QED BY <2>1, <2>2, <2>3
<1>9. \A i \in 1 .. (n + 1) : t[i] = p \/ \E j \in 1 .. n : t[i] = d[j]
  BY <1>5, <1>6
<1>10. QED BY <1>4, <1>8, <1>9 DEF n, t

LEMMA ResortedIs ==
  ASSUME NEW parts \in Seq(Parts),
         \A i, j \in 1 .. Len(parts) : i # j => ~Shared(parts[i], parts[j])
  PROVE  LET t == Resorted(parts)
         IN  /\ t \in Seq(Parts)
             /\ \A i \in 1 .. Len(t) : \E j \in 1 .. Len(parts) : t[i] = parts[j]
             /\ \A i, j \in 1 .. Len(t) : i # j => ~Shared(t[i], t[j])
<1> DEFINE n == Len(parts)
           X == {d \in Seq(Parts) : \A i, j \in 1 .. Len(d) : i # j => ~Shared(d[i], d[j])}
           Next1(x, i) == InsertByStart(x, parts[i])
           e == <<>>
           Added(k) == [i \in 0 .. n |-> IF i = 0 THEN e ELSE Next1(k[i - 1], i)]
           added == CHOOSE k : k = Added(k)
           F == [i \in 1 .. n |-> [x \in Seq(Parts) |-> Next1(x, i)]]
<1>1. Resorted(parts) = added[n]
  BY DEF Resorted
<1>2. n \in Nat /\ \A i \in 1 .. n : parts[i] \in Parts
  BY LenProperties
<1>3. e \in Seq(Parts)
  BY EmptySeq
<1>4. ASSUME NEW i \in 1 .. n, NEW x \in Seq(Parts) PROVE Next1(x, i) \in Seq(Parts)
  BY <1>2, StartPlace
<1> HIDE DEF Next1, n
<1>5. F \in [1 .. n -> [Seq(Parts) -> Seq(Parts)]]
  BY <1>4
<1>6. PICK f \in [0 .. n -> Seq(Parts)] : IsLoop(f, n, e, F)
  <2> HIDE DEF F, e
  <2>1. QED BY <1>2, <1>3, <1>5, Loop
<1>7. f = Added(f)
  <2>1. ASSUME NEW i \in 0 .. n, i # 0 PROVE F[i][f[i - 1]] = Next1(f[i - 1], i)
    <3>1. i \in 1 .. n /\ i - 1 \in 0 .. n
      BY <2>1, <1>2
    <3>2. f[i - 1] \in Seq(Parts)
      <4> HIDE DEF F, e
      <4>1. QED BY <3>1, <1>6
    <3>3. QED BY <3>1, <3>2
  <2> HIDE DEF F
  <2>2. QED BY <2>1, <1>6 DEF IsLoop
<1>8. added = Added(added)
  BY <1>7
<1> HIDE DEF added
<1>9. \A i \in 0 .. n : added[i] = IF i = 0 THEN e ELSE Next1(added[i - 1], i)
  BY <1>8
<1> DEFINE Good(d, i) == d \in X /\ \A m \in 1 .. Len(d) : \E j \in 1 .. i : d[m] = parts[j]
           G == {i \in 0 .. n : Good(added[i], i)}
<1>10. 0 \in G
  <2>1. 0 \in 0 .. n
    BY <1>2
  <2>2. added[0] = e
    BY <2>1, <1>9
  <2>3. Len(e) = 0
    OBVIOUS
  <2> HIDE DEF e
  <2>4. e \in X
    BY <2>3, <1>3
  <2> HIDE DEF X
  <2>5. Good(e, 0)
    BY <2>3, <2>4
  <2>6. QED BY <2>1, <2>2, <2>5
<1>11. ASSUME NEW i \in 1 .. n, i - 1 \in G PROVE i \in G
  <2> DEFINE d == added[i - 1]
             t == added[i]
  <2>1. i \in 0 .. n /\ i # 0 /\ parts[i] \in Parts /\ i - 1 \in 0 .. n
    BY <1>2
  <2>2. Good(d, i - 1)
    BY <1>11
  <2>3. t = InsertByStart(d, parts[i])
    BY <2>1, <1>9 DEF Next1
  <2> HIDE DEF d, t
  <2>4. d \in Seq(Parts) /\ \A m, j \in 1 .. Len(d) : m # j => ~Shared(d[m], d[j])
    BY <2>2
  <2>5. \A m \in 1 .. Len(d) : ~Shared(d[m], parts[i])
    <3>1. SUFFICES ASSUME NEW m \in 1 .. Len(d) PROVE ~Shared(d[m], parts[i])
      OBVIOUS
    <3>2. PICK j \in 1 .. (i - 1) : d[m] = parts[j]
      BY <2>2
    <3>3. j \in 1 .. n /\ j # i
      BY <1>2
    <3>4. QED BY <3>2, <3>3 DEF n
  <2>6. /\ t \in Seq(Parts)
        /\ \A m \in 1 .. Len(t) : t[m] = parts[i] \/ \E j \in 1 .. Len(d) : t[m] = d[j]
        /\ \A m, j \in 1 .. Len(t) : m # j => ~Shared(t[m], t[j])
    BY <2>1, <2>3, <2>4, <2>5, InsertPart
  <2>7. \A j \in 1 .. (i - 1) : j \in 1 .. i
    BY <2>1
  <2>8. i \in 1 .. i
    BY <2>1
  <2>9. \A m \in 1 .. Len(t) : \E j \in 1 .. i : t[m] = parts[j]
    BY <2>2, <2>6, <2>7, <2>8
  <2>10. Good(t, i)
    BY <2>6, <2>9
  <2>11. QED BY <2>1, <2>10 DEF t
<1> HIDE DEF G
<1>12. \A i \in 0 .. n : i \in G
  BY <1>10, <1>11, <1>2, Upto
<1>13. n \in 0 .. n
  BY <1>2
<1>14. Good(added[n], n)
  BY <1>12, <1>13 DEF G
<1>15. QED BY <1>1, <1>14 DEF n

-----------------------------------------------------------------------------
(* Adding a partition.                                                     *)

(* The area a partition is given is free.                                  *)
LEMMA PlaceIs ==
  ASSUME Placed, NEW r \in Requests,
         IsArea(FreeFor(r)), IsArea(FindFree(FreeFor(r), IsAligned(r)))
  PROVE  LET b == FindFree(FreeFor(r), IsAligned(r))
             p == [start |-> b.start, end |-> b.end, aligned |-> IsAligned(r)]
         IN  p \in Parts /\ Lies(p) /\ Sectors(p) \cap InUse = {}
<1> DEFINE al == IsAligned(r)
           f == FreeAreas(al)
           a == FreeFor(r)
           b == Find(f, a)
           p == [start |-> b.start, end |-> b.end, aligned |-> al]
<1>1. ParseArea(r) \in Recs /\ al \in BOOLEAN
  BY ParseIs
<1>2. a = Find(f, ParseArea(r)) /\ FindFree(a, al) = b
  BY DEF FreeFor, FindFree
<1> HIDE DEF al, a
<1>3. f # RaisedList
  BY <1>2 DEF Find, IsArea, a
<1>4. Tidy(f) /\ Cover(f) \subseteq Sectors(Span(al)) \ InUse /\ (Cover(f) # {} => IsArea(Span(al)))
  BY <1>1, <1>3, FreeIs
<1> HIDE DEF f, b
<1>5. a \in Recs /\ Two(a)
  BY <1>1, <1>2, <1>4, FindGives DEF a
<1>6. IsArea(b)
  BY <1>2 DEF a, al
<1>7. /\ b.start \in Nat /\ b.end \in Nat /\ b.start <= b.end + 1
      /\ b.start \in Cover(f) /\ b.end \in Cover(f) /\ Sectors(b) \subseteq Cover(f)
  BY <1>4, <1>5, <1>6, FindIn DEF b
<1>8. LET u == Span(al)
      IN  /\ u.start \in Nat /\ u.end \in Nat /\ First <= u.start /\ u.end < BackupEntriesLba
          /\ disk.entries_lba >= 2
  BY <1>1, <1>4, <1>7, SpanIn DEF Placed, TableOk
<1>9. First \in Nat /\ BackupEntriesLba \in Int
  BY DiskIs DEF Placed, TableOk
<1>10. b.start \in Sectors(Span(al)) /\ b.end \in Sectors(Span(al))
  BY <1>4, <1>7
<1>11. First <= b.start /\ b.end < BackupEntriesLba
  BY <1>7, <1>8, <1>9, <1>10 DEF Sectors
<1>12. Sectors(p) = Sectors(b) /\ p.aligned = al /\ p.start = b.start /\ p.end = b.end
  BY DEF Sectors
<1>13. p \in Parts
  BY <1>1, <1>7 DEF Parts
<1> HIDE DEF p
<1>14. Lies(p) /\ Sectors(p) \cap InUse = {}
  BY <1>4, <1>7, <1>8, <1>11, <1>12 DEF Lies
<1>15. QED BY <1>2, <1>13, <1>14 DEF p, al, a

LEMMA DiskSame ==
  ASSUME UNCHANGED disk, NEW p
  PROVE  Lies(p)' <=> Lies(p)
<1>1. First' = First /\ BackupEntriesLba' = BackupEntriesLba
  BY DEF First, BackupEntriesLba, EntriesSectors, EntriesSize
<1>2. Span(p.aligned)' = Span(p.aligned)
  BY <1>1 DEF Span
<1>3. QED BY <1>1, <1>2 DEF Lies

LEMMA PlaceKeeps ==
  ASSUME Placed, NEW r \in Requests, Place(r)
  PROVE  Placed'
<1> DEFINE b == FindFree(FreeFor(r), IsAligned(r))
           p == [start |-> b.start, end |-> b.end, aligned |-> IsAligned(r)]
           t == Resorted(partitions)
           n == Len(partitions)
           m == Len(t)
<1>1. /\ IsArea(FreeFor(r)) /\ IsArea(FindFree(FreeFor(r), IsAligned(r)))
      /\ partitions' = Append(t, p) /\ UNCHANGED disk
  BY DEF Place, Take
<1>2. p \in Parts /\ Lies(p) /\ Sectors(p) \cap InUse = {}
  BY <1>1, PlaceIs
<1> HIDE DEF p
<1>3. partitions \in Seq(Parts) /\ \A i, j \in 1 .. n : i # j => ~Shared(partitions[i], partitions[j])
  BY DEF Placed, PartsOk, NoneShared, Shared
<1>4. /\ t \in Seq(Parts)
      /\ \A i \in 1 .. m : \E j \in 1 .. n : t[i] = partitions[j]
      /\ \A i, j \in 1 .. m : i # j => ~Shared(t[i], t[j])
  BY <1>3, ResortedIs
<1> HIDE DEF t
<1>5. /\ Append(t, p) \in Seq(Parts) /\ m \in Nat /\ Len(Append(t, p)) = m + 1
      /\ Append(t, p)[m + 1] = p /\ \A i \in 1 .. m : Append(t, p)[i] = t[i]
  BY <1>2, <1>4, AppendProperties, LenProperties
<1>6. \A i \in 1 .. m : ~Shared(t[i], p)
  <2>1. ASSUME NEW j \in 1 .. n PROVE Sectors(partitions[j]) \subseteq InUse
    <3>1. j \in DOMAIN partitions
      BY <1>3, LenProperties
    <3>2. QED BY <3>1 DEF InUse
  <2>2. QED BY <2>1, <1>2, <1>4 DEF Shared
<1>7. ASSUME NEW i \in 1 .. (m + 1), NEW j \in 1 .. (m + 1), i # j
      PROVE  ~Shared(Append(t, p)[i], Append(t, p)[j])
  <2>1. CASE i = m + 1
    <3>1. j \in 1 .. m
      BY <2>1, <1>5, <1>7
    <3>2. QED BY <2>1, <3>1, <1>5, <1>6 DEF Shared
  <2>2. CASE j = m + 1
    <3>1. i \in 1 .. m
      BY <2>2, <1>5, <1>7
    <3>2. QED BY <2>2, <3>1, <1>5, <1>6
  <2>3. CASE i # m + 1 /\ j # m + 1
    <3>1. i \in 1 .. m /\ j \in 1 .. m
      BY <2>3, <1>5
    <3>2. QED BY <3>1, <1>4, <1>5, <1>7
  <2>4. QED BY <2>1, <2>2, <2>3
<1>8. ASSUME NEW i \in 1 .. (m + 1) PROVE Lies(Append(t, p)[i])
  <2>1. CASE i = m + 1
    BY <2>1, <1>2, <1>5
  <2>2. CASE i # m + 1
    <3>1. i \in 1 .. m /\ Append(t, p)[i] = t[i]
      BY <2>2, <1>5
    <3>2. PICK j \in 1 .. n : t[i] = partitions[j]
      BY <3>1, <1>4
    <3>3. partitions[j] \in Range(partitions)
      BY <1>3, RangeIs
    <3>4. QED BY <3>1, <3>2, <3>3 DEF Placed, Inside
  <2>3. QED BY <2>1, <2>2
<1> DEFINE v == Append(t, p)
<1>9. partitions' = v /\ v \in Seq(Parts) /\ Len(v) = m + 1
  BY <1>1, <1>5
<1>10. TableOk' /\ PartsOk'
  BY <1>1, <1>9 DEF Placed, TableOk, PartsOk
<1>11. NoneShared'
  BY <1>7, <1>9 DEF NoneShared, Shared
<1>12. Range(v) = {v[i] : i \in 1 .. (m + 1)}
  BY <1>9, RangeIs
<1> HIDE DEF v
<1>13. \A q \in Range(v) : Lies(q)
  BY <1>8, <1>12 DEF v
<1>14. \A q \in Range(v) : Lies(q)'
  <2>1. SUFFICES ASSUME NEW q \in Range(v) PROVE Lies(q)'
    OBVIOUS
  <2>2. QED BY <1>1, <1>13, DiskSame
<1>15. Inside'
  BY <1>9, <1>14 DEF Inside
<1>16. QED BY <1>10, <1>11, <1>15 DEF Placed

-----------------------------------------------------------------------------
(* An entry that is refused.                                               *)

Block(k) == k * AlignLba .. (k + 1) * AlignLba - 1
Row(k, size) == UNION {Block(i) : i \in k .. k - 1 + RoundUp(size, AlignLba) \div AlignLba}
NoRoom(r, usable, used, total) ==
    LET a == ParseArea(r) IN
    IsAligned(r) /\ Given(a) = {"size"} /\ a.size > 0 /\ IsArea(usable) =>
      \A k \in 0 .. total \div AlignLba : ~(Row(k, a.size) \subseteq Sectors(usable) \ used)

LEMMA Wider ==
  ASSUME NEW p \in Int, NEW q \in Int, NEW x \in Int, NEW y \in Int, p <= x, y <= q
  PROVE  y - x + 1 <= q - p + 1 /\ x .. y \subseteq p .. q
OBVIOUS

(* Aligned blocks in a row are the sectors from the first to the last.     *)
LEMMA RowIs ==
  ASSUME NEW k \in Nat, NEW size \in Nat, size > 0
  PROVE  \E y \in Int :
           /\ k * AlignLba \in Nat /\ k * AlignLba <= y /\ size <= y - k * AlignLba + 1
           /\ AlignLba <= y - k * AlignLba + 1
           /\ k * AlignLba .. y \subseteq Row(k, size)
           /\ \E h \in Nat : y = h * AlignLba - 1
<1> DEFINE A == AlignLba
           q == (size + A - 1) \div A
           x == k * A
           y == (k + q) * A - 1
<1>1. A \in Nat /\ A > 1
  BY GptAssumption
<1> HIDE DEF A
<1>2. q \in Nat
  BY <1>1
<1> HIDE DEF q
<1>3. RoundUp(size, A) = q * A
  BY DEF RoundUp, RoundDown, q
<1>4. q * A \in Nat /\ size <= q * A
  <2>1. size <= RoundUp(size, A) /\ RoundUp(size, A) \in Int
    BY <1>1, RoundUpIs
  <2>2. QED BY <2>1, <1>3
<1>5. q >= 1
  <2>1. q = 0 => q * A = 0
    BY <1>1, SMT
  <2>2. QED BY <2>1, <1>2, <1>4
<1>6. (q * A) \div A = q
  BY <1>1, <1>2, Z3
<1>7. x \in Nat /\ (k + q) * A = x + q * A /\ y \in Int /\ A <= q * A
  <2>1. x \in Nat
    BY <1>1, SMT
  <2>2. (k + q) * A = x + q * A
    BY <1>1, <1>2, SMT
  <2>3. A <= q * A
    BY <1>1, <1>2, <1>5, Z3
  <2>4. QED BY <2>1, <2>2, <2>3, <1>4
<1>8. x .. y \subseteq Row(k, size)
  <2>1. SUFFICES ASSUME NEW z \in x .. y PROVE z \in Row(k, size)
    OBVIOUS
  <2> DEFINE i == z \div A
  <2>2. z \in Nat /\ x <= z /\ z < (k + q) * A
    <3> DEFINE P == (k + q) * A
    <3>1. P \in Int
      BY <1>1, <1>2, Times
    <3>2. y = P - 1 /\ x \in Nat
      BY <1>7
    <3> HIDE DEF x, y, P
    <3>3. z \in Nat /\ x <= z /\ z < P
      BY <3>1, <3>2
    <3>4. QED BY <3>3 DEF P
  <2>3. i \in Nat /\ i * A <= z /\ z < (i + 1) * A
    BY <2>2, <1>1, Z3
  <2> HIDE DEF i, x, y
  <2>4. i >= k
    <3>1. SUFFICES ASSUME i + 1 <= k PROVE FALSE
      BY <2>3
    <3>2. (i + 1) * A <= k * A
      BY <2>3, <3>1, <1>1, Times
    <3>3. (i + 1) * A \in Int /\ k * A \in Int
      BY <2>3, <1>1, Times
    <3>4. QED BY <2>2, <2>3, <3>2, <3>3 DEF x
  <2>5. i < k + q
    <3>1. SUFFICES ASSUME k + q <= i PROVE FALSE
      BY <2>3, <1>2
    <3>2. (k + q) * A <= i * A
      BY <2>3, <3>1, <1>1, <1>2, Times
    <3>3. (k + q) * A \in Int /\ i * A \in Int
      BY <2>3, <1>1, <1>2, Times
    <3>4. QED BY <2>2, <2>3, <3>2, <3>3
  <2>6. i \in k .. k - 1 + q
    BY <2>3, <2>4, <2>5, <1>2
  <2>7. i * A \in Int /\ (i + 1) * A \in Int
    BY <2>3, <1>1, Times
  <2>8. z \in Block(i)
    BY <2>2, <2>3, <2>7 DEF Block, A
  <2>9. RoundUp(size, AlignLba) \div AlignLba = q
    BY <1>3, <1>6 DEF A
  <2>10. Row(k, size) = UNION {Block(j) : j \in k .. k - 1 + q}
    BY <2>9 DEF Row
  <2>11. QED BY <2>6, <2>8, <2>10
<1>9. k + q \in Nat
  BY <1>2
<1>10. x <= y /\ size <= y - x + 1 /\ A <= y - x + 1
  BY <1>1, <1>4, <1>7
<1>11. QED BY <1>7, <1>8, <1>9, <1>10 DEF A

(* A row of free blocks is part of a free area once aligned: the lookup of *)
(* an entry that asks for no more sectors does not fail.                   *)
LEMMA RoomIs ==
  ASSUME Placed, NEW r \in Requests, FreeFor(r) = NoArea
  PROVE  NoRoom(r, UsableArea(TRUE), InUse, disk.total)
<1> DEFINE a == ParseArea(r)
           u == Span(TRUE)
           s == Spliced(u)
           f == FreeAreas(TRUE)
           A == AlignLba
<1>1. UsableArea(TRUE) = u
  BY PlacedUsable
<1>2. A \in Nat /\ A > 1 /\ disk.total \in Nat
  BY GptAssumption, DiskIs DEF Placed, TableOk
<1>3. SUFFICES ASSUME IsAligned(r), Given(a) = {"size"}, a.size > 0, IsArea(u),
                      NEW k \in 0 .. disk.total \div A,
                      Row(k, a.size) \subseteq Sectors(u) \ InUse
               PROVE  FALSE
  BY <1>1 DEF NoRoom
<1>4. a \in Recs
  BY ParseIs
<1>5. a.size \in Nat /\ k \in Nat
  BY <1>2, <1>3, <1>4 DEF Recs
<1>6. Find(f, a) = NoArea
  BY <1>3 DEF FreeFor, FindFree
<1>7. f # RaisedList
  <2> HIDE DEF a, f
  <2>1. Find(RaisedList, a) = Raised
    BY DEF Find
  <2>2. Raised # NoArea
    BY DEF NoArea, Raised, Area, Absent
  <2>3. QED BY <2>1, <2>2, <1>6
<1> HIDE DEF a
<1>8. PICK y \in Int :
        /\ k * A \in Nat /\ k * A <= y /\ a.size <= y - k * A + 1 /\ A <= y - k * A + 1
        /\ k * A .. y \subseteq Row(k, a.size)
        /\ \E h \in Nat : y = h * A - 1
  BY <1>3, <1>5, RowIs
<1> DEFINE x == k * A
<1>9. /\ x \in Nat /\ x \in Int /\ y \in Int
      /\ x <= y /\ a.size <= y - x + 1 /\ A <= y - x + 1
  BY <1>8
<1>10. x .. y \subseteq Sectors(u) \ InUse
  BY <1>3, <1>8
<1>11. u.size # 0
  <2>1. x \in Sectors(u)
    <3> HIDE DEF x, u
    <3>1. x \in x .. y
      BY <1>9
    <3>2. QED BY <3>1, <1>10
  <2>2. u.start \in Nat /\ u.end \in Nat /\ u.size = u.end - u.start + 1
    BY <1>3, SpanIn DEF Placed, TableOk
  <2> HIDE DEF u, x
  <2>3. QED BY <2>1, <2>2 DEF Sectors
<1>12. /\ s = RaisedList \/ (Tidy(s) /\ Cover(s) = Sectors(u) \ InUse)
       /\ f = AlignAll(s, A)
  BY <1>3, <1>11, RunFree
<1> HIDE DEF x, f, s, u
<1>13. Tidy(s) /\ Cover(s) = Sectors(u) \ InUse
  <2>1. AlignAll(RaisedList, A) = RaisedList
    BY DEF AlignAll
  <2>2. QED BY <2>1, <1>7, <1>12
<1>14. PICK j \in 1 .. Len(s) : Covers(s[j], x) /\ Covers(s[j], y)
  <2>1. x \in Int /\ x .. y \subseteq Cover(s)
    BY <1>9, <1>13, <1>10
  <2>2. QED BY <1>9, <1>13, <2>1, RowInOne
<1> DEFINE g == s[j]
           b == Aligned(g, A)
<1>15. g \in Runs /\ g.start \in Nat /\ g.end \in Nat
  <2>1. g \in Runs
    BY <1>13, ElementOfSeq DEF Tidy
  <2>2. QED BY <2>1, RunIs
<1>16. g.start <= x /\ y <= g.end
  BY <1>14 DEF Covers
<1> HIDE DEF g
<1>17. b.start = RoundUp(g.start, A) /\ b.end = RoundDown(g.end + 1, A) - 1
       /\ b.size = b.end - b.start + 1
  BY DEF Aligned, Area
<1>18. RoundUp(g.start, A) \in Int /\ RoundUp(g.start, A) <= x
  <2>1. g.start \in Int /\ A \in Nat /\ A > 0 /\ k \in Int
    BY <1>2, <1>5, <1>15
  <2> HIDE DEF A
  <2>2. RoundUp(g.start, A) \in Int /\ \A l \in Int : g.start <= l * A => RoundUp(g.start, A) <= l * A
    BY <2>1, RoundUpIs
  <2>3. QED BY <2>1, <2>2, <1>16 DEF x
<1>19. RoundDown(g.end + 1, A) \in Int /\ y <= RoundDown(g.end + 1, A) - 1
  <2>1. g.end + 1 \in Int /\ A \in Nat /\ A > 0
    BY <1>2, <1>15
  <2>2. PICK h \in Nat : y = h * A - 1
    BY <1>8
  <2> HIDE DEF A
  <2>3. /\ RoundDown(g.end + 1, A) \in Int
        /\ \A l \in Int : l * A <= g.end + 1 => l * A <= RoundDown(g.end + 1, A)
    BY <2>1, RoundDownIs
  <2>4. h \in Int /\ h * A \in Int
    BY <2>1, Times
  <2>5. h * A <= g.end + 1
    BY <2>2, <2>4, <1>15, <1>16
  <2>6. h * A <= RoundDown(g.end + 1, A)
    BY <2>3, <2>4, <2>5
  <2>7. QED BY <2>2, <2>3, <2>4, <2>6
<1>20. Big(g, A) /\ x .. y \subseteq Sectors(b)
  <2> HIDE DEF b, A
  <2>1. b.start \in Int /\ b.end \in Int /\ b.start <= x /\ y <= b.end /\ b.size = b.end - b.start + 1
    BY <1>17, <1>18, <1>19
  <2>2. b.start < b.end /\ b.size >= A
    <3>1. y - x + 1 <= b.end - b.start + 1
      BY <2>1, <1>9, Wider
    <3>2. b.size \in Int /\ y - x + 1 \in Int /\ A <= y - x + 1
      BY <2>1, <1>9
    <3>3. A <= b.size
      BY <3>1, <3>2, <2>1, <1>2
    <3>4. QED BY <3>3, <2>1, <1>2
  <2>3. x .. y \subseteq Sectors(b)
    BY <2>1, <1>9, Wider DEF Sectors
  <2>4. QED BY <2>2, <2>3 DEF Big, b
<1>21. Tidy(f) /\ x .. y \subseteq Cover(f)
  <2>1. A \in Nat /\ A > 0
    BY <1>2
  <2> HIDE DEF A
  <2>2. Tidy(f) /\ (Big(s[j], A) => Sectors(Aligned(s[j], A)) \subseteq Cover(f))
    BY <2>1, <1>12, <1>13, AlignAllIs
  <2>3. QED BY <2>2, <1>20 DEF g
<1>22. PICK i \in 1 .. Len(f) : Covers(f[i], x) /\ Covers(f[i], y)
  BY <1>9, <1>21, RowInOne
<1>23. f[i].size \in Nat /\ f[i].size = f[i].end - f[i].start + 1 /\ f[i].start \in Nat /\ f[i].end \in Nat
  <2>1. f[i] \in Runs
    BY <1>21, ElementOfSeq DEF Tidy
  <2>2. QED BY <2>1, RunIs
<1>24. a.size <= f[i].size
  <2>1. f[i].start <= x /\ y <= f[i].end /\ f[i].start \in Int /\ f[i].end \in Int
    BY <1>22, <1>23 DEF Covers
  <2>2. y - x + 1 <= f[i].size
    BY <2>1, <1>9, <1>23, Wider
  <2>3. y - x + 1 \in Int /\ a.size <= y - x + 1
    BY <1>9
  <2>4. QED BY <2>2, <2>3, <1>5, <1>23
<1>25. f[i].size < a.size
  BY <1>3, <1>4, <1>6, <1>21, NoneFits DEF a
<1>26. QED BY <1>5, <1>23, <1>24, <1>25

-----------------------------------------------------------------------------
(* The inductive invariant.                                                *)

RefusedOk ==
    /\ refused # {} => phase = "failed"
    /\ \A r \in refused : NoRoom(r, UsableArea(TRUE), InUse, disk.total)
DroppedOk == DropsAreUnderspecified
GptInv == Placed /\ RefusedOk /\ DroppedOk

LEMMA UsableSame ==
  ASSUME UNCHANGED <<disk, partitions>>
  PROVE  UsableArea(TRUE)' = UsableArea(TRUE) /\ InUse' = InUse
<1>1. BackupEntriesLba' = BackupEntriesLba /\ EntriesSectors' = EntriesSectors
  BY DEF BackupEntriesLba, EntriesSectors, EntriesSize
<1>2. UsableArea(TRUE)' = UsableArea(TRUE)
  BY <1>1 DEF UsableArea
<1>3. partitions' = partitions
  OBVIOUS
<1>4. InUse' = InUse
  BY <1>3, Zenon DEF InUse
<1>5. QED BY <1>2, <1>4

LEMMA PlacedSame ==
  ASSUME Placed, UNCHANGED <<disk, partitions>>
  PROVE  Placed'
<1>1. \A p \in Range(partitions) : Lies(p)'
  <2>1. SUFFICES ASSUME NEW p \in Range(partitions) PROVE Lies(p)'
    OBVIOUS
  <2>2. QED BY DiskSame DEF Placed, Inside
<1>2. TableOk' /\ PartsOk' /\ NoneShared'
  BY DEF Placed, TableOk, PartsOk, NoneShared
<1>3. Inside'
  BY <1>1 DEF Inside
<1>4. QED BY <1>2, <1>3 DEF Placed

LEMMA GptInit == Init => GptInv
<1>1. SUFFICES ASSUME Init PROVE GptInv
  OBVIOUS
<1>2. partitions = <<>> /\ disk \in Disks /\ refused = {} /\ dropped = {}
  BY <1>1 DEF Init
<1>3. partitions \in Seq(Parts) /\ Len(partitions) = 0 /\ Range(partitions) = {}
  <2>1. <<>> \in Seq(Parts) /\ Len(<<>>) = 0 /\ 1 .. 0 = {}
    OBVIOUS
  <2>2. Range(<<>>) = {}
    BY DEF Range
  <2>3. QED BY <1>2, <2>1, <2>2
<1>4. Placed
  BY <1>2, <1>3 DEF Placed, TableOk, PartsOk, NoneShared, Inside
<1>5. QED BY <1>2, <1>4 DEF GptInv, RefusedOk, DroppedOk, DropsAreUnderspecified

(* An entry for which the lookup that follows finds nothing.               *)
LEMMA DropIs ==
  ASSUME Placed, NEW r \in Requests,
         IsArea(FreeFor(r)), FindFree(FreeFor(r), IsAligned(r)) = NoArea
  PROVE  Given(ParseArea(r)) \in {{"start"}, {"end"}} \/ ParseArea(r).size = 0
<1> DEFINE al == IsAligned(r)
           f == FreeAreas(al)
           a == ParseArea(r)
<1>1. a \in Recs /\ al \in BOOLEAN
  BY ParseIs
<1>2. IsArea(Find(f, a)) /\ Find(f, Find(f, a)) = NoArea
  BY DEF FreeFor, FindFree
<1> HIDE DEF a, al
<1>3. f # RaisedList
  BY <1>2 DEF Find, IsArea
<1>4. Tidy(f)
  BY <1>1, <1>3, FreeIs
<1> HIDE DEF f
<1>5. QED BY <1>1, <1>2, <1>4, FoundAgain DEF a

LEMMA GptStep == GptInv /\ [Next]_vars => GptInv'
<1>1. SUFFICES ASSUME GptInv, [Next]_vars PROVE GptInv'
  OBVIOUS
<1>2. Placed /\ RefusedOk /\ DroppedOk
  BY <1>1 DEF GptInv
<1>3. phase = "adding" => refused = {}
  BY <1>2 DEF RefusedOk
<1>4. ASSUME NEW r \in Requests, Place(r) PROVE GptInv'
  <2>1. Placed'
    BY <1>2, <1>4, PlaceKeeps
  <2>2. refused' = {} /\ dropped' = dropped
    BY <1>3, <1>4 DEF Place, Take
  <2>3. RefusedOk'
    BY <2>2 DEF RefusedOk
  <2>4. DroppedOk'
    BY <1>2, <2>2 DEF DroppedOk, DropsAreUnderspecified
  <2>5. QED BY <2>1, <2>3, <2>4 DEF GptInv
<1>5. ASSUME NEW r \in Requests, Drop(r) PROVE GptInv'
  <2>1. /\ IsArea(FreeFor(r)) /\ FindFree(FreeFor(r), IsAligned(r)) = NoArea
        /\ phase = "adding" /\ UNCHANGED <<disk, partitions, refused>>
        /\ dropped' \subseteq dropped \cup {r}
    BY <1>5 DEF Drop, Take
  <2>2. Placed'
    BY <1>2, <2>1, PlacedSame
  <2>3. RefusedOk'
    BY <1>3, <2>1 DEF RefusedOk
  <2>4. Given(ParseArea(r)) \in {{"start"}, {"end"}} \/ ParseArea(r).size = 0
    BY <1>2, <2>1, DropIs
  <2>5. DroppedOk'
    BY <1>2, <2>1, <2>4 DEF DroppedOk, DropsAreUnderspecified
  <2>6. QED BY <2>2, <2>3, <2>5 DEF GptInv
<1>6. ASSUME NEW r \in Requests, Refuse(r) PROVE GptInv'
  <2>1. /\ FreeFor(r) = NoArea /\ phase' = "failed" /\ refused' = {r}
        /\ UNCHANGED <<disk, partitions, dropped>>
    BY <1>6 DEF Refuse, Take
  <2>2. Placed'
    BY <1>2, <2>1, PlacedSame
  <2>3. NoRoom(r, UsableArea(TRUE), InUse, disk.total)
    BY <1>2, <2>1, RoomIs
  <2>4. UsableArea(TRUE)' = UsableArea(TRUE) /\ InUse' = InUse
    BY <2>1, UsableSame
  <2>5. RefusedOk'
    BY <2>1, <2>3, <2>4 DEF RefusedOk
  <2>6. DroppedOk'
    BY <1>2, <2>1 DEF DroppedOk, DropsAreUnderspecified
  <2>7. QED BY <2>2, <2>5, <2>6 DEF GptInv
<1>7. ASSUME NEW r \in Requests, Break(r) PROVE GptInv'
  <2>1. phase = "adding" /\ UNCHANGED <<disk, partitions, dropped, refused>>
    BY <1>7 DEF Break, Take
  <2>2. Placed'
    BY <1>2, <2>1, PlacedSame
  <2>3. RefusedOk'
    BY <1>3, <2>1 DEF RefusedOk
  <2>4. DroppedOk'
    BY <1>2, <2>1 DEF DroppedOk, DropsAreUnderspecified
  <2>5. QED BY <2>2, <2>3, <2>4 DEF GptInv
<1>8. ASSUME Save PROVE GptInv'
  <2>1. phase = "adding" /\ UNCHANGED <<disk, partitions, dropped, refused>>
    BY <1>8 DEF Save
  <2>2. Placed'
    BY <1>2, <2>1, PlacedSame
  <2>3. RefusedOk'
    BY <1>3, <2>1 DEF RefusedOk
  <2>4. DroppedOk'
    BY <1>2, <2>1 DEF DroppedOk, DropsAreUnderspecified
  <2>5. QED BY <2>2, <2>3, <2>4 DEF GptInv
<1>9. ASSUME UNCHANGED vars PROVE GptInv'
  <2>1. UNCHANGED <<disk, partitions, phase, dropped, refused>>
    BY <1>9 DEF vars
  <2>2. Placed'
    BY <1>2, <2>1, PlacedSame
  <2>3. UsableArea(TRUE)' = UsableArea(TRUE) /\ InUse' = InUse
    <3>1. UNCHANGED <<disk, partitions>>
      BY <2>1
    <3>2. QED BY <3>1, UsableSame
  <2>4. RefusedOk'
    BY <1>2, <2>1, <2>3 DEF RefusedOk
  <2>5. DroppedOk'
    BY <1>2, <2>1 DEF DroppedOk, DropsAreUnderspecified
  <2>6. QED BY <2>2, <2>4, <2>5 DEF GptInv
<1>10. QED BY <1>1, <1>4, <1>5, <1>6, <1>7, <1>8, <1>9 DEF Next

LEMMA GptAlways == Spec => []GptInv
<1>1. QED BY GptInit, GptStep, PTL DEF Spec

-----------------------------------------------------------------------------
(* What the invariant says.                                                *)

LEMMA PartIs ==
  ASSUME Placed, NEW i \in DOMAIN partitions
  PROVE  LET p == partitions[i]
         IN  /\ i \in 1 .. Len(partitions) /\ p \in Parts /\ p.start \in Nat /\ p.end \in Int
             /\ Lies(p)
<1>1. DOMAIN partitions = 1 .. Len(partitions) /\ partitions \in Seq(Parts)
  BY DEF Placed, PartsOk
<1>2. partitions[i] \in Range(partitions) /\ partitions[i] \in Parts
  BY <1>1, RangeIs
<1>3. QED BY <1>1, <1>2 DEF Placed, Inside, Parts

(* The tables lie below the first usable sector or from the backup on.     *)
LEMMA TableIs ==
  ASSUME TableOk, disk.entries_lba >= 2, First <= BackupEntriesLba, NEW t \in TableAreas, NEW x \in Sectors(t)
  PROVE  x < First \/ BackupEntriesLba <= x
<1> DEFINE lba == disk.entries_lba
           m == EntriesSectors
           at(from, sectors) == Fixup(Area(from, Absent, sectors))
<1>1. /\ disk.total \in Nat /\ lba \in Nat /\ m \in Nat /\ First \in Nat /\ BackupEntriesLba \in Int
      /\ BackupEntriesLba = disk.total - m - 1 /\ First = lba + m + 1
  BY DiskIs DEF TableOk, First
<1>2. ASSUME NEW from \in Nat, NEW sectors \in Nat
      PROVE  at(from, sectors) = Area(from, from + sectors - 1, sectors)
  <2> DEFINE a == Area(from, Absent, sectors)
  <2>1. a \in Recs /\ a.start = from /\ a.end = -1 /\ a.size = sectors
    BY DEF Area, Absent, Recs
  <2> HIDE DEF a
  <2>2. Consistent(a)
    BY <2>1, ConsistentIs DEF Two
  <2>3. "start" \in Given(a) /\ "size" \in Given(a) /\ "end" \notin Given(a)
    BY <2>1, GivenTwo
  <2>4. Complete(a) = [a EXCEPT !.end = from + sectors - 1]
    BY <2>1, <2>3 DEF Complete
  <2>5. a = [start |-> from, end |-> Absent, size |-> sectors]
    BY DEF a, Area
  <2>6. Complete(a) = [start |-> from, end |-> from + sectors - 1, size |-> sectors]
    BY <2>4, <2>5
  <2>7. QED BY <2>2, <2>6 DEF Fixup, Area, a
<1> HIDE DEF m
<1>3. \A from, sectors : Sectors(Area(from, from + sectors - 1, sectors)) = from .. from + sectors - 1
  BY DEF Sectors, Area
<1>4. \/ t = at(0, 1) \/ t = at(1, 1) \/ t = at(disk.total - 1, 1)
      \/ t = at(lba, m) \/ t = at(BackupEntriesLba, m)
  BY DEF TableAreas, m
<1>5. First \in 3 .. disk.total - m - 1
  BY <1>1
<1> HIDE DEF at
<1>6. disk.total - 1 \in Nat /\ BackupEntriesLba \in Nat
  BY <1>1, <1>5
<1>7. \/ Sectors(t) = 0 .. 0 + 1 - 1 \/ Sectors(t) = 1 .. 1 + 1 - 1
      \/ Sectors(t) = disk.total - 1 .. disk.total - 1 + 1 - 1
      \/ Sectors(t) = lba .. lba + m - 1
      \/ Sectors(t) = BackupEntriesLba .. BackupEntriesLba + m - 1
  <2> HIDE DEF lba
  <2>1. CASE t = at(0, 1)
    <3>1. at(0, 1) = Area(0, 0 + 1 - 1, 1)
      BY <1>2
    <3>2. QED BY <2>1, <3>1, <1>3, Zenon
  <2>2. CASE t = at(1, 1)
    <3>1. at(1, 1) = Area(1, 1 + 1 - 1, 1)
      BY <1>2
    <3>2. QED BY <2>2, <3>1, <1>3, Zenon
  <2>3. CASE t = at(disk.total - 1, 1)
    BY <2>3, <1>2, <1>3, <1>6
  <2>4. CASE t = at(lba, m)
    BY <2>4, <1>1, <1>2, <1>3
  <2>5. CASE t = at(BackupEntriesLba, m)
    BY <2>5, <1>1, <1>2, <1>3, <1>6
  <2>6. QED BY <2>1, <2>2, <2>3, <2>4, <2>5, <1>4
<1> HIDE DEF lba
<1>8. lba >= 2 /\ x \in Sectors(t)
  BY DEF lba
<1>9. \/ x \in 0 .. 0 + 1 - 1 \/ x \in 1 .. 1 + 1 - 1
      \/ x \in disk.total - 1 .. disk.total - 1 + 1 - 1
      \/ x \in lba .. lba + m - 1
      \/ x \in BackupEntriesLba .. BackupEntriesLba + m - 1
  BY <1>7, <1>8, Zenon
<1>10. QED BY <1>1, <1>5, <1>8, <1>9

(* No two partitions share a sector, none has a sector that the tables are *)
(* written to, and all lie on the disk: DiskLayoutGPT.add_partition and    *)
(* write_header.                                                           *)
THEOREM NothingOverlapsHolds == Spec => []NothingOverlaps
<1>1. ASSUME Placed PROVE NothingOverlaps
  <2>1. SUFFICES ASSUME NEW i \in DOMAIN partitions
                 PROVE  /\ \A j \in DOMAIN partitions \ {i} :
                             Sectors(partitions[i]) \cap Sectors(partitions[j]) = {}
                        /\ \A t \in TableAreas : Sectors(partitions[i]) \cap Sectors(t) = {}
                        /\ Sectors(partitions[i]) \subseteq 0 .. disk.total - 1
    BY DEF NothingOverlaps
  <2> DEFINE p == partitions[i]
  <2>2. /\ i \in 1 .. Len(partitions) /\ p \in Parts /\ p.start \in Nat /\ p.end \in Int
        /\ disk.entries_lba >= 2 /\ First <= p.start /\ p.end < BackupEntriesLba
    BY <1>1, PartIs DEF Lies
  <2>3. \A j \in DOMAIN partitions \ {i} : Sectors(p) \cap Sectors(partitions[j]) = {}
    <3>1. SUFFICES ASSUME NEW j \in DOMAIN partitions, j # i
                   PROVE  Sectors(p) \cap Sectors(partitions[j]) = {}
      OBVIOUS
    <3>2. j \in 1 .. Len(partitions)
      BY <1>1, PartIs
    <3>3. QED BY <1>1, <2>2, <3>1, <3>2 DEF Placed, NoneShared
  <2> HIDE DEF p
  <2>4. /\ disk.total \in Nat /\ EntriesSectors \in Nat /\ First \in Nat /\ BackupEntriesLba \in Int
        /\ BackupEntriesLba = disk.total - EntriesSectors - 1
    BY <1>1, DiskIs DEF Placed, TableOk
  <2>5. \A x \in Sectors(p) : x \in Int /\ First <= x /\ x < BackupEntriesLba /\ First <= BackupEntriesLba
    <3>1. SUFFICES ASSUME NEW x \in Sectors(p)
                   PROVE  x \in Int /\ First <= x /\ x < BackupEntriesLba /\ First <= BackupEntriesLba
      OBVIOUS
    <3>2. x \in Int /\ p.start <= x /\ x <= p.end
      BY <2>2 DEF Sectors
    <3>3. First <= p.start /\ p.end < BackupEntriesLba /\ p.start \in Nat /\ p.end \in Int
      BY <2>2
    <3>4. First \in Int /\ BackupEntriesLba \in Int
      BY <2>4
    <3>5. QED BY <3>2, <3>3, <3>4
  <2>6. \A t \in TableAreas : Sectors(p) \cap Sectors(t) = {}
    <3>1. SUFFICES ASSUME NEW t \in TableAreas, NEW x \in Sectors(p), x \in Sectors(t) PROVE FALSE
      OBVIOUS
    <3>2. x < First \/ BackupEntriesLba <= x
      BY <1>1, <2>2, <2>5, <3>1, TableIs DEF Placed
    <3>3. QED BY <3>2, <2>4, <2>5
  <2>7. Sectors(p) \subseteq 0 .. disk.total - 1
    BY <2>4, <2>5
  <2>8. QED BY <2>3, <2>6, <2>7 DEF p
<1>2. GptInv => NothingOverlaps
  BY <1>1 DEF GptInv
<1>3. QED BY <1>2, GptAlways, PTL

(* The unaligned free areas are what no partition holds, as maximal runs   *)
(* in order: Areas.splice and Areas.merge, over any number of partitions.  *)
THEOREM FreeIsComplementHolds == Spec => []FreeIsComplement
<1>1. ASSUME Placed PROVE FreeIsComplement
  <2> DEFINE u == Span(FALSE)
             f == FreeAreas(FALSE)
             s == Spliced(u)
  <2>1. UsableArea(FALSE) = u
    BY <1>1, PlacedUsable
  <2>2. SUFFICES ASSUME IsArea(u), NoneEmpty
                 PROVE  /\ UNION {Sectors(f[i]) : i \in DOMAIN f} = Sectors(u) \ InUse
                        /\ \A i \in DOMAIN f : i > 1 => f[i - 1].end + 1 < f[i].start
    BY <2>1 DEF FreeIsComplement
  <2>3. /\ u \in Recs /\ u.start \in Nat /\ u.end \in Nat /\ u.size = u.end - u.start + 1
        /\ u.start <= u.end + 1 /\ disk.entries_lba >= 2
    BY <1>1, <2>2, SpanIn DEF Placed, TableOk
  <2>4. Tidy(f) /\ Cover(f) = Sectors(u) \ InUse
    <3>1. CASE u.size = 0
      <4>1. f = <<>>
        BY <2>1, <3>1 DEF FreeAreas
      <4>2. Sectors(u) = {}
        <5> HIDE DEF u
        <5>1. QED BY <2>3, <3>1 DEF Sectors
      <4> HIDE DEF f, u
      <4>3. QED BY <4>1, <4>2, EmptyIsTidy
    <3>2. CASE u.size # 0
      <4>1. /\ u \in Runs /\ (s = RaisedList \/ (Tidy(s) /\ Cover(s) = Sectors(u) \ InUse))
            /\ f = s
        BY <1>1, <2>2, <3>2, RunFree
      <4>2. \A i \in 1 .. Len(partitions) :
              Sectors(partitions[i]) # {} /\ Sectors(partitions[i]) \subseteq Sectors(u)
        <5>1. SUFFICES ASSUME NEW i \in 1 .. Len(partitions)
                       PROVE  Sectors(partitions[i]) # {} /\ Sectors(partitions[i]) \subseteq Sectors(u)
          OBVIOUS
        <5> DEFINE p == partitions[i]
        <5>2. i \in DOMAIN partitions
          BY <1>1 DEF Placed, PartsOk
        <5>3. p.start \in Nat /\ p.end \in Int /\ First <= p.start /\ p.end < BackupEntriesLba
          BY <1>1, <5>2, PartIs DEF Lies
        <5>4. First \in Nat /\ BackupEntriesLba \in Int
          BY <1>1, DiskIs DEF Placed, TableOk
        <5>5. u.start = First /\ u.end = BackupEntriesLba - 1
          <6>1. disk.entries_lba \in Nat /\ ~(disk.entries_lba < 2 \/ disk.entries_count <= 0)
            BY <1>1, <2>2, DiskIs DEF Span, IsArea, Placed, TableOk
          <6>2. u = Between(First, BackupEntriesLba - 1)
            BY <6>1 DEF Span
          <6>3. First \in Int /\ BackupEntriesLba - 1 \in Int
            BY <5>4
          <6> HIDE DEF u
          <6>4. u = Area(First, BackupEntriesLba - 1, BackupEntriesLba - 1 - First + 1)
            BY <2>2, <6>2, <6>3, BetweenIs DEF IsArea
          <6>5. QED BY <6>4 DEF Area
        <5>6. Sectors(p) # {}
          BY <2>2, <5>2 DEF NoneEmpty
        <5> HIDE DEF p, u
        <5>7. Sectors(p) \subseteq Sectors(u)
          BY <5>3, <5>4, <5>5 DEF Sectors
        <5>8. QED BY <5>6, <5>7 DEF p
      <4>3. s # RaisedList
        <5> HIDE DEF u
        <5>1. QED BY <1>1, <4>1, <4>2, SplicedIs DEF Placed, PartsOk, NoneShared
      <4> HIDE DEF f, s, u
      <4>4. QED BY <4>1, <4>3
    <3> HIDE DEF f, s, u
    <3>3. QED BY <3>1, <3>2
  <2> HIDE DEF f, u
  <2>5. f \in Seq(Runs) /\ Len(f) \in Nat /\ DOMAIN f = 1 .. Len(f)
    BY <2>4, LenProperties DEF Tidy
  <2>6. Cover(f) = UNION {Sectors(f[i]) : i \in DOMAIN f}
    <3>1. Range(f) = {f[i] : i \in DOMAIN f}
      BY DEF Range
    <3>2. QED BY <3>1 DEF Cover
  <2>7. \A i \in DOMAIN f : i > 1 => i - 1 \in 1 .. Len(f) /\ i - 1 < i
    BY <2>5
  <2>8. QED BY <2>4, <2>5, <2>6, <2>7 DEF Tidy
<1>2. GptInv => FreeIsComplement
  BY <1>1 DEF GptInv
<1>3. QED BY <1>2, GptAlways, PTL

(* The usable range that create_gpt_head states covers every aligned       *)
(* partition, although it is computed after they were placed.              *)
THEOREM HeaderCoversPartitionsHolds == Spec => []HeaderCoversPartitions
<1>1. ASSUME Placed PROVE HeaderCoversPartitions
  <2>1. SUFFICES ASSUME NEW i \in DOMAIN partitions, partitions[i].aligned
                 PROVE  Sectors(partitions[i]) \subseteq Sectors(UsableArea(TRUE))
    BY DEF HeaderCoversPartitions
  <2>2. partitions[i] \in Parts /\ Sectors(partitions[i]) \subseteq Sectors(Span(partitions[i].aligned))
    BY <1>1, PartIs DEF Lies
  <2>3. partitions[i].aligned = TRUE
    BY <2>1, <2>2 DEF Parts
  <2>4. UsableArea(TRUE) = Span(TRUE)
    BY <1>1, PlacedUsable
  <2>5. QED BY <2>2, <2>3, <2>4
<1>2. GptInv => HeaderCoversPartitions
  BY <1>1 DEF GptInv
<1>3. QED BY <1>2, GptAlways, PTL

(* "No free area found" for an aligned entry that gives only a size means  *)
(* that no run of free aligned blocks could hold it: parse_free_area and   *)
(* Areas.align, which passes over areas of the list it removes from.       *)
THEOREM RoomMeansPlacedHolds == Spec => []RoomMeansPlaced
<1>1. GptInv => RoomMeansPlaced
  BY DEF GptInv, RefusedOk, NoRoom, Row, Block, RoomMeansPlaced
<1>2. QED BY <1>1, GptAlways, PTL

(* The second lookup of add_partition finds what the first one found, so   *)
(* that an entry is dropped unnoticed only when it gives a start or an end *)
(* alone, or asks for no sectors.                                          *)
THEOREM DropsAreUnderspecifiedHolds == Spec => []DropsAreUnderspecified
<1>1. GptInv => DropsAreUnderspecified
  BY DEF GptInv, DroppedOk
<1>2. QED BY <1>1, GptAlways, PTL
=============================================================================
