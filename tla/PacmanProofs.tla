---------------------------- MODULE PacmanProofs ----------------------------
(***************************************************************************)
(* Proofs about Pacman, for any databases, packages, configurations, keys  *)
(* and number of runs.                                                     *)
(***************************************************************************)
EXTENDS Pacman, SequenceTheorems, FiniteSetTheorems, WellFoundedInduction, TLAPS

-----------------------------------------------------------------------------
(* Loops: a recursive function over 0..n.                                  *)

LEMMA LeastIndex ==
  ASSUME NEW I \in SUBSET Nat, I # {}
  PROVE  \E x \in I : \A y \in I : x =< y
<1>1. \E x \in I : \A y \in I : ~(<<y, x>> \in OpToRel(<, Nat))
  BY WFMin, NatLessThanWellFounded
<1>2. \A x, y \in Nat : x =< y \/ <<y, x>> \in OpToRel(<, Nat)
  BY DEF OpToRel
<1>3. QED BY <1>1, <1>2

(* A set with 0 that goes from each number to the next has all of them.    *)
LEMMA Upto ==
  ASSUME NEW n \in Nat, NEW G, 0 \in G, \A i \in 1 .. n : i - 1 \in G => i \in G
  PROVE  \A i \in 0 .. n : i \in G
<1> DEFINE bad == {i \in 0 .. n : i \notin G}
<1>1. SUFFICES ASSUME bad # {} PROVE FALSE
  OBVIOUS
<1>2. bad \in SUBSET Nat
  OBVIOUS
<1> HIDE DEF bad
<1>3. PICK x \in bad : \A y \in bad : x =< y
  BY <1>1, <1>2, LeastIndex
<1>4. x \in 0 .. n /\ x \notin G
  BY DEF bad
<1>5. x \in 1 .. n /\ x - 1 \in 0 .. n
  BY <1>4
<1>6. x - 1 \notin bad
  BY <1>3, <1>5, <1>2
<1>7. QED BY <1>4, <1>5, <1>6 DEF bad

IsLoop(f, n, a, F) == f = [i \in 0 .. n |-> IF i = 0 THEN a ELSE F[i][f[i - 1]]]

(* The function that such a loop defines exists.                           *)
LEMMA Loop ==
  ASSUME NEW n \in Nat, NEW X, NEW a \in X, NEW F \in [1 .. n -> [X -> X]]
  PROVE  \E f \in [0 .. n -> X] : IsLoop(f, n, a, F)
<1> DEFINE Is(f, m) == /\ f \in [0 .. m -> X] /\ f[0] = a
                       /\ \A i \in 1 .. m : f[i] = F[i][f[i - 1]]
           G == {m \in 0 .. n : \E f : Is(f, m)}
<1>1. 0 \in G
  <2>1. Is([i \in 0 .. 0 |-> a], 0)
    OBVIOUS
  <2> HIDE DEF Is
  <2>2. 0 \in 0 .. n
    OBVIOUS
  <2>3. QED BY <2>1, <2>2
<1>2. ASSUME NEW m \in 1 .. n, m - 1 \in G PROVE m \in G
  <2>1. PICK g : Is(g, m - 1)
    BY <1>2
  <2>2. /\ g \in [0 .. (m - 1) -> X] /\ g[0] = a
        /\ \A i \in 1 .. (m - 1) : g[i] = F[i][g[i - 1]]
    BY <2>1
  <2>3. m \in Nat /\ m # 0 /\ m - 1 \in 0 .. (m - 1) /\ \A i \in 0 .. m : i # m => i \in 0 .. (m - 1)
    OBVIOUS
  <2> DEFINE f == [i \in 0 .. m |-> IF i = m THEN F[m][g[m - 1]] ELSE g[i]]
  <2>4. g[m - 1] \in X
    BY <2>2, <2>3
  <2>5. F[m][g[m - 1]] \in X
    BY <2>4
  <2>6. f \in [0 .. m -> X] /\ \A i \in 0 .. m : f[i] = IF i = m THEN F[m][g[m - 1]] ELSE g[i]
    BY <2>2, <2>3, <2>5
  <2> HIDE DEF f
  <2>7. f[0] = a
    <3>1. 0 \in 0 .. m
      OBVIOUS
    <3>2. QED BY <2>2, <2>3, <2>6, <3>1
  <2>8. ASSUME NEW i \in 1 .. m PROVE f[i] = F[i][f[i - 1]]
    <3>1. i \in 0 .. m /\ i - 1 \in 0 .. m /\ i - 1 # m
      OBVIOUS
    <3>2. CASE i = m
      BY <3>1, <3>2, <2>6
    <3>3. CASE i # m
      <4>1. i \in 1 .. (m - 1)
        BY <3>3
      <4>2. f[i] = g[i] /\ f[i - 1] = g[i - 1]
        BY <3>1, <3>3, <2>6
      <4>3. QED BY <4>1, <4>2, <2>2
    <3>4. QED BY <3>2, <3>3
  <2>9. Is(f, m)
    BY <2>6, <2>7, <2>8
  <2>10. m \in 0 .. n
    OBVIOUS
  <2>11. QED BY <2>9, <2>10
<1> HIDE DEF G
<1>3. n \in G
  <2>1. \A i \in 0 .. n : i \in G
    BY <1>1, <1>2, Upto
  <2>2. n \in 0 .. n
    OBVIOUS
  <2>3. QED BY <2>1, <2>2
<1>4. PICK f : Is(f, n)
  BY <1>3 DEF G
<1>5. f = [i \in 0 .. n |-> IF i = 0 THEN a ELSE F[i][f[i - 1]]]
  <2>1. f = [i \in 0 .. n |-> f[i]]
    BY <1>4
  <2>2. \A i \in 0 .. n : i # 0 => i \in 1 .. n
    OBVIOUS
  <2>3. \A i \in 0 .. n : f[i] = IF i = 0 THEN a ELSE F[i][f[i - 1]]
    BY <2>2, <1>4
  <2>4. QED BY <2>1, <2>3
<1>6. QED BY <1>4, <1>5 DEF IsLoop

(* Those keeps elements of s that are in T.                                *)
LEMMA ThoseIs ==
  ASSUME NEW S, NEW s \in Seq(S), NEW T
  PROVE  Those(s, T) \in Seq(S \cap T)
<1> DEFINE n == Len(s)
           Kept(k) == [i \in 0 .. n |->
             IF i = 0 THEN <<>> ELSE IF s[i] \in T THEN Append(k[i - 1], s[i]) ELSE k[i - 1]]
           kept == CHOOSE k : k = Kept(k)
           X == Seq(S \cap T)
<1>1. Those(s, T) = kept[n]
  BY DEF Those
<1>2. n \in Nat /\ \A i \in 1 .. n : s[i] \in S
  BY LenProperties
<1> DEFINE F == [i \in 1 .. n |-> [x \in X |-> IF s[i] \in T THEN Append(x, s[i]) ELSE x]]
<1>3. F \in [1 .. n -> [X -> X]]
  <2>1. ASSUME NEW i \in 1 .. n, NEW x \in X
        PROVE  (IF s[i] \in T THEN Append(x, s[i]) ELSE x) \in X
    <3>1. s[i] \in S
      BY <1>2
    <3>2. QED BY <3>1, AppendProperties
  <2>2. QED BY <2>1
<1>4. <<>> \in X
  OBVIOUS
<1>5. PICK f \in [0 .. n -> X] : f = [i \in 0 .. n |-> IF i = 0 THEN <<>> ELSE F[i][f[i - 1]]]
  <2>1. n \in Nat
    BY <1>2
  <2> DEFINE e == <<>>
  <2>2. e \in X
    BY <1>4
  <2>3. \E f \in [0 .. n -> X] : IsLoop(f, n, e, F)
    <3> HIDE DEF F, X, n, e
    <3>1. QED BY <2>1, <2>2, <1>3, Loop
  <2>4. QED BY <2>3 DEF IsLoop
<1>6. f = Kept(f)
  <2>1. ASSUME NEW i \in 0 .. n, i # 0
        PROVE  F[i][f[i - 1]] = IF s[i] \in T THEN Append(f[i - 1], s[i]) ELSE f[i - 1]
    <3>1. i \in 1 .. n /\ i - 1 \in 0 .. n
      BY <2>1, <1>2
    <3>2. f[i - 1] \in X
      <4> HIDE DEF F, X, n
      <4>1. QED BY <3>1, <1>5
    <3>3. QED BY <3>1, <3>2
  <2> HIDE DEF F
  <2>2. QED BY <2>1, <1>5
<1>7. kept = Kept(kept)
  BY <1>6
<1> HIDE DEF kept
<1>8. \A i \in 0 .. n : kept[i] =
        IF i = 0 THEN <<>> ELSE IF s[i] \in T THEN Append(kept[i - 1], s[i]) ELSE kept[i - 1]
  BY <1>7
<1> DEFINE G == {i \in 0 .. n : kept[i] \in X}
<1>9. 0 \in G
  <2>1. 0 \in 0 .. n
    BY <1>2
  <2>2. kept[0] = <<>>
    BY <2>1, <1>8
  <2>3. QED BY <2>1, <2>2, <1>4
<1>10. ASSUME NEW i \in 1 .. n, i - 1 \in G PROVE i \in G
  <2>1. i \in 0 .. n /\ i # 0 /\ s[i] \in S /\ kept[i - 1] \in X
    BY <1>2, <1>10
  <2>2. kept[i] = IF s[i] \in T THEN Append(kept[i - 1], s[i]) ELSE kept[i - 1]
    BY <2>1, <1>8
  <2>3. kept[i] \in X
    BY <2>1, <2>2, AppendProperties
  <2>4. QED BY <2>1, <2>3
<1> HIDE DEF G
<1>11. n \in G
  <2>1. \A i \in 0 .. n : i \in G
    BY <1>9, <1>10, <1>2, Upto
  <2>2. QED BY <2>1, <1>2
<1>12. QED BY <1>11, <1>1 DEF G

(* A set of positions that has each one below its elements is a prefix.     *)
LEMMA PrefixIs ==
  ASSUME NEW n \in Nat, NEW B \in SUBSET (1 .. n),
         \A i \in B : \A j \in 1 .. i : j \in B
  PROVE  Cardinality(B) \in 0 .. n /\ B = 1 .. Cardinality(B)
<1> DEFINE I == {i \in 1 .. (n + 1) : i \notin B}
<1>1. n + 1 \in I /\ I \in SUBSET Nat
  OBVIOUS
<1> HIDE DEF I
<1>2. PICK x \in I : \A y \in I : x =< y
  BY <1>1, LeastIndex
<1>3. x \in 1 .. (n + 1) /\ x \notin B
  BY DEF I
<1>4. B = 1 .. (x - 1)
  <2>1. \A i \in 1 .. (x - 1) : i \in 1 .. (n + 1) /\ ~(x =< i)
    BY <1>3
  <2>2. \A i \in 1 .. (x - 1) : i \in B
    BY <1>2, <2>1 DEF I
  <2>3. ASSUME NEW i \in B PROVE i \in 1 .. (x - 1)
    <3>1. i \in 1 .. n /\ ~(x \in 1 .. i)
      BY <1>3
    <3>2. QED BY <3>1, <1>3
  <2>4. QED BY <2>2, <2>3
<1>5. Cardinality(1 .. (x - 1)) = x - 1
  <2>1. 1 \in Int /\ x - 1 \in Int
    BY <1>3
  <2>2. QED BY <2>1, <1>3, FS_Interval
<1>6. x - 1 \in 0 .. n
  BY <1>3
<1>7. QED BY <1>4, <1>5, <1>6

-----------------------------------------------------------------------------
(* The repositories, in the order init_repos leaves them.                  *)

RepoRecs == {PacmanRepo(e) : e \in Range(RepoEntries)}
InOrder(repos) == \A i, j \in 1 .. Len(repos) : i < j => repos[i].priority <= repos[j].priority
RepoLists == {repos \in Seq(RepoRecs) : InOrder(repos)}

LEMMA RepoRecIs ==
  ASSUME NEW repo \in RepoRecs
  PROVE  repo.priority \in Int /\ (AllValid /\ repo.publickey => repo.keyid \in Keys)
<1>1. PICK e \in Range(RepoEntries) : repo = PacmanRepo(e)
  BY DEF RepoRecs
<1>2. /\ "priority" \in DOMAIN e => e.priority \in Int
      /\ "keyid" \in DOMAIN e => e.keyid \in Keys
  BY PacmanAssumption
<1>3. repo.priority \in Int
  BY <1>1, <1>2 DEF PacmanRepo
<1>4. repo.publickey = ("publickey" \in DOMAIN e)
  BY <1>1 DEF PacmanRepo
<1>5. repo.keyid = IF "keyid" \in DOMAIN e THEN e.keyid ELSE "none"
  BY <1>1 DEF PacmanRepo
<1>6. AllValid /\ "publickey" \in DOMAIN e => "keyid" \in DOMAIN e
  BY DEF AllValid, IsValid
<1>7. QED BY <1>2, <1>3, <1>4, <1>5, <1>6

LEMMA InsertAtIs ==
  ASSUME NEW s, NEW i, NEW e, NEW k, i - 1 = k
  PROVE  InsertAt(s, i, e) = SubSeq(s, 1, k) \o <<e>> \o SubSeq(s, i, Len(s))
<1>1. InsertAt(s, i, e) = SubSeq(s, 1, i - 1) \o <<e>> \o SubSeq(s, i, Len(s))
  BY DEF InsertAt
<1>2. QED BY <1>1, Zenon

LEMMA AddRepoIs ==
  ASSUME NEW repos \in RepoLists, NEW repo \in RepoRecs
  PROVE  AddRepo(repos, repo) \in RepoLists
<1> DEFINE n == Len(repos)
           B == {i \in DOMAIN repos : repos[i].priority <= repo.priority}
           k == Cardinality(B)
           t == SubSeq(repos, 1, k) \o <<repo>> \o SubSeq(repos, k + 1, n)
<1>1. repos \in Seq(RepoRecs) /\ InOrder(repos)
  BY DEF RepoLists
<1>2. n \in Nat /\ DOMAIN repos = 1 .. n /\ \A i \in 1 .. n : repos[i] \in RepoRecs
  BY <1>1, LenProperties
<1>3. repo.priority \in Int /\ \A i \in 1 .. n : repos[i].priority \in Int
  BY <1>2, RepoRecIs
<1>4. \A i, j \in 1 .. n : i < j => repos[i].priority <= repos[j].priority
  BY <1>1 DEF InOrder
<1>5. k \in 0 .. n /\ B = 1 .. k
  <2>1. B \in SUBSET (1 .. n)
    BY <1>2
  <2>2. ASSUME NEW i \in B, NEW j \in 1 .. i PROVE j \in B
    <3>1. i \in 1 .. n /\ j \in 1 .. n /\ (j = i \/ j < i) /\ repos[i].priority <= repo.priority
      BY <1>2
    <3>2. repos[j].priority <= repos[i].priority
      BY <3>1, <1>3, <1>4
    <3>3. QED BY <3>1, <3>2, <1>2, <1>3
  <2> HIDE DEF B, n
  <2>3. QED BY <1>2, <2>1, <2>2, PrefixIs
<1>6. AddRepo(repos, repo) = t
  <2> DEFINE m == k + 1
  <2>1. m - 1 = k
    BY <1>5
  <2> HIDE DEF m, k
  <2>2. InsertAt(repos, m, repo) = SubSeq(repos, 1, k) \o <<repo>> \o SubSeq(repos, m, Len(repos))
    BY <2>1, InsertAtIs
  <2>3. QED BY <2>2 DEF AddRepo, m, k
<1>7. \A i \in 1 .. n : repos[i].priority <= repo.priority <=> i \in 1 .. k
  BY <1>2, <1>5
<1> HIDE DEF B, k
<1> DEFINE a == SubSeq(repos, 1, k)
           b == a \o <<repo>>
           c == SubSeq(repos, k + 1, n)
<1>8. a \in Seq(RepoRecs) /\ Len(a) = k /\ \A i \in 1 .. k : a[i] = repos[i]
  BY <1>1, <1>2, <1>5, SubSeqProperties
<1>9. c \in Seq(RepoRecs) /\ Len(c) = n - k /\ \A i \in 1 .. (n - k) : c[i] = repos[k + i]
  <2>1. k + 1 \in Int /\ n \in Int /\ \A i \in (k + 1) .. n : repos[i] \in RepoRecs
    BY <1>2, <1>5
  <2> HIDE DEF n
  <2>2. /\ c \in Seq(RepoRecs) /\ Len(c) = IF k + 1 <= n THEN n - (k + 1) + 1 ELSE 0
        /\ \A i \in 1 .. (n - (k + 1) + 1) : c[i] = repos[(k + 1) + i - 1]
    BY <2>1, SubSeqProperties
  <2> HIDE DEF c
  <2>3. n - (k + 1) + 1 = n - k /\ \A i \in 1 .. (n - k) : (k + 1) + i - 1 = k + i
    BY <1>2, <1>5
  <2>4. QED BY <2>2, <2>3, <1>2, <1>5
<1>10. t = b \o c
  OBVIOUS
<1> HIDE DEF a, c, n, t
<1>11. /\ b \in Seq(RepoRecs) /\ Len(b) = k + 1 /\ b[k + 1] = repo
       /\ \A i \in 1 .. k : b[i] = repos[i]
  BY <1>8, <1>5
<1> HIDE DEF b
<1>12. /\ t \in Seq(RepoRecs) /\ Len(t) = n + 1
       /\ \A i \in 1 .. (k + 1) : t[i] = b[i]
       /\ \A i \in 1 .. (n + 1) : i > k + 1 => t[i] = c[i - (k + 1)]
  <2>1. k \in Nat /\ n \in Nat /\ k =< n
    BY <1>2, <1>5
  <2>2. /\ t \in Seq(RepoRecs) /\ Len(t) = Len(b) + Len(c)
        /\ \A i \in 1 .. Len(t) : t[i] = IF i <= Len(b) THEN b[i] ELSE c[i - Len(b)]
    <3>1. t = b \o c
      BY <1>10
    <3>2. /\ b \o c \in Seq(RepoRecs)
          /\ Len(b \o c) = Len(b) + Len(c)
          /\ \A i \in 1 .. Len(b) + Len(c) : (b \o c)[i] = IF i <= Len(b) THEN b[i] ELSE c[i - Len(b)]
      BY <1>9, <1>11, ConcatProperties
    <3>3. QED BY <3>1, <3>2
  <2>3. Len(t) = n + 1
    BY <2>1, <2>2, <1>9, <1>11
  <2>4. Len(b) = k + 1 /\ \A i \in 1 .. (n + 1) : t[i] = IF i <= k + 1 THEN b[i] ELSE c[i - (k + 1)]
    BY <2>2, <2>3, <1>11
  <2>5. \A i \in 1 .. (k + 1) : i \in 1 .. (n + 1) /\ i <= k + 1
    BY <2>1
  <2>6. QED BY <2>1, <2>2, <2>3, <2>4, <2>5
<1>13. \A i \in 1 .. (n + 1) : t[i] = IF i <= k THEN repos[i] ELSE IF i = k + 1 THEN repo ELSE repos[i - 1]
  <2> SUFFICES ASSUME NEW i \in 1 .. (n + 1)
               PROVE  t[i] = IF i <= k THEN repos[i] ELSE IF i = k + 1 THEN repo ELSE repos[i - 1]
    OBVIOUS
  <2>1. k \in Nat /\ n \in Nat /\ k =< n
    BY <1>2, <1>5
  <2>2. CASE i <= k
    <3>1. i \in 1 .. (k + 1) /\ i \in 1 .. k
      BY <2>1, <2>2
    <3>2. QED BY <2>2, <3>1, <1>11, <1>12
  <2>3. CASE i = k + 1
    <3>1. i \in 1 .. (k + 1) /\ ~(i <= k)
      BY <2>1, <2>3
    <3>2. QED BY <2>3, <3>1, <1>11, <1>12
  <2>4. CASE i > k + 1
    <3>1. i - (k + 1) \in 1 .. (n - k) /\ k + (i - (k + 1)) = i - 1
      BY <2>1, <2>4
    <3>2. t[i] = c[i - (k + 1)] /\ c[i - (k + 1)] = repos[k + (i - (k + 1))]
      BY <2>4, <3>1, <1>9, <1>12
    <3>3. QED BY <2>1, <2>4, <3>1, <3>2
  <2>5. QED BY <2>1, <2>2, <2>3, <2>4
<1>14. InOrder(t)
  <2> SUFFICES ASSUME NEW i \in 1 .. (n + 1), NEW j \in 1 .. (n + 1), i < j
               PROVE  t[i].priority <= t[j].priority
    BY <1>12 DEF InOrder
  <2>1. k \in Nat /\ n \in Nat /\ k =< n
    BY <1>2, <1>5
  <2>2. CASE j <= k
    BY <2>1, <2>2, <1>13, <1>4
  <2>3. CASE i <= k /\ j = k + 1
    BY <2>1, <2>3, <1>13, <1>7
  <2>4. CASE i <= k /\ j > k + 1
    BY <2>1, <2>4, <1>13, <1>4
  <2>5. CASE i = k + 1
    <3>1. j - 1 \in 1 .. n /\ j - 1 \notin 1 .. k
      BY <2>1, <2>5
    <3>2. ~(repos[j - 1].priority <= repo.priority)
      BY <3>1, <1>7
    <3>3. QED BY <2>1, <2>5, <3>1, <3>2, <1>13, <1>3
  <2>6. CASE i > k + 1
    BY <2>1, <2>6, <1>13, <1>4
  <2>7. QED BY <2>1, <2>2, <2>3, <2>4, <2>5, <2>6
<1>15. QED BY <1>6, <1>12, <1>14 DEF RepoLists

(* init_repos leaves the repositories sorted by their priority.             *)
LEMMA RepoConfigIs == RepoConfig \in RepoLists
<1> DEFINE n == Len(RepoEntries)
           X == RepoLists
           Next1(x, i) == AddRepo(x, PacmanRepo(RepoEntries[i]))
           Added(k) == [i \in 0 .. n |-> IF i = 0 THEN <<>> ELSE Next1(k[i - 1], i)]
           added == CHOOSE k : k = Added(k)
           F == [i \in 1 .. n |-> [x \in X |-> Next1(x, i)]]
           e == <<>>
<1>1. RepoConfig = added[n]
  BY DEF RepoConfig
<1>2. n \in Nat /\ \A i \in 1 .. n : RepoEntries[i] \in Range(RepoEntries)
  BY PacmanAssumption, LenProperties DEF IsSequence
<1>3. e \in X
  BY DEF RepoLists, InOrder
<1>4. ASSUME NEW i \in 1 .. n, NEW x \in X PROVE Next1(x, i) \in X
  <2>1. PacmanRepo(RepoEntries[i]) \in RepoRecs
    BY <1>2 DEF RepoRecs
  <2>2. QED BY <2>1, AddRepoIs
<1> HIDE DEF Next1, X, n
<1>5. F \in [1 .. n -> [X -> X]]
  BY <1>4
<1>6. PICK f \in [0 .. n -> X] : IsLoop(f, n, e, F)
  <2> HIDE DEF F, e
  <2>1. QED BY <1>2, <1>3, <1>5, Loop
<1>7. f = Added(f)
  <2>1. ASSUME NEW i \in 0 .. n, i # 0 PROVE F[i][f[i - 1]] = Next1(f[i - 1], i)
    <3>1. i \in 1 .. n /\ i - 1 \in 0 .. n
      BY <2>1, <1>2
    <3>2. f[i - 1] \in X
      <4> HIDE DEF F, e
      <4>1. QED BY <3>1, <1>6
    <3>3. QED BY <3>1, <3>2
  <2> HIDE DEF F
  <2>2. QED BY <2>1, <1>6 DEF IsLoop
<1>8. added = Added(added)
  BY <1>7
<1> HIDE DEF added
<1>9. \A i \in 0 .. n : added[i] = IF i = 0 THEN e ELSE Next1(added[i - 1], i)
  BY <1>8
<1> HIDE DEF e
<1> DEFINE G == {i \in 0 .. n : added[i] \in X}
<1>10. 0 \in G
  <2>1. 0 \in 0 .. n
    BY <1>2
  <2>2. added[0] = e
    BY <2>1, <1>9
  <2>3. QED BY <2>1, <2>2, <1>3
<1>11. ASSUME NEW i \in 1 .. n, i - 1 \in G PROVE i \in G
  <2>1. i \in 0 .. n /\ i # 0 /\ added[i - 1] \in X
    BY <1>2, <1>11
  <2>2. added[i] = Next1(added[i - 1], i)
    BY <2>1, <1>9
  <2>3. added[i] \in X
    BY <2>1, <2>2, <1>4
  <2>4. QED BY <2>1, <2>3
<1> HIDE DEF G
<1>12. \A i \in 0 .. n : i \in G
  BY <1>10, <1>11, <1>2, Upto
<1>13. n \in 0 .. n
  BY <1>2
<1>14. QED BY <1>1, <1>12, <1>13 DEF G, X

-----------------------------------------------------------------------------
(* The keyring: what its operations keep and what they add.                *)

Rings == [trustdb : BOOLEAN, master : BOOLEAN,
          public : SUBSET Keys, signed : SUBSET Keys, disabled : SUBSET Keys]
Outcomes == [ring : Rings, ok : BOOLEAN]

(* o comes after p: the call was not made, or no signature is lost, and    *)
(* when it returned the keys W are signed.                                 *)
Turn(p, o, W) ==
  IF p.ok THEN /\ p.ring.signed \subseteq o.ring.signed
               /\ o.ok => W \subseteq o.ring.signed
  ELSE o = p

(* o comes after turns for 1..n that started with r.                       *)
Gained(o, r, n, W) ==
  /\ r.signed \subseteq o.ring.signed
  /\ o.ok => \A i \in 1 .. n : W[i] \subseteq o.ring.signed

(* All outcomes of an operation on r keep signatures and, if it returned,  *)
(* have signed W.                                                          *)
Gains(O, r, W) ==
  \A o \in O : /\ r.signed \subseteq o.ring.signed
               /\ o.ok => W \subseteq o.ring.signed

LEMMA OutcomeIs ==
  ASSUME NEW o \in Outcomes
  PROVE  /\ o.ring \in Rings /\ o.ok \in BOOLEAN
         /\ o = [ring |-> o.ring, ok |-> o.ok]
BY DEF Outcomes

(* A loop gains what its turns gain.                                       *)
LEMMA LoopGains ==
  ASSUME NEW n \in Nat, NEW r \in Rings, NEW k \in [0 .. n -> SUBSET Outcomes], NEW W,
         k[0] = Returns(r),
         \A i \in 1 .. n : \A o \in k[i] : \E p \in k[i - 1] : Turn(p, o, W[i])
  PROVE  \A o \in k[n] : Gained(o, r, n, W)
<1> DEFINE Fine(m) == \A o \in k[m] : Gained(o, r, m, W)
           G == {m \in 0 .. n : Fine(m)}
<1>1. 0 \in G
  <2>1. Fine(0)
    BY DEF Returns, Gained
  <2>2. 0 \in 0 .. n
    OBVIOUS
  <2>3. QED BY <2>1, <2>2
<1>2. ASSUME NEW m \in 1 .. n, m - 1 \in G PROVE m \in G
  <2>0. Fine(m - 1)
    <3> HIDE DEF Fine
    <3>1. QED BY <1>2
  <2>1. ASSUME NEW o \in k[m]
        PROVE  Gained(o, r, m, W)
    <3>1. PICK p \in k[m - 1] : Turn(p, o, W[m])
      OBVIOUS
    <3>2. /\ r.signed \subseteq p.ring.signed
          /\ p.ok => \A i \in 1 .. (m - 1) : W[i] \subseteq p.ring.signed
      BY <2>0 DEF Gained
    <3>3. m \in 0 .. n /\ m - 1 \in 0 .. n
      OBVIOUS
    <3>4. p.ok \in BOOLEAN
      BY <3>3, OutcomeIs
    <3>5. CASE p.ok
      <4>1. p.ring.signed \subseteq o.ring.signed /\ (o.ok => W[m] \subseteq o.ring.signed)
        BY <3>1, <3>5 DEF Turn
      <4>2. \A i \in 1 .. m : i = m \/ i \in 1 .. (m - 1)
        OBVIOUS
      <4>3. QED BY <4>1, <4>2, <3>2, <3>5 DEF Gained
    <3>6. CASE ~p.ok
      <4>1. o = p
        BY <3>1, <3>6 DEF Turn
      <4>2. QED BY <4>1, <3>2, <3>6 DEF Gained
    <3>7. QED BY <3>4, <3>5, <3>6
  <2>2. m \in 0 .. n
    OBVIOUS
  <2>3. Fine(m)
    BY <2>1
  <2> HIDE DEF Fine
  <2>4. QED BY <2>2, <2>3
<1> HIDE DEF G
<1>3. \A m \in 0 .. n : m \in G
  BY <1>1, <1>2, Upto
<1>4. n \in 0 .. n
  OBVIOUS
<1>5. Fine(n)
  <2> HIDE DEF Fine
  <2>1. QED BY <1>3, <1>4 DEF G
<1>6. QED BY <1>5

(* The loop of pouplate_keys that signs the trusted keys.                  *)
SignNext(x, e) == Then(x, LAMBDA q : LsignKey(q, e))

LEMMA SignLoop ==
  ASSUME NEW r \in Rings, NEW S, NEW s \in Seq(S), NEW W,
         \A x \in SUBSET Outcomes : \A i \in 1 .. Len(s) :
            /\ SignNext(x, s[i]) \in SUBSET Outcomes
            /\ \A o \in SignNext(x, s[i]) : \E p \in x : Turn(p, o, W[i])
  PROVE  LET O == ForEach(LsignKey, r, s)
         IN  /\ O \in SUBSET Outcomes
             /\ \A o \in O : Gained(o, r, Len(s), W)
<1> DEFINE n == Len(s)
           X == SUBSET Outcomes
           a == Returns(r)
           After(k) == [i \in 0 .. n |-> IF i = 0 THEN a ELSE SignNext(k[i - 1], s[i])]
           after == CHOOSE k : k = After(k)
           O == ForEach(LsignKey, r, s)
           F == [i \in 1 .. n |-> [x \in X |-> SignNext(x, s[i])]]
<1>1. O = after[n]
  BY DEF ForEach, SignNext
<1>2. n \in Nat
  BY LenProperties
<1>3. a \in X
  BY DEF Returns, Outcomes
<1>4. F \in [1 .. n -> [X -> X]]
  OBVIOUS
<1>5. PICK f \in [0 .. n -> X] : IsLoop(f, n, a, F)
  <2> HIDE DEF F, X, n, a
  <2>1. QED BY <1>2, <1>3, <1>4, Loop
<1>6. f = After(f)
  <2>1. ASSUME NEW i \in 0 .. n, i # 0 PROVE F[i][f[i - 1]] = SignNext(f[i - 1], s[i])
    <3>1. i \in 1 .. n /\ i - 1 \in 0 .. n
      BY <2>1, <1>2
    <3>2. f[i - 1] \in X
      <4> HIDE DEF F, X, n, a
      <4>1. QED BY <3>1, <1>5
    <3>3. QED BY <3>1, <3>2
  <2> HIDE DEF F, a
  <2>2. QED BY <2>1, <1>5 DEF IsLoop
<1>7. after = After(after)
  BY <1>6
<1> HIDE DEF after
<1>8. \A i \in 0 .. n : after[i] = IF i = 0 THEN a ELSE SignNext(after[i - 1], s[i])
  BY <1>7
<1> DEFINE G == {i \in 0 .. n : after[i] \in X}
<1>9. 0 \in 0 .. n /\ after[0] = a
  BY <1>2, <1>8
<1>10. 0 \in G
  BY <1>9, <1>3
<1>11. ASSUME NEW i \in 1 .. n, i - 1 \in G PROVE i \in G
  <2>1. i \in 0 .. n /\ i # 0 /\ after[i - 1] \in X
    BY <1>2, <1>11
  <2>2. after[i] = SignNext(after[i - 1], s[i])
    BY <2>1, <1>8
  <2>3. after[i] \in X
    BY <2>1, <2>2
  <2>4. QED BY <2>1, <2>3
<1> HIDE DEF G
<1>12. \A i \in 0 .. n : i \in G
  BY <1>10, <1>11, <1>2, Upto
<1>13. \A i \in 0 .. n : after[i] \in X
  BY <1>12 DEF G
<1>14. after \in [0 .. n -> X]
  BY <1>13, <1>7
<1>15. \A i \in 1 .. n : \A o \in after[i] : \E p \in after[i - 1] : Turn(p, o, W[i])
  <2>1. TAKE i \in 1 .. n
  <2>2. i \in 0 .. n /\ i # 0 /\ i - 1 \in 0 .. n
    BY <1>2
  <2>3. after[i - 1] \in X /\ after[i] = SignNext(after[i - 1], s[i])
    BY <2>2, <1>8, <1>13
  <2>4. QED BY <2>3
<1>16. after[0] = Returns(r)
  BY <1>9
<1>17. n \in 0 .. n
  BY <1>2
<1>18. O \in SUBSET Outcomes
  BY <1>13, <1>17, <1>1
<1>19. \A o \in after[n] : Gained(o, r, n, W)
  <2> HIDE DEF n
  <2>1. QED BY <1>2, <1>14, <1>15, <1>16, LoopGains
<1>20. QED BY <1>18, <1>19, <1>1

(* The loop that disables the revoked keys.                                *)
RevokeNext(x, e) == Then(x, LAMBDA q : RevokeKey(q, e))

LEMMA RevokeLoop ==
  ASSUME NEW r \in Rings, NEW S, NEW s \in Seq(S), NEW W,
         \A x \in SUBSET Outcomes : \A i \in 1 .. Len(s) :
            /\ RevokeNext(x, s[i]) \in SUBSET Outcomes
            /\ \A o \in RevokeNext(x, s[i]) : \E p \in x : Turn(p, o, W[i])
  PROVE  LET O == ForEach(RevokeKey, r, s)
         IN  /\ O \in SUBSET Outcomes
             /\ \A o \in O : Gained(o, r, Len(s), W)
<1> DEFINE n == Len(s)
           X == SUBSET Outcomes
           a == Returns(r)
           After(k) == [i \in 0 .. n |-> IF i = 0 THEN a ELSE RevokeNext(k[i - 1], s[i])]
           after == CHOOSE k : k = After(k)
           O == ForEach(RevokeKey, r, s)
           F == [i \in 1 .. n |-> [x \in X |-> RevokeNext(x, s[i])]]
<1>1. O = after[n]
  BY DEF ForEach, RevokeNext
<1>2. n \in Nat
  BY LenProperties
<1>3. a \in X
  BY DEF Returns, Outcomes
<1>4. F \in [1 .. n -> [X -> X]]
  OBVIOUS
<1>5. PICK f \in [0 .. n -> X] : IsLoop(f, n, a, F)
  <2> HIDE DEF F, X, n, a
  <2>1. QED BY <1>2, <1>3, <1>4, Loop
<1>6. f = After(f)
  <2>1. ASSUME NEW i \in 0 .. n, i # 0 PROVE F[i][f[i - 1]] = RevokeNext(f[i - 1], s[i])
    <3>1. i \in 1 .. n /\ i - 1 \in 0 .. n
      BY <2>1, <1>2
    <3>2. f[i - 1] \in X
      <4> HIDE DEF F, X, n, a
      <4>1. QED BY <3>1, <1>5
    <3>3. QED BY <3>1, <3>2
  <2> HIDE DEF F, a
  <2>2. QED BY <2>1, <1>5 DEF IsLoop
<1>7. after = After(after)
  BY <1>6
<1> HIDE DEF after
<1>8. \A i \in 0 .. n : after[i] = IF i = 0 THEN a ELSE RevokeNext(after[i - 1], s[i])
  BY <1>7
<1> DEFINE G == {i \in 0 .. n : after[i] \in X}
<1>9. 0 \in 0 .. n /\ after[0] = a
  BY <1>2, <1>8
<1>10. 0 \in G
  BY <1>9, <1>3
<1>11. ASSUME NEW i \in 1 .. n, i - 1 \in G PROVE i \in G
  <2>1. i \in 0 .. n /\ i # 0 /\ after[i - 1] \in X
    BY <1>2, <1>11
  <2>2. after[i] = RevokeNext(after[i - 1], s[i])
    BY <2>1, <1>8
  <2>3. after[i] \in X
    BY <2>1, <2>2
  <2>4. QED BY <2>1, <2>3
<1> HIDE DEF G
<1>12. \A i \in 0 .. n : i \in G
  BY <1>10, <1>11, <1>2, Upto
<1>13. \A i \in 0 .. n : after[i] \in X
  BY <1>12 DEF G
<1>14. after \in [0 .. n -> X]
  BY <1>13, <1>7
<1>15. \A i \in 1 .. n : \A o \in after[i] : \E p \in after[i - 1] : Turn(p, o, W[i])
  <2>1. TAKE i \in 1 .. n
  <2>2. i \in 0 .. n /\ i # 0 /\ i - 1 \in 0 .. n
    BY <1>2
  <2>3. after[i - 1] \in X /\ after[i] = RevokeNext(after[i - 1], s[i])
    BY <2>2, <1>8, <1>13
  <2>4. QED BY <2>3
<1>16. after[0] = Returns(r)
  BY <1>9
<1>17. n \in 0 .. n
  BY <1>2
<1>18. O \in SUBSET Outcomes
  BY <1>13, <1>17, <1>1
<1>19. \A o \in after[n] : Gained(o, r, n, W)
  <2> HIDE DEF n
  <2>1. QED BY <1>2, <1>14, <1>15, <1>16, LoopGains
<1>20. QED BY <1>18, <1>19, <1>1

(* The loop of init_keyring over the repositories.                         *)
ConfigNext(x, e) == Then(x, LAMBDA q : RepoKey(q, e))

LEMMA ConfigLoop ==
  ASSUME NEW r \in Rings, NEW S, NEW s \in Seq(S), NEW W,
         \A x \in SUBSET Outcomes : \A i \in 1 .. Len(s) :
            /\ ConfigNext(x, s[i]) \in SUBSET Outcomes
            /\ \A o \in ConfigNext(x, s[i]) : \E p \in x : Turn(p, o, W[i])
  PROVE  LET O == ForEach(RepoKey, r, s)
         IN  /\ O \in SUBSET Outcomes
             /\ \A o \in O : Gained(o, r, Len(s), W)
<1> DEFINE n == Len(s)
           X == SUBSET Outcomes
           a == Returns(r)
           After(k) == [i \in 0 .. n |-> IF i = 0 THEN a ELSE ConfigNext(k[i - 1], s[i])]
           after == CHOOSE k : k = After(k)
           O == ForEach(RepoKey, r, s)
           F == [i \in 1 .. n |-> [x \in X |-> ConfigNext(x, s[i])]]
<1>1. O = after[n]
  BY DEF ForEach, ConfigNext
<1>2. n \in Nat
  BY LenProperties
<1>3. a \in X
  BY DEF Returns, Outcomes
<1>4. F \in [1 .. n -> [X -> X]]
  OBVIOUS
<1>5. PICK f \in [0 .. n -> X] : IsLoop(f, n, a, F)
  <2> HIDE DEF F, X, n, a
  <2>1. QED BY <1>2, <1>3, <1>4, Loop
<1>6. f = After(f)
  <2>1. ASSUME NEW i \in 0 .. n, i # 0 PROVE F[i][f[i - 1]] = ConfigNext(f[i - 1], s[i])
    <3>1. i \in 1 .. n /\ i - 1 \in 0 .. n
      BY <2>1, <1>2
    <3>2. f[i - 1] \in X
      <4> HIDE DEF F, X, n, a
      <4>1. QED BY <3>1, <1>5
    <3>3. QED BY <3>1, <3>2
  <2> HIDE DEF F, a
  <2>2. QED BY <2>1, <1>5 DEF IsLoop
<1>7. after = After(after)
  BY <1>6
<1> HIDE DEF after
<1>8. \A i \in 0 .. n : after[i] = IF i = 0 THEN a ELSE ConfigNext(after[i - 1], s[i])
  BY <1>7
<1> DEFINE G == {i \in 0 .. n : after[i] \in X}
<1>9. 0 \in 0 .. n /\ after[0] = a
  BY <1>2, <1>8
<1>10. 0 \in G
  BY <1>9, <1>3
<1>11. ASSUME NEW i \in 1 .. n, i - 1 \in G PROVE i \in G
  <2>1. i \in 0 .. n /\ i # 0 /\ after[i - 1] \in X
    BY <1>2, <1>11
  <2>2. after[i] = ConfigNext(after[i - 1], s[i])
    BY <2>1, <1>8
  <2>3. after[i] \in X
    BY <2>1, <2>2
  <2>4. QED BY <2>1, <2>3
<1> HIDE DEF G
<1>12. \A i \in 0 .. n : i \in G
  BY <1>10, <1>11, <1>2, Upto
<1>13. \A i \in 0 .. n : after[i] \in X
  BY <1>12 DEF G
<1>14. after \in [0 .. n -> X]
  BY <1>13, <1>7
<1>15. \A i \in 1 .. n : \A o \in after[i] : \E p \in after[i - 1] : Turn(p, o, W[i])
  <2>1. TAKE i \in 1 .. n
  <2>2. i \in 0 .. n /\ i # 0 /\ i - 1 \in 0 .. n
    BY <1>2
  <2>3. after[i - 1] \in X /\ after[i] = ConfigNext(after[i - 1], s[i])
    BY <2>2, <1>8, <1>13
  <2>4. QED BY <2>3
<1>16. after[0] = Returns(r)
  BY <1>9
<1>17. n \in 0 .. n
  BY <1>2
<1>18. O \in SUBSET Outcomes
  BY <1>13, <1>17, <1>1
<1>19. \A o \in after[n] : Gained(o, r, n, W)
  <2> HIDE DEF n
  <2>1. QED BY <1>2, <1>14, <1>15, <1>16, LoopGains
<1>20. QED BY <1>18, <1>19, <1>1

(* The loop of trust_all.                                                  *)
TrustNext(x, e, fail) == Then(x, LAMBDA q : IF fail THEN Swallow(LsignKey(q, e)) ELSE LsignKey(q, e))

TrustEach(r, s, fail) ==
  ForEach(LAMBDA q, k : IF fail THEN Swallow(LsignKey(q, k)) ELSE LsignKey(q, k), r, s)

LEMMA TrustLoop ==
  ASSUME NEW r \in Rings, NEW S, NEW s \in Seq(S), NEW W, NEW fail,
         \A x \in SUBSET Outcomes : \A i \in 1 .. Len(s) :
            /\ TrustNext(x, s[i], fail) \in SUBSET Outcomes
            /\ \A o \in TrustNext(x, s[i], fail) : \E p \in x : Turn(p, o, W[i])
  PROVE  LET O == TrustEach(r, s, fail)
         IN  /\ O \in SUBSET Outcomes
             /\ \A o \in O : Gained(o, r, Len(s), W)
<1> DEFINE n == Len(s)
           X == SUBSET Outcomes
           a == Returns(r)
           After(k) == [i \in 0 .. n |-> IF i = 0 THEN a ELSE TrustNext(k[i - 1], s[i], fail)]
           after == CHOOSE k : k = After(k)
           O == TrustEach(r, s, fail)
           F == [i \in 1 .. n |-> [x \in X |-> TrustNext(x, s[i], fail)]]
<1>1. O = after[n]
  BY DEF TrustEach, ForEach, TrustNext
<1>2. n \in Nat
  BY LenProperties
<1>3. a \in X
  BY DEF Returns, Outcomes
<1>4. F \in [1 .. n -> [X -> X]]
  OBVIOUS
<1>5. PICK f \in [0 .. n -> X] : IsLoop(f, n, a, F)
  <2> HIDE DEF F, X, n, a
  <2>1. QED BY <1>2, <1>3, <1>4, Loop
<1>6. f = After(f)
  <2>1. ASSUME NEW i \in 0 .. n, i # 0 PROVE F[i][f[i - 1]] = TrustNext(f[i - 1], s[i], fail)
    <3>1. i \in 1 .. n /\ i - 1 \in 0 .. n
      BY <2>1, <1>2
    <3>2. f[i - 1] \in X
      <4> HIDE DEF F, X, n, a
      <4>1. QED BY <3>1, <1>5
    <3>3. QED BY <3>1, <3>2
  <2> HIDE DEF F, a
  <2>2. QED BY <2>1, <1>5 DEF IsLoop
<1>7. after = After(after)
  BY <1>6
<1> HIDE DEF after
<1>8. \A i \in 0 .. n : after[i] = IF i = 0 THEN a ELSE TrustNext(after[i - 1], s[i], fail)
  BY <1>7
<1> DEFINE G == {i \in 0 .. n : after[i] \in X}
<1>9. 0 \in 0 .. n /\ after[0] = a
  BY <1>2, <1>8
<1>10. 0 \in G
  BY <1>9, <1>3
<1>11. ASSUME NEW i \in 1 .. n, i - 1 \in G PROVE i \in G
  <2>1. i \in 0 .. n /\ i # 0 /\ after[i - 1] \in X
    BY <1>2, <1>11
  <2>2. after[i] = TrustNext(after[i - 1], s[i], fail)
    BY <2>1, <1>8
  <2>3. after[i] \in X
    BY <2>1, <2>2
  <2>4. QED BY <2>1, <2>3
<1> HIDE DEF G
<1>12. \A i \in 0 .. n : i \in G
  BY <1>10, <1>11, <1>2, Upto
<1>13. \A i \in 0 .. n : after[i] \in X
  BY <1>12 DEF G
<1>14. after \in [0 .. n -> X]
  BY <1>13, <1>7
<1>15. \A i \in 1 .. n : \A o \in after[i] : \E p \in after[i - 1] : Turn(p, o, W[i])
  <2>1. TAKE i \in 1 .. n
  <2>2. i \in 0 .. n /\ i # 0 /\ i - 1 \in 0 .. n
    BY <1>2
  <2>3. after[i - 1] \in X /\ after[i] = TrustNext(after[i - 1], s[i], fail)
    BY <2>2, <1>8, <1>13
  <2>4. QED BY <2>3
<1>16. after[0] = Returns(r)
  BY <1>9
<1>17. n \in 0 .. n
  BY <1>2
<1>18. O \in SUBSET Outcomes
  BY <1>13, <1>17, <1>1
<1>19. \A o \in after[n] : Gained(o, r, n, W)
  <2> HIDE DEF n
  <2>1. QED BY <1>2, <1>14, <1>15, <1>16, LoopGains
<1>20. QED BY <1>18, <1>19, <1>1

(* The loop of add_trust_keyring_pkg over the packages of a name.          *)
PackageNext(x, e) == Then(x, LAMBDA q : TrustKeyringPkg(q, e))

LEMMA PackageLoop ==
  ASSUME NEW r \in Rings, NEW S, NEW s \in Seq(S), NEW W,
         \A x \in SUBSET Outcomes : \A i \in 1 .. Len(s) :
            /\ PackageNext(x, s[i]) \in SUBSET Outcomes
            /\ \A o \in PackageNext(x, s[i]) : \E p \in x : Turn(p, o, W[i])
  PROVE  LET O == ForEach(TrustKeyringPkg, r, s)
         IN  /\ O \in SUBSET Outcomes
             /\ \A o \in O : Gained(o, r, Len(s), W)
<1> DEFINE n == Len(s)
           X == SUBSET Outcomes
           a == Returns(r)
           After(k) == [i \in 0 .. n |-> IF i = 0 THEN a ELSE PackageNext(k[i - 1], s[i])]
           after == CHOOSE k : k = After(k)
           O == ForEach(TrustKeyringPkg, r, s)
           F == [i \in 1 .. n |-> [x \in X |-> PackageNext(x, s[i])]]
<1>1. O = after[n]
  BY DEF ForEach, PackageNext
<1>2. n \in Nat
  BY LenProperties
<1>3. a \in X
  BY DEF Returns, Outcomes
<1>4. F \in [1 .. n -> [X -> X]]
  OBVIOUS
<1>5. PICK f \in [0 .. n -> X] : IsLoop(f, n, a, F)
  <2> HIDE DEF F, X, n, a
  <2>1. QED BY <1>2, <1>3, <1>4, Loop
<1>6. f = After(f)
  <2>1. ASSUME NEW i \in 0 .. n, i # 0 PROVE F[i][f[i - 1]] = PackageNext(f[i - 1], s[i])
    <3>1. i \in 1 .. n /\ i - 1 \in 0 .. n
      BY <2>1, <1>2
    <3>2. f[i - 1] \in X
      <4> HIDE DEF F, X, n, a
      <4>1. QED BY <3>1, <1>5
    <3>3. QED BY <3>1, <3>2
  <2> HIDE DEF F, a
  <2>2. QED BY <2>1, <1>5 DEF IsLoop
<1>7. after = After(after)
  BY <1>6
<1> HIDE DEF after
<1>8. \A i \in 0 .. n : after[i] = IF i = 0 THEN a ELSE PackageNext(after[i - 1], s[i])
  BY <1>7
<1> DEFINE G == {i \in 0 .. n : after[i] \in X}
<1>9. 0 \in 0 .. n /\ after[0] = a
  BY <1>2, <1>8
<1>10. 0 \in G
  BY <1>9, <1>3
<1>11. ASSUME NEW i \in 1 .. n, i - 1 \in G PROVE i \in G
  <2>1. i \in 0 .. n /\ i # 0 /\ after[i - 1] \in X
    BY <1>2, <1>11
  <2>2. after[i] = PackageNext(after[i - 1], s[i])
    BY <2>1, <1>8
  <2>3. after[i] \in X
    BY <2>1, <2>2
  <2>4. QED BY <2>1, <2>3
<1> HIDE DEF G
<1>12. \A i \in 0 .. n : i \in G
  BY <1>10, <1>11, <1>2, Upto
<1>13. \A i \in 0 .. n : after[i] \in X
  BY <1>12 DEF G
<1>14. after \in [0 .. n -> X]
  BY <1>13, <1>7
<1>15. \A i \in 1 .. n : \A o \in after[i] : \E p \in after[i - 1] : Turn(p, o, W[i])
  <2>1. TAKE i \in 1 .. n
  <2>2. i \in 0 .. n /\ i # 0 /\ i - 1 \in 0 .. n
    BY <1>2
  <2>3. after[i - 1] \in X /\ after[i] = PackageNext(after[i - 1], s[i])
    BY <2>2, <1>8, <1>13
  <2>4. QED BY <2>3
<1>16. after[0] = Returns(r)
  BY <1>9
<1>17. n \in 0 .. n
  BY <1>2
<1>18. O \in SUBSET Outcomes
  BY <1>13, <1>17, <1>1
<1>19. \A o \in after[n] : Gained(o, r, n, W)
  <2> HIDE DEF n
  <2>1. QED BY <1>2, <1>14, <1>15, <1>16, LoopGains
<1>20. QED BY <1>18, <1>19, <1>1

-----------------------------------------------------------------------------
(* The operations of PacmanKey.                                            *)

(* O is a set of outcomes of an operation on r that gains W.               *)
Adds(O, r, W) == O \subseteq Outcomes /\ Gains(O, r, W)

(* The next call after the outcome p ends with o.                          *)
Call(p, o, W) == IF p.ok THEN \E O : Adds(O, p.ring, W) /\ o \in O ELSE o = p

(* Then: what the second operation gains is added to the first one's.      *)
LEMMA ThenAdds ==
  ASSUME NEW A, NEW B, NEW r, NEW V, NEW W, Adds(A, r, V),
         \A o \in B : \E p \in A : Call(p, o, W)
  PROVE  Adds(B, r, V \cup W)
<1>1. ASSUME NEW o \in B
      PROVE  o \in Outcomes /\ r.signed \subseteq o.ring.signed /\ (o.ok => V \cup W \subseteq o.ring.signed)
  <2>1. PICK p \in A : Call(p, o, W)
    OBVIOUS
  <2>2. p \in Outcomes /\ r.signed \subseteq p.ring.signed /\ (p.ok => V \subseteq p.ring.signed)
    BY DEF Adds, Gains
  <2>3. p.ok \in BOOLEAN
    BY <2>2, OutcomeIs
  <2>4. CASE p.ok
    <3>1. PICK O : Adds(O, p.ring, W) /\ o \in O
      BY <2>1, <2>4 DEF Call
    <3>2. o \in Outcomes /\ p.ring.signed \subseteq o.ring.signed /\ (o.ok => W \subseteq o.ring.signed)
      BY <3>1 DEF Adds, Gains
    <3>3. QED BY <2>2, <2>4, <3>2
  <2>5. CASE ~p.ok
    BY <2>1, <2>2, <2>5 DEF Call
  <2>6. QED BY <2>3, <2>4, <2>5
<1>2. QED BY <1>1 DEF Adds, Gains

LEMMA AddsLess ==
  ASSUME NEW O, NEW r, NEW V, NEW W \in SUBSET V, Adds(O, r, V)
  PROVE  Adds(O, r, W)
BY DEF Adds, Gains

LEMMA SwallowAdds ==
  ASSUME NEW O, NEW r, NEW V, Adds(O, r, V)
  PROVE  Adds(Swallow(O), r, {})
<1>1. ASSUME NEW u \in Swallow(O) PROVE u \in Outcomes /\ r.signed \subseteq u.ring.signed
  <2>1. PICK o \in O : u = [ring |-> o.ring, ok |-> TRUE]
    BY DEF Swallow
  <2>2. o.ring \in Rings /\ r.signed \subseteq o.ring.signed
    BY OutcomeIs DEF Adds, Gains
  <2>3. QED BY <2>1, <2>2 DEF Outcomes
<1>2. QED BY <1>1 DEF Adds, Gains

LEMMA SimpleAdds ==
  ASSUME NEW r \in Rings
  PROVE  Adds(Returns(r), r, {}) /\ Adds(Raises(r), r, {})
BY DEF Adds, Gains, Returns, Raises, Outcomes

LEMMA RaisesAdds ==
  ASSUME NEW r \in Rings, NEW W
  PROVE  Adds(Raises(r), r, W)
BY DEF Adds, Gains, Raises, Outcomes

LEMMA GpgAdds ==
  ASSUME NEW r \in Rings, NEW q \in Rings, r.signed \subseteq q.signed,
         NEW W, W \subseteq q.signed
  PROVE  Adds(Gpg(r, q), r, W)
BY DEF Adds, Gains, Gpg, Returns, Raises, Outcomes

LEMMA CreateTrustdbAdds ==
  ASSUME NEW r \in Rings
  PROVE  Adds(CreateTrustdb(r), r, {})
<1>1. [r EXCEPT !.trustdb = TRUE] \in Rings /\ [r EXCEPT !.trustdb = TRUE].signed = r.signed
  BY DEF Rings
<1>2. Adds(Gpg(r, [r EXCEPT !.trustdb = TRUE]), r, {})
  BY <1>1, GpgAdds
<1>3. QED BY <1>2, SimpleAdds DEF CreateTrustdb

LEMMA CreateMasterAdds ==
  ASSUME NEW r \in Rings
  PROVE  Adds(CreateMaster(r), r, {})
<1>1. [r EXCEPT !.master = TRUE] \in Rings /\ [r EXCEPT !.master = TRUE].signed = r.signed
  BY DEF Rings
<1>2. Adds(Gpg(r, [r EXCEPT !.master = TRUE]), r, {})
  BY <1>1, GpgAdds
<1>3. Adds(Gpg(r, r), r, {})
  BY GpgAdds
<1>4. QED BY <1>2, <1>3 DEF CreateMaster

LEMMA InitializeAdds ==
  ASSUME NEW r \in Rings
  PROVE  Adds(Initialize(r), r, {})
<1>1. Adds(CreateTrustdb(r), r, {})
  BY CreateTrustdbAdds
<1>2. ASSUME NEW o \in Initialize(r)
      PROVE  \E p \in CreateTrustdb(r) : Call(p, o, {})
  <2>1. PICK p \in CreateTrustdb(r) : o \in IF p.ok THEN CreateMaster(p.ring) ELSE {p}
    BY DEF Initialize, Then
  <2>2. p.ring \in Rings
    BY <1>1, OutcomeIs DEF Adds
  <2>3. Adds(CreateMaster(p.ring), p.ring, {})
    BY <2>2, CreateMasterAdds
  <2>4. QED BY <2>1, <2>3 DEF Call
<1> DEFINE A == CreateTrustdb(r)
           B == Initialize(r)
           none == {}
<1>3. /\ Adds(A, r, none)
      /\ \A o \in B : \E p \in A : Call(p, o, none)
  BY <1>1, <1>2
<1> HIDE DEF A, B, none
<1>4. Adds(B, r, none \cup none)
  BY <1>3, ThenAdds
<1>5. QED BY <1>4 DEF B, none

LEMMA ImportAdds ==
  ASSUME NEW r \in Rings, NEW S \in SUBSET Keys
  PROVE  Adds(Import(r, S), r, {})
<1> DEFINE q(T) == [r EXCEPT !.public = @ \cup T]
<1>1. ASSUME NEW T \in SUBSET S PROVE q(T) \in Rings /\ q(T).signed = r.signed
  BY DEF Rings
<1>2. Import(r, S) = Returns(q(S)) \cup UNION {Raises(q(T)) : T \in SUBSET S}
  BY DEF Import
<1> HIDE DEF q
<1>3. ASSUME NEW T \in SUBSET S PROVE Adds(Returns(q(T)), r, {}) /\ Adds(Raises(q(T)), r, {})
  <2>1. q(T) \in Rings /\ q(T).signed = r.signed
    BY <1>1
  <2>2. QED BY <2>1 DEF Adds, Gains, Returns, Raises, Outcomes
<1>4. QED BY <1>2, <1>3 DEF Adds, Gains

LEMMA LsignKeyAdds ==
  ASSUME NEW r \in Rings, NEW k \in Keys
  PROVE  Adds(LsignKey(r, k), r, {k})
<1> DEFINE q == [r EXCEPT !.signed = @ \cup {k}]
<1>1. q \in Rings /\ q.signed = r.signed \cup {k}
  BY DEF Rings
<1> HIDE DEF q
<1>2. Adds(Gpg(r, q), r, {k})
  BY <1>1, GpgAdds
<1>3. Adds(Raises(r), r, {k})
  BY RaisesAdds
<1>4. QED BY <1>2, <1>3 DEF LsignKey, q

LEMMA RevokeKeyAdds ==
  ASSUME NEW r \in Rings, NEW k \in Keys
  PROVE  Adds(RevokeKey(r, k), r, {})
<1> DEFINE q == [r EXCEPT !.disabled = @ \cup {k}]
           O == IF k \in r.public THEN Gpg(r, q) ELSE Raises(r)
<1>1. q \in Rings /\ q.signed = r.signed
  BY DEF Rings
<1> HIDE DEF q
<1>2. Adds(Gpg(r, q), r, {}) /\ Adds(Raises(r), r, {})
  BY <1>1, GpgAdds, RaisesAdds
<1>3. Adds(O, r, {})
  BY <1>2
<1> HIDE DEF O
<1>4. Adds(Swallow(O), r, {})
  BY <1>3, SwallowAdds
<1>5. QED BY <1>4 DEF RevokeKey, O, q

(* One call in a loop, after the outcomes x of the calls before it.        *)
LEMMA CallTurns ==
  ASSUME NEW x \in SUBSET Outcomes, NEW B, NEW W,
         \A o \in B : \E p \in x : Call(p, o, W)
  PROVE  B \in SUBSET Outcomes /\ \A o \in B : \E p \in x : Turn(p, o, W)
<1>1. ASSUME NEW o \in B PROVE o \in Outcomes /\ \E p \in x : Turn(p, o, W)
  <2>1. PICK p \in x : Call(p, o, W)
    OBVIOUS
  <2>2. p.ok \in BOOLEAN
    BY OutcomeIs
  <2>3. CASE p.ok
    <3>1. PICK O : Adds(O, p.ring, W) /\ o \in O
      BY <2>1, <2>3 DEF Call
    <3>2. QED BY <3>1, <2>3 DEF Adds, Gains, Turn
  <2>4. CASE ~p.ok
    BY <2>1, <2>4 DEF Turn, Call
  <2>5. QED BY <2>2, <2>3, <2>4
<1>2. QED BY <1>1

(* The loop of Populate over the trusted keys signs them all or raises.    *)
LEMMA SignAll ==
  ASSUME NEW r \in Rings, NEW s \in Seq(Keys)
  PROVE  Adds(ForEach(LsignKey, r, s), r, Range(s))
<1> DEFINE W == [i \in 1 .. Len(s) |-> {s[i]}]
           O == ForEach(LsignKey, r, s)
<1>1. ASSUME NEW x \in SUBSET Outcomes, NEW i \in 1 .. Len(s)
      PROVE  /\ SignNext(x, s[i]) \in SUBSET Outcomes
             /\ \A o \in SignNext(x, s[i]) : \E p \in x : Turn(p, o, W[i])
  <2>1. s[i] \in Keys /\ W[i] = {s[i]}
    BY LenProperties
  <2> DEFINE B == SignNext(x, s[i])
             V == {s[i]}
  <2>2. ASSUME NEW o \in B PROVE \E p \in x : Call(p, o, V)
    <3>1. PICK p \in x : o \in IF p.ok THEN LsignKey(p.ring, s[i]) ELSE {p}
      BY DEF SignNext, Then
    <3>2. p.ring \in Rings
      BY OutcomeIs
    <3>3. Adds(LsignKey(p.ring, s[i]), p.ring, V)
      BY <2>1, <3>2, LsignKeyAdds
    <3>4. QED BY <3>1, <3>3 DEF Call
  <2> HIDE DEF B, V
  <2>3. B \in SUBSET Outcomes /\ \A o \in B : \E p \in x : Turn(p, o, V)
    BY <2>2, CallTurns
  <2>4. QED BY <2>3, <2>1 DEF B, V
<1> HIDE DEF W
<1>2. O \in SUBSET Outcomes /\ \A o \in O : Gained(o, r, Len(s), W)
  BY <1>1, SignLoop
<1>3. Range(s) = {s[i] : i \in 1 .. Len(s)}
  BY LenProperties DEF Range
<1>4. ASSUME NEW o \in O, o.ok PROVE Range(s) \subseteq o.ring.signed
  BY <1>2, <1>3, <1>4 DEF Gained, W
<1>5. QED BY <1>2, <1>4 DEF Adds, Gains, Gained

(* The loop over the revoked keys takes no signature away.                 *)
LEMMA RevokeAll ==
  ASSUME NEW r \in Rings, NEW s \in Seq(Keys)
  PROVE  Adds(ForEach(RevokeKey, r, s), r, {})
<1> DEFINE W == [i \in 1 .. Len(s) |-> {}]
           O == ForEach(RevokeKey, r, s)
<1>1. ASSUME NEW x \in SUBSET Outcomes, NEW i \in 1 .. Len(s)
      PROVE  /\ RevokeNext(x, s[i]) \in SUBSET Outcomes
             /\ \A o \in RevokeNext(x, s[i]) : \E p \in x : Turn(p, o, W[i])
  <2>1. s[i] \in Keys /\ W[i] = {}
    BY LenProperties
  <2> DEFINE B == RevokeNext(x, s[i])
             V == {}
  <2>2. ASSUME NEW o \in B PROVE \E p \in x : Call(p, o, V)
    <3>1. PICK p \in x : o \in IF p.ok THEN RevokeKey(p.ring, s[i]) ELSE {p}
      BY DEF RevokeNext, Then
    <3>2. p.ring \in Rings
      BY OutcomeIs
    <3>3. Adds(RevokeKey(p.ring, s[i]), p.ring, V)
      BY <2>1, <3>2, RevokeKeyAdds
    <3>4. QED BY <3>1, <3>3 DEF Call
  <2> HIDE DEF B, V
  <2>3. B \in SUBSET Outcomes /\ \A o \in B : \E p \in x : Turn(p, o, V)
    BY <2>2, CallTurns
  <2>4. QED BY <2>3, <2>1 DEF B, V
<1> HIDE DEF W
<1>2. O \in SUBSET Outcomes /\ \A o \in O : Gained(o, r, Len(s), W)
  BY <1>1, RevokeLoop
<1>3. QED BY <1>2 DEF Adds, Gains, Gained

(* The calls of Populate after the import, from the last to the first.     *)
Revoking(r, keyring) ==
  Then(ForEach(RevokeKey, r, keyring.revoked), LAMBDA revoked : Gpg(revoked, revoked))
Owning(r, keyring) == Then(Gpg(r, r), LAMBDA owned : Revoking(owned, keyring))
Signing(r, keyring) ==
  Then(ForEach(LsignKey, r, keyring.trusted), LAMBDA trusted : Owning(trusted, keyring))

IsKeyring(keyring) ==
  /\ keyring.keys \subseteq Keys
  /\ keyring.trusted \in Seq(Keys) /\ keyring.revoked \in Seq(Keys)

LEMMA RevokingAdds ==
  ASSUME NEW r \in Rings, NEW keyring, IsKeyring(keyring)
  PROVE  Adds(Revoking(r, keyring), r, {})
<1> DEFINE A == ForEach(RevokeKey, r, keyring.revoked)
           B == Revoking(r, keyring)
           none == {}
<1>1. Adds(A, r, none)
  BY RevokeAll DEF IsKeyring
<1>2. ASSUME NEW o \in B PROVE \E p \in A : Call(p, o, none)
  <2>1. PICK p \in A : o \in IF p.ok THEN Gpg(p.ring, p.ring) ELSE {p}
    BY DEF Revoking, Then
  <2>2. p.ring \in Rings
    BY <1>1, OutcomeIs DEF Adds
  <2>3. Adds(Gpg(p.ring, p.ring), p.ring, none)
    BY <2>2, GpgAdds
  <2>4. QED BY <2>1, <2>3 DEF Call
<1> HIDE DEF A, B, none
<1>3. Adds(B, r, none \cup none)
  BY <1>1, <1>2, ThenAdds
<1>4. QED BY <1>3 DEF B, none

LEMMA OwningAdds ==
  ASSUME NEW r \in Rings, NEW keyring, IsKeyring(keyring)
  PROVE  Adds(Owning(r, keyring), r, {})
<1> DEFINE A == Gpg(r, r)
           B == Owning(r, keyring)
           none == {}
<1>1. Adds(A, r, none)
  BY GpgAdds
<1>2. ASSUME NEW o \in B PROVE \E p \in A : Call(p, o, none)
  <2>1. PICK p \in A : o \in IF p.ok THEN Revoking(p.ring, keyring) ELSE {p}
    BY DEF Owning, Then
  <2>2. p.ring \in Rings
    BY <1>1, OutcomeIs DEF Adds
  <2>3. Adds(Revoking(p.ring, keyring), p.ring, none)
    BY <2>2, RevokingAdds
  <2>4. QED BY <2>1, <2>3 DEF Call
<1> HIDE DEF A, B, none
<1>3. Adds(B, r, none \cup none)
  BY <1>1, <1>2, ThenAdds
<1>4. QED BY <1>3 DEF B, none

LEMMA SigningAdds ==
  ASSUME NEW r \in Rings, NEW keyring, IsKeyring(keyring)
  PROVE  Adds(Signing(r, keyring), r, Range(keyring.trusted))
<1> DEFINE A == ForEach(LsignKey, r, keyring.trusted)
           B == Signing(r, keyring)
           V == Range(keyring.trusted)
           none == {}
<1>1. Adds(A, r, V)
  BY SignAll DEF IsKeyring
<1>2. ASSUME NEW o \in B PROVE \E p \in A : Call(p, o, none)
  <2>1. PICK p \in A : o \in IF p.ok THEN Owning(p.ring, keyring) ELSE {p}
    BY DEF Signing, Then
  <2>2. p.ring \in Rings
    BY <1>1, OutcomeIs DEF Adds
  <2>3. Adds(Owning(p.ring, keyring), p.ring, none)
    BY <2>2, OwningAdds
  <2>4. QED BY <2>1, <2>3 DEF Call
<1> HIDE DEF A, B, V, none
<1>3. Adds(B, r, V \cup none)
  BY <1>1, <1>2, ThenAdds
<1>4. V \cup none = V
  BY DEF none
<1>5. QED BY <1>3, <1>4 DEF B, V

(* A populated keyring's trusted keys are signed.                          *)
LEMMA PopulateAdds ==
  ASSUME NEW r \in Rings, NEW keyring, IsKeyring(keyring)
  PROVE  Adds(Populate(r, keyring), r, Range(keyring.trusted))
<1> DEFINE A == Import(r, keyring.keys)
           B == Populate(r, keyring)
           V == Range(keyring.trusted)
           none == {}
<1>1. Adds(A, r, none)
  BY ImportAdds DEF IsKeyring
<1>2. ASSUME NEW o \in B PROVE \E p \in A : Call(p, o, V)
  <2>1. PICK p \in A : o \in IF p.ok THEN Signing(p.ring, keyring) ELSE {p}
    BY DEF Populate, Signing, Owning, Revoking, Then
  <2>2. p.ring \in Rings
    BY <1>1, OutcomeIs DEF Adds
  <2>3. Adds(Signing(p.ring, keyring), p.ring, V)
    BY <2>2, SigningAdds
  <2>4. QED BY <2>1, <2>3 DEF Call
<1> HIDE DEF A, B, V, none
<1>3. Adds(B, r, none \cup V)
  BY <1>1, <1>2, ThenAdds
<1>4. none \cup V = V
  BY DEF none
<1>5. QED BY <1>3, <1>4 DEF B, V

(* The loop of trust_all signs every key, raises, or was told to go on.    *)
LEMMA TrustLoopAdds ==
  ASSUME NEW r \in Rings, NEW s \in Seq(Keys), NEW fail \in BOOLEAN
  PROVE  Adds(TrustEach(r, s, fail), r, IF fail THEN {} ELSE Range(s))
<1> DEFINE W == [i \in 1 .. Len(s) |-> IF fail THEN {} ELSE {s[i]}]
           O == TrustEach(r, s, fail)
<1>1. ASSUME NEW x \in SUBSET Outcomes, NEW i \in 1 .. Len(s)
      PROVE  /\ TrustNext(x, s[i], fail) \in SUBSET Outcomes
             /\ \A o \in TrustNext(x, s[i], fail) : \E p \in x : Turn(p, o, W[i])
  <2>1. s[i] \in Keys /\ W[i] = IF fail THEN {} ELSE {s[i]}
    BY LenProperties
  <2> DEFINE B == TrustNext(x, s[i], fail)
             V == IF fail THEN {} ELSE {s[i]}
  <2>2. ASSUME NEW o \in B PROVE \E p \in x : Call(p, o, V)
    <3> DEFINE U(r0) == IF fail THEN Swallow(LsignKey(r0, s[i])) ELSE LsignKey(r0, s[i])
    <3>1. PICK p \in x : o \in IF p.ok THEN U(p.ring) ELSE {p}
      BY DEF TrustNext, Then
    <3>2. p.ring \in Rings
      BY OutcomeIs
    <3>3. Adds(U(p.ring), p.ring, V)
      <4> DEFINE T == {s[i]}
                 L == LsignKey(p.ring, s[i])
      <4>1. Adds(L, p.ring, T)
        BY <2>1, <3>2, LsignKeyAdds
      <4> HIDE DEF L, T
      <4>2. Adds(Swallow(L), p.ring, {})
        BY <4>1, SwallowAdds
      <4>3. QED BY <4>1, <4>2 DEF L, T
    <3> HIDE DEF U
    <3>4. QED BY <3>1, <3>3 DEF Call
  <2> HIDE DEF B, V
  <2>3. B \in SUBSET Outcomes /\ \A o \in B : \E p \in x : Turn(p, o, V)
    BY <2>2, CallTurns
  <2>4. QED BY <2>3, <2>1 DEF B, V
<1> HIDE DEF W
<1>2. O \in SUBSET Outcomes /\ \A o \in O : Gained(o, r, Len(s), W)
  BY <1>1, TrustLoop
<1>3. Range(s) = {s[i] : i \in 1 .. Len(s)}
  BY LenProperties DEF Range
<1>4. ASSUME NEW o \in O, o.ok PROVE (IF fail THEN {} ELSE Range(s)) \subseteq o.ring.signed
  BY <1>2, <1>3, <1>4 DEF Gained, W
<1>5. QED BY <1>2, <1>4 DEF Adds, Gains, Gained

(* trust_all: the keys are signed when it returns, unless fail is set.     *)
LEMMA TrustAllAdds ==
  ASSUME NEW r \in Rings, NEW trust \in Seq(Keys), NEW fail \in BOOLEAN
  PROVE  Adds(TrustAll(r, trust, fail), r, IF fail THEN {} ELSE Range(trust))
<1> DEFINE A == Swallow(Import(r, Range(trust)))
           B == TrustAll(r, trust, fail)
           V == IF fail THEN {} ELSE Range(trust)
           none == {}
<1>1. Adds(A, r, none)
  <2>1. Range(trust) \in SUBSET Keys
    BY LenProperties DEF Range
  <2> DEFINE I == Import(r, Range(trust))
  <2>2. Adds(I, r, none)
    BY <2>1, ImportAdds
  <2> HIDE DEF I, none
  <2>3. Adds(Swallow(I), r, {})
    BY <2>2, SwallowAdds
  <2>4. QED BY <2>3 DEF I, none
<1>2. ASSUME NEW o \in B PROVE \E p \in A : Call(p, o, V)
  <2>1. PICK p \in A : o \in IF p.ok THEN TrustEach(p.ring, trust, fail) ELSE {p}
    BY DEF TrustAll, TrustEach, Then
  <2>2. p.ring \in Rings
    BY <1>1, OutcomeIs DEF Adds
  <2>3. Adds(TrustEach(p.ring, trust, fail), p.ring, V)
    BY <2>2, TrustLoopAdds
  <2>4. QED BY <2>1, <2>3 DEF Call
<1> HIDE DEF A, B, V, none
<1>3. Adds(B, r, none \cup V)
  BY <1>1, <1>2, ThenAdds
<1>4. none \cup V = V
  BY DEF none
<1>5. QED BY <1>3, <1>4 DEF B, V

(* One repository of init_keyring.                                         *)
LEMMA RepoKeyAdds ==
  ASSUME NEW r \in Rings, NEW repo, repo.publickey => repo.keyid \in Keys
  PROVE  Adds(RepoKey(r, repo), r, {})
<1> DEFINE none == {}
           T == {repo.keyid}
           WithKey(q) == Then(Import(q, T), Raises)
           Public == Then(Gpg(r, r), WithKey)
           I == Import(r, T)
           Known == Then(I, LAMBDA q : LsignKey(q, repo.keyid))
<1>1. ASSUME repo.keyid \in Keys, NEW q \in Rings PROVE Adds(WithKey(q), q, none)
  <2> DEFINE A == Import(q, T)
             B == WithKey(q)
  <2>1. Adds(A, q, none)
    BY <1>1, ImportAdds
  <2>2. ASSUME NEW o \in B PROVE \E p \in A : Call(p, o, none)
    <3>1. PICK p \in A : o \in IF p.ok THEN Raises(p.ring) ELSE {p}
      BY DEF Then
    <3>2. p.ring \in Rings
      BY <2>1, OutcomeIs DEF Adds
    <3>3. Adds(Raises(p.ring), p.ring, none)
      BY <3>2, RaisesAdds
    <3>4. QED BY <3>1, <3>3 DEF Call
  <2> HIDE DEF A, B, none
  <2>3. Adds(B, q, none \cup none)
    BY <2>1, <2>2, ThenAdds
  <2>4. QED BY <2>3 DEF B, none
<1>2. ASSUME repo.keyid \in Keys PROVE Adds(Public, r, none)
  <2> DEFINE A == Gpg(r, r)
             B == Public
  <2>1. Adds(A, r, none)
    BY GpgAdds
  <2>2. ASSUME NEW o \in B PROVE \E p \in A : Call(p, o, none)
    <3>1. PICK p \in A : o \in IF p.ok THEN WithKey(p.ring) ELSE {p}
      <4> HIDE DEF WithKey
      <4>1. QED BY DEF Then
    <3>2. p.ring \in Rings
      BY <2>1, OutcomeIs DEF Adds
    <3>3. Adds(WithKey(p.ring), p.ring, none)
      BY <3>2, <1>1, <1>2
    <3> HIDE DEF WithKey
    <3>4. QED BY <3>1, <3>3 DEF Call
  <2> HIDE DEF A, B, none
  <2>3. Adds(B, r, none \cup none)
    BY <2>1, <2>2, ThenAdds
  <2>4. QED BY <2>3 DEF B, none
<1>3. ASSUME repo.keyid \in Keys PROVE Adds(Known, r, none)
  <2> DEFINE B == Known
  <2>1. Adds(I, r, none)
    BY <1>3, ImportAdds
  <2>2. ASSUME NEW o \in B PROVE \E p \in I : Call(p, o, T)
    <3>1. PICK p \in I : o \in IF p.ok THEN LsignKey(p.ring, repo.keyid) ELSE {p}
      BY DEF Then
    <3>2. p.ring \in Rings
      BY <2>1, OutcomeIs DEF Adds
    <3>3. Adds(LsignKey(p.ring, repo.keyid), p.ring, T)
      BY <3>2, <1>3, LsignKeyAdds
    <3>4. QED BY <3>1, <3>3 DEF Call
  <2>3. none \subseteq none \cup T
    OBVIOUS
  <2> HIDE DEF I, B, none, T
  <2>4. Adds(B, r, none \cup T)
    BY <2>1, <2>2, ThenAdds
  <2>5. QED BY <2>3, <2>4, AddsLess DEF B
<1>4. Adds(Raises(r), r, none) /\ Adds(Returns(r), r, none)
  BY SimpleAdds
<1>5. RepoKey(r, repo) = IF repo.mirrorlist = "remote" THEN Raises(r)
                         ELSE IF repo.publickey THEN Public
                         ELSE IF repo.keyid \in Keys THEN Known ELSE Returns(r)
  BY DEF RepoKey
<1> HIDE DEF Public, Known, none
<1>6. QED BY <1>2, <1>3, <1>4, <1>5 DEF none

(* The loop of init_keyring takes no signature away.                       *)
LEMMA ConfigAll ==
  ASSUME NEW r \in Rings, NEW s \in Seq(RepoRecs), AllValid
  PROVE  Adds(ForEach(RepoKey, r, s), r, {})
<1> DEFINE W == [i \in 1 .. Len(s) |-> {}]
           O == ForEach(RepoKey, r, s)
<1>1. ASSUME NEW x \in SUBSET Outcomes, NEW i \in 1 .. Len(s)
      PROVE  /\ ConfigNext(x, s[i]) \in SUBSET Outcomes
             /\ \A o \in ConfigNext(x, s[i]) : \E p \in x : Turn(p, o, W[i])
  <2>1. (s[i].publickey => s[i].keyid \in Keys) /\ W[i] = {}
    BY LenProperties, RepoRecIs
  <2> DEFINE B == ConfigNext(x, s[i])
             V == {}
  <2>2. ASSUME NEW o \in B PROVE \E p \in x : Call(p, o, V)
    <3>1. PICK p \in x : o \in IF p.ok THEN RepoKey(p.ring, s[i]) ELSE {p}
      BY DEF ConfigNext, Then
    <3>2. p.ring \in Rings
      BY OutcomeIs
    <3>3. Adds(RepoKey(p.ring, s[i]), p.ring, V)
      BY <2>1, <3>2, RepoKeyAdds
    <3>4. QED BY <3>1, <3>3 DEF Call
  <2> HIDE DEF B, V
  <2>3. B \in SUBSET Outcomes /\ \A o \in B : \E p \in x : Turn(p, o, V)
    BY <2>2, CallTurns
  <2>4. QED BY <2>3, <2>1 DEF B, V
<1> HIDE DEF W
<1>2. O \in SUBSET Outcomes /\ \A o \in O : Gained(o, r, Len(s), W)
  BY <1>1, ConfigLoop
<1>3. QED BY <1>2 DEF Adds, Gains, Gained

LEMMA InitKeyringAdds ==
  ASSUME NEW r \in Rings, AllValid
  PROVE  Adds(InitKeyring(r, RepoConfig), r, {})
<1> DEFINE A == Initialize(r)
           B == Then(Initialize(r), LAMBDA q : ForEach(RepoKey, q, RepoConfig))
           none == {}
<1>1. Adds(A, r, none)
  BY InitializeAdds
<1>2. ASSUME NEW o \in B PROVE \E p \in A : Call(p, o, none)
  <2>1. PICK p \in A : o \in IF p.ok THEN ForEach(RepoKey, p.ring, RepoConfig) ELSE {p}
    BY DEF Then
  <2>2. p.ring \in Rings
    BY <1>1, OutcomeIs DEF Adds
  <2>3. Adds(ForEach(RepoKey, p.ring, RepoConfig), p.ring, none)
    BY <2>2, ConfigAll, RepoConfigIs DEF RepoLists
  <2>4. QED BY <2>1, <2>3 DEF Call
<1> HIDE DEF A, B, none
<1>3. Adds(B, r, none \cup none)
  BY <1>1, <1>2, ThenAdds
<1>4. Adds(Returns(r), r, {})
  BY SimpleAdds
<1>5. QED BY <1>3, <1>4 DEF InitKeyring, B, none

(* A keyring package's trusted keys are signed.                            *)
LEMMA PackageAdds ==
  ASSUME NEW r \in Rings, NEW p
  PROVE  Adds(TrustKeyringPkg(r, p), r, Trusted(p))
<1>1. CASE FileName[p] \notin cache
  <2>1. Adds(Raises(r), r, Trusted(p))
    BY RaisesAdds
  <2>2. QED BY <1>1, <2>1 DEF TrustKeyringPkg
<1>2. CASE FileName[p] \in cache /\ p.name \in DOMAIN KeyringOf
  <2>1. IsKeyring(KeyringOf[p.name])
    BY <1>2, ConfigAssumption DEF IsKeyring
  <2>2. Adds(Populate(r, KeyringOf[p.name]), r, Range(KeyringOf[p.name].trusted))
    BY <2>1, PopulateAdds
  <2>3. QED BY <1>2, <2>2 DEF TrustKeyringPkg, Trusted
<1>3. CASE FileName[p] \in cache /\ p.name \notin DOMAIN KeyringOf
  <2>1. Adds(Returns(r), r, {})
    BY SimpleAdds
  <2>2. QED BY <1>3, <2>1 DEF TrustKeyringPkg, Trusted
<1>4. QED BY <1>1, <1>2, <1>3

(* The packages of a name: all of their trusted keys are signed.           *)
LEMMA PackagesAdd ==
  ASSUME NEW r \in Rings, NEW S, NEW s \in Seq(S)
  PROVE  Adds(ForEach(TrustKeyringPkg, r, s), r, UNION {Trusted(p) : p \in Range(s)})
<1> DEFINE W == [i \in 1 .. Len(s) |-> Trusted(s[i])]
           O == ForEach(TrustKeyringPkg, r, s)
<1>1. ASSUME NEW x \in SUBSET Outcomes, NEW i \in 1 .. Len(s)
      PROVE  /\ PackageNext(x, s[i]) \in SUBSET Outcomes
             /\ \A o \in PackageNext(x, s[i]) : \E p \in x : Turn(p, o, W[i])
  <2>1. W[i] = Trusted(s[i])
    BY LenProperties
  <2> DEFINE B == PackageNext(x, s[i])
             V == Trusted(s[i])
  <2>2. ASSUME NEW o \in B PROVE \E p \in x : Call(p, o, V)
    <3>1. PICK p \in x : o \in IF p.ok THEN TrustKeyringPkg(p.ring, s[i]) ELSE {p}
      BY DEF PackageNext, Then
    <3>2. p.ring \in Rings
      BY OutcomeIs
    <3>3. Adds(TrustKeyringPkg(p.ring, s[i]), p.ring, V)
      BY <2>1, <3>2, PackageAdds
    <3>4. QED BY <3>1, <3>3 DEF Call
  <2> HIDE DEF B, V
  <2>3. B \in SUBSET Outcomes /\ \A o \in B : \E p \in x : Turn(p, o, V)
    BY <2>2, CallTurns
  <2>4. QED BY <2>3, <2>1 DEF B, V
<1> HIDE DEF W
<1>2. O \in SUBSET Outcomes /\ \A o \in O : Gained(o, r, Len(s), W)
  BY <1>1, PackageLoop
<1>3. Range(s) = {s[i] : i \in 1 .. Len(s)}
  BY LenProperties DEF Range
<1>4. ASSUME NEW o \in O, o.ok PROVE UNION {Trusted(p) : p \in Range(s)} \subseteq o.ring.signed
  BY <1>2, <1>3, <1>4 DEF Gained, W
<1>5. QED BY <1>2, <1>4 DEF Adds, Gains, Gained

-----------------------------------------------------------------------------
(* The package names: sequences of packages.                               *)

(* FirstOfName keeps elements of s.                                        *)
LEMMA FirstOfNameIs ==
  ASSUME NEW S, NEW s \in Seq(S)
  PROVE  FirstOfName(s) \in Seq(S)
<1> DEFINE n == Len(s)
           X == Seq(S)
           Next1(x, i) == IF \A j \in 1 .. (i - 1) : s[j].name # s[i].name THEN Append(x, s[i]) ELSE x
           After(k) == [i \in 0 .. n |-> IF i = 0 THEN <<>> ELSE Next1(k[i - 1], i)]
           after == CHOOSE k : k = After(k)
           F == [i \in 1 .. n |-> [x \in X |-> Next1(x, i)]]
           e == <<>>
<1>1. FirstOfName(s) = after[n]
  BY DEF FirstOfName
<1>2. n \in Nat
  BY LenProperties
<1>3. e \in X
  OBVIOUS
<1>4. ASSUME NEW i \in 1 .. n, NEW x \in X PROVE Next1(x, i) \in X
  <2>1. s[i] \in S
    BY LenProperties
  <2>2. QED BY <2>1, AppendProperties
<1> HIDE DEF Next1, X, n
<1>5. F \in [1 .. n -> [X -> X]]
  BY <1>4
<1>6. PICK f \in [0 .. n -> X] : IsLoop(f, n, e, F)
  <2> HIDE DEF F, e
  <2>1. QED BY <1>2, <1>3, <1>5, Loop
<1>7. f = After(f)
  <2>1. ASSUME NEW i \in 0 .. n, i # 0 PROVE F[i][f[i - 1]] = Next1(f[i - 1], i)
    <3>1. i \in 1 .. n /\ i - 1 \in 0 .. n
      BY <2>1, <1>2
    <3>2. f[i - 1] \in X
      <4> HIDE DEF F, e
      <4>1. QED BY <3>1, <1>6
    <3>3. QED BY <3>1, <3>2
  <2> HIDE DEF F
  <2>2. QED BY <2>1, <1>6 DEF IsLoop
<1>8. after = After(after)
  BY <1>7
<1> HIDE DEF after
<1>9. \A i \in 0 .. n : after[i] = IF i = 0 THEN e ELSE Next1(after[i - 1], i)
  BY <1>8
<1> HIDE DEF e
<1> DEFINE G == {i \in 0 .. n : after[i] \in X}
<1>10. 0 \in G
  <2>1. 0 \in 0 .. n
    BY <1>2
  <2>2. after[0] = e
    BY <2>1, <1>9
  <2>3. QED BY <2>1, <2>2, <1>3
<1>11. ASSUME NEW i \in 1 .. n, i - 1 \in G PROVE i \in G
  <2>1. i \in 0 .. n /\ i # 0 /\ after[i - 1] \in X
    BY <1>2, <1>11
  <2>2. after[i] = Next1(after[i - 1], i)
    BY <2>1, <1>9
  <2>3. after[i] \in X
    BY <2>1, <2>2, <1>4
  <2>4. QED BY <2>1, <2>3
<1> HIDE DEF G
<1>12. \A i \in 0 .. n : i \in G
  BY <1>10, <1>11, <1>2, Upto
<1>13. n \in 0 .. n
  BY <1>2
<1>14. QED BY <1>12, <1>13, <1>1 DEF G, X

LEMMA ReposAre == Repos \in Seq(Dbs) /\ AnyDb \notin Dbs /\ FileDb \notin Dbs
BY RepoAssumption DEF IsSequence, Dbs

LEMMA GetPkgIs ==
  ASSUME NEW r \in Dbs, NEW m
  PROVE  GetPkg(r, m) \in Seq(SyncPkgs)
<1>1. m \in Sync[r] => Named(r, m) \in SyncPkgs
  BY DEF SyncPkgs
<1>2. QED BY <1>1 DEF GetPkg

(* A name in every database.                                               *)
LEMMA InEveryDbIs ==
  ASSUME NEW m
  PROVE  InEveryDb(m) \in Seq(SyncPkgs)
<1> DEFINE n == Len(Repos)
           X == Seq(SyncPkgs)
           Next1(x, i) == x \o GetPkg(Repos[i], m)
           After(k) == [i \in 0 .. n |-> IF i = 0 THEN <<>> ELSE Next1(k[i - 1], i)]
           after == CHOOSE k : k = After(k)
           F == [i \in 1 .. n |-> [x \in X |-> Next1(x, i)]]
           e == <<>>
<1>1. InEveryDb(m) = after[n]
  BY DEF InEveryDb
<1>2. n \in Nat
  BY LenProperties, ReposAre
<1>3. e \in X
  OBVIOUS
<1>4. ASSUME NEW i \in 1 .. n, NEW x \in X PROVE Next1(x, i) \in X
  <2>1. Repos[i] \in Dbs
    BY LenProperties, ReposAre
  <2>2. GetPkg(Repos[i], m) \in Seq(SyncPkgs)
    BY <2>1, GetPkgIs
  <2>3. QED BY <2>2, ConcatProperties
<1> HIDE DEF Next1, X, n
<1>5. F \in [1 .. n -> [X -> X]]
  BY <1>4
<1>6. PICK f \in [0 .. n -> X] : IsLoop(f, n, e, F)
  <2> HIDE DEF F, e
  <2>1. QED BY <1>2, <1>3, <1>5, Loop
<1>7. f = After(f)
  <2>1. ASSUME NEW i \in 0 .. n, i # 0 PROVE F[i][f[i - 1]] = Next1(f[i - 1], i)
    <3>1. i \in 1 .. n /\ i - 1 \in 0 .. n
      BY <2>1, <1>2
    <3>2. f[i - 1] \in X
      <4> HIDE DEF F, e
      <4>1. QED BY <3>1, <1>6
    <3>3. QED BY <3>1, <3>2
  <2> HIDE DEF F
  <2>2. QED BY <2>1, <1>6 DEF IsLoop
<1>8. after = After(after)
  BY <1>7
<1> HIDE DEF after
<1>9. \A i \in 0 .. n : after[i] = IF i = 0 THEN e ELSE Next1(after[i - 1], i)
  BY <1>8
<1> HIDE DEF e
<1> DEFINE G == {i \in 0 .. n : after[i] \in X}
<1>10. 0 \in G
  <2>1. 0 \in 0 .. n
    BY <1>2
  <2>2. after[0] = e
    BY <2>1, <1>9
  <2>3. QED BY <2>1, <2>2, <1>3
<1>11. ASSUME NEW i \in 1 .. n, i - 1 \in G PROVE i \in G
  <2>1. i \in 0 .. n /\ i # 0 /\ after[i - 1] \in X
    BY <1>2, <1>11
  <2>2. after[i] = Next1(after[i - 1], i)
    BY <2>1, <1>9
  <2>3. after[i] \in X
    BY <2>1, <2>2, <1>4
  <2>4. QED BY <2>1, <2>3
<1> HIDE DEF G
<1>12. \A i \in 0 .. n : i \in G
  BY <1>10, <1>11, <1>2, Upto
<1>13. n \in 0 .. n
  BY <1>2
<1>14. QED BY <1>12, <1>13, <1>1 DEF G, X

LEMMA MembersIs ==
  ASSUME NEW g
  PROVE  Members(g) \in Seq(SyncPkgs)
<1> DEFINE S == {p \in SyncPkgs : g \in Groups[p] /\ p = Head(InEveryDb(p.name))}
<1>1. Members(g) = SetToSeq(S)
  BY DEF Members
<1>2. S \in SUBSET SyncPkgs /\ IsFiniteSet(SyncPkgs)
  BY RepoAssumption
<1> HIDE DEF S
<1>3. IsFiniteSet(S)
  BY <1>2, FS_Subset
<1>4. Cardinality(S) \in Nat /\ ExistsBijection(1 .. Cardinality(S), S)
  BY <1>3, FS_CardinalityType
<1>5. \E f \in [1 .. Cardinality(S) -> S] : IsInjective(f)
  BY <1>4 DEF ExistsBijection, Bijection, Injection
<1>6. SetToSeq(S) \in [1 .. Cardinality(S) -> S]
  BY <1>5 DEF SetToSeq
<1>7. SetToSeq(S) \in Seq(S)
  BY <1>4, <1>6, SeqDef
<1>8. QED BY <1>1, <1>2, <1>7, SeqMonotonic

LEMMA SatisfyingIs ==
  ASSUME NEW m
  PROVE  /\ Satisfying(m) \in Seq(SyncPkgs)
         /\ Satisfying(m) # <<>> => Satisfying(m) = <<Satisfying(m)[1]>>
<1> DEFINE T == {r \in Dbs : Satisfiers(r, m) # {}}
           dbs == Those(Repos, T)
           p == CHOOSE q \in Satisfiers(Head(dbs), m) : TRUE
<1>1. dbs \in Seq(Dbs \cap T)
  BY ReposAre, ThoseIs
<1>2. ASSUME dbs # <<>> PROVE p \in SyncPkgs
  <2>1. Head(dbs) \in T
    <3> HIDE DEF T, dbs
    <3>1. QED BY <1>1, <1>2, HeadTailProperties
  <2>2. p \in Satisfiers(Head(dbs), m) /\ Head(dbs) \in Dbs
    BY <2>1
  <2>3. ASSUME NEW r \in Dbs PROVE Satisfiers(r, m) \subseteq SyncPkgs
    BY DEF Satisfiers, SyncPkgs
  <2> HIDE DEF p
  <2>4. QED BY <2>2, <2>3
<1>3. Satisfying(m) = IF dbs = <<>> THEN <<>> ELSE <<p>>
  BY DEF Satisfying
<1> HIDE DEF p, dbs
<1>4. QED BY <1>2, <1>3

(* What package_map remembers is what a search would find.                 *)
Remembers(map) ==
  \A m \in DOMAIN map : Satisfying(m) # <<>> /\ map[m] = Satisfying(m)[1]

LEMMA DirectIs == ASSUME NEW t PROVE Direct(t) \in Seq(SyncPkgs)
<1>1. Members(t.name) \o InEveryDb(t.name) \in Seq(SyncPkgs)
  BY MembersIs, InEveryDbIs, ConcatProperties
<1>2. t.db \in Dbs => GetPkg(t.db, t.name) \in Seq(SyncPkgs)
  BY GetPkgIs
<1>3. QED BY <1>1, <1>2 DEF Direct

(* lookup_package finds the same packages whatever is remembered.          *)
LEMMA LookupIs ==
  ASSUME NEW t, NEW map, Remembers(map)
  PROVE  /\ Lookup(t, map).pkgs = Lookup(t, <<>>).pkgs
         /\ Remembers(Lookup(t, map).map)
<1> DEFINE s == Satisfying(t.name)
<1>1. CASE t.db = FileDb \/ Direct(t) # <<>> \/ t.db \notin Dbs \cup {AnyDb}
  BY <1>1 DEF Lookup
<1>2. CASE ~(t.db = FileDb \/ Direct(t) # <<>> \/ t.db \notin Dbs \cup {AnyDb})
  <2>1. t.name \notin DOMAIN <<>>
    OBVIOUS
  <2>2. Lookup(t, <<>>).pkgs = s
    BY <1>2, <2>1 DEF Lookup
  <2>3. CASE t.name \in DOMAIN map
    <3>1. Lookup(t, map) = [pkgs |-> <<map[t.name]>>, map |-> map]
      BY <1>2, <2>3 DEF Lookup
    <3>2. s # <<>> /\ map[t.name] = s[1]
      BY <2>3 DEF Remembers
    <3>3. s = <<map[t.name]>>
      BY <3>2, SatisfyingIs
    <3>4. QED BY <3>1, <3>3, <2>2
  <2>4. CASE t.name \notin DOMAIN map
    <3>1. Lookup(t, map) = [pkgs |-> s, map |-> IF s = <<>> THEN map ELSE Remember(map, t.name, s[1])]
      BY <1>2, <2>4 DEF Lookup
    <3> HIDE DEF s
    <3>2. s # <<>> => Remembers(Remember(map, t.name, s[1]))
      BY DEF Remembers, Remember, s
    <3>3. QED BY <3>1, <3>2, <2>2
  <2>5. QED BY <2>3, <2>4
<1>3. QED BY <1>1, <1>2

LEMMA LookupPkgs ==
  ASSUME NEW t, t.db = FileDb => t \in Files
  PROVE  /\ Lookup(t, <<>>).pkgs \in Seq(Pkgs)
         /\ Meant(t) \subseteq Pkgs
<1> DEFINE s == Lookup(t, <<>>).pkgs
<1>1. \A u : u \in Seq(SyncPkgs) => u \in Seq(Pkgs)
  BY SeqMonotonic DEF Pkgs
<1>2. Direct(t) \in Seq(Pkgs) /\ Satisfying(t.name) \in Seq(Pkgs)
  BY <1>1, DirectIs, SatisfyingIs
<1>3. t.name \notin DOMAIN <<>>
  OBVIOUS
<1>4. t.db = FileDb => <<t>> \in Seq(Pkgs)
  BY DEF Pkgs
<1>5. s \in Seq(Pkgs)
  <2>1. CASE t.db = FileDb
    <3>1. s = <<t>>
      BY <2>1 DEF Lookup
    <3>2. QED BY <3>1, <2>1, <1>4
  <2>2. CASE t.db # FileDb /\ Direct(t) # <<>>
    <3>1. s = Direct(t)
      BY <2>2 DEF Lookup
    <3>2. QED BY <3>1, <1>2
  <2>3. CASE t.db # FileDb /\ Direct(t) = <<>>
    <3>1. s = <<>> \/ s = Satisfying(t.name)
      BY <2>3, <1>3 DEF Lookup
    <3>2. <<>> \in Seq(Pkgs)
      OBVIOUS
    <3>3. QED BY <3>1, <3>2, <1>2
  <2>4. QED BY <2>1, <2>2, <2>3
<1> HIDE DEF s
<1>6. Range(s) \subseteq Pkgs
  BY <1>5, LenProperties DEF Range
<1>7. QED BY <1>5, <1>6 DEF s, Meant

-----------------------------------------------------------------------------
(* No package before its keys.                                             *)

(* where the packages are installed                                        *)
Installing == {"install", "walk", "download", "uninstall", "replace", "done"}

(* A walk is a record; changing fields leaves it one.                      *)
IsRecord(w) == w = [todo |-> w.todo, tree |-> w.tree, map |-> w.map]

LEMMA RecordIn ==
  ASSUME NEW w, IsRecord(w), NEW A, NEW B, NEW C, w.todo \in A, w.tree \in B, w.map \in C
  PROVE  w \in [todo : A, tree : B, map : C]
<1> DEFINE v == [todo |-> w.todo, tree |-> w.tree, map |-> w.map]
<1>1. v \in [todo : A, tree : B, map : C]
  OBVIOUS
<1>2. w = v
  BY DEF IsRecord
<1> HIDE DEF v
<1>3. QED BY <1>1, <1>2

LEMMA ExceptTodo ==
  ASSUME NEW w, IsRecord(w), NEW x
  PROVE  LET v == [w EXCEPT !.todo = x]
         IN  IsRecord(v) /\ v.todo = x /\ v.tree = w.tree /\ v.map = w.map
<1> DEFINE A == {w.todo, x}
           B == {w.tree}
           C == {w.map}
           v == [w EXCEPT !.todo = x]
<1>1. w.todo \in A /\ w.tree \in B /\ w.map \in C /\ x \in A
  OBVIOUS
<1> HIDE DEF A, B, C
<1>2. w \in [todo : A, tree : B, map : C]
  BY <1>1, RecordIn
<1>3. /\ v \in [todo : A, tree : B, map : C]
      /\ v.todo = x /\ v.tree = w.tree /\ v.map = w.map
  BY <1>1, <1>2
<1>4. IsRecord(v)
  <2> HIDE DEF v
  <2>1. QED BY <1>3 DEF IsRecord
<1>5. QED BY <1>3, <1>4

WithMap(w, x, y) == [w EXCEPT !.todo = x, !.map = y]
WithTree(w, x, y) == [w EXCEPT !.todo = x, !.tree = y]

LEMMA ExceptMap ==
  ASSUME NEW w, IsRecord(w), NEW x, NEW y
  PROVE  LET v == WithMap(w, x, y)
         IN  IsRecord(v) /\ v.todo = x /\ v.tree = w.tree /\ v.map = y
<1> DEFINE A == {w.todo, x}
           B == {w.tree}
           C == {w.map, y}
           v == WithMap(w, x, y)
<1>1. w.todo \in A /\ w.tree \in B /\ w.map \in C /\ x \in A /\ y \in C
  OBVIOUS
<1> HIDE DEF A, B, C
<1>2. w \in [todo : A, tree : B, map : C]
  BY <1>1, RecordIn
<1>3. /\ v \in [todo : A, tree : B, map : C]
      /\ v.todo = x /\ v.tree = w.tree /\ v.map = y
  BY <1>1, <1>2 DEF WithMap
<1>4. IsRecord(v)
  <2> HIDE DEF v
  <2>1. QED BY <1>3 DEF IsRecord
<1>5. QED BY <1>3, <1>4

LEMMA ExceptTree ==
  ASSUME NEW w, IsRecord(w), NEW x, NEW y
  PROVE  LET v == WithTree(w, x, y)
         IN  IsRecord(v) /\ v.todo = x /\ v.tree = y /\ v.map = w.map
<1> DEFINE A == {w.todo, x}
           B == {w.tree, y}
           C == {w.map}
           v == WithTree(w, x, y)
<1>1. w.todo \in A /\ w.tree \in B /\ w.map \in C /\ x \in A /\ y \in B
  OBVIOUS
<1> HIDE DEF A, B, C
<1>2. w \in [todo : A, tree : B, map : C]
  BY <1>1, RecordIn
<1>3. /\ v \in [todo : A, tree : B, map : C]
      /\ v.todo = x /\ v.tree = y /\ v.map = w.map
  BY <1>1, <1>2 DEF WithTree
<1>4. IsRecord(v)
  <2> HIDE DEF v
  <2>1. QED BY <1>3 DEF IsRecord
<1>5. QED BY <1>3, <1>4

LEMMA ExceptMapOnly ==
  ASSUME NEW w, IsRecord(w), NEW y
  PROVE  LET v == [w EXCEPT !.map = y]
         IN  IsRecord(v) /\ v.map = y
<1> DEFINE A == {w.todo}
           B == {w.tree}
           C == {w.map, y}
           v == [w EXCEPT !.map = y]
<1>1. w.todo \in A /\ w.tree \in B /\ w.map \in C /\ y \in C
  OBVIOUS
<1> HIDE DEF A, B, C
<1>2. w \in [todo : A, tree : B, map : C]
  BY <1>1, RecordIn
<1>3. v \in [todo : A, tree : B, map : C] /\ v.map = y
  BY <1>1, <1>2
<1>4. IsRecord(v)
  <2> HIDE DEF v
  <2>1. QED BY <1>3 DEF IsRecord
<1>5. QED BY <1>3, <1>4

IsWalk(w) == IsRecord(w) /\ Remembers(w.map)

KeyringSigned(i, r) == \A p \in Meant(Keyrings[i]) : Trusted(p) \subseteq r.signed
AllSigned(r) == \A i \in 1 .. Len(Keyrings) : KeyringSigned(i, r)

(* What is signed where the run is: of the keyrings those before the turn, *)
(* then all, and in the end what the configuration trusts as well.         *)
SignedSoFar ==
  gpgcheck => /\ pc = "populate" => \A i \in 1 .. Len(Keyrings) : i < at => KeyringSigned(i, ring)
              /\ pc \in Installing \cup {"trustagain"} => AllSigned(ring)
              /\ pc \in Installing => Range(Trust) \subseteq ring.signed

(* The loop over the keyrings is entered with a keyring and stays within.  *)
KeyringTurn ==
  /\ pc = "keyrings" => Keyrings # <<>>
  /\ pc = "populate" => at =< Len(Keyrings)

KeysInv ==
  /\ ring \in Rings
  /\ IsWalk(walk)
  /\ at \in Nat \ {0}
  /\ gpgcheck \in BOOLEAN
  /\ KeyringTurn
  /\ SignedSoFar

LEMMA KeyringsAre ==
  /\ Keyrings \in Seq(Range(Install))
  /\ \A t \in Range(Install) : t.db = FileDb => t \in Files
<1>1. Install \in Seq(Range(Install))
  BY ConfigAssumption DEF IsSequence
<1> DEFINE T == {t \in Range(Install) : t.name \in DOMAIN KeyringOf}
<1>2. Those(Install, T) \in Seq(Range(Install) \cap T)
  BY <1>1, ThoseIs
<1>3. Those(Install, T) \in Seq(Range(Install))
  <2> HIDE DEF T
  <2>1. QED BY <1>2, SeqMonotonic
<1>4. QED BY <1>3, ConfigAssumption DEF Keyrings

(* A remembered signature stays when the keyring grows.                    *)
LEMMA SignedGrows ==
  ASSUME NEW r, NEW q, r.signed \subseteq q.signed
  PROVE  /\ \A i : KeyringSigned(i, r) => KeyringSigned(i, q)
         /\ AllSigned(r) => AllSigned(q)
         /\ Range(Trust) \subseteq r.signed => Range(Trust) \subseteq q.signed
BY DEF KeyringSigned, AllSigned

LEMMA StartWalkIs ==
  ASSUME NEW names, NEW map, Remembers(map)
  PROVE  IsWalk(StartWalk(names, map))
<1> DEFINE v == Visit("name", names)
<1>1. StartWalk(names, map) = [todo |-> v, tree |-> <<>>, map |-> map]
  BY DEF StartWalk
<1> HIDE DEF v
<1>2. QED BY <1>1 DEF IsWalk, IsRecord

LEMMA VisitNameIs ==
  ASSUME NEW w, IsWalk(w), NEW t
  PROVE  /\ IsWalk(VisitName(t, w))
         /\ VisitName(t, w).tree = w.tree
         /\ VisitName(t, w).todo =
              IF t.db \notin {AnyDb, FileDb} /\ t \in Range(w.tree) THEN Tail(w.todo)
              ELSE Visit("package", Lookup(t, <<>>).pkgs) \o Tail(w.todo)
<1> DEFINE rest == Tail(w.todo)
           found == Lookup(t, w.map)
           new == Visit("package", found.pkgs) \o rest
           m == found.map
           skipped == [w EXCEPT !.todo = rest]
           visited == WithMap(w, new, m)
<1>1. Remembers(w.map) /\ IsRecord(w)
  BY DEF IsWalk
<1>2. found.pkgs = Lookup(t, <<>>).pkgs /\ Remembers(m)
  BY <1>1, LookupIs
<1>3. new = Visit("package", Lookup(t, <<>>).pkgs) \o rest
  BY <1>2
<1>4. VisitName(t, w) = IF t.db \notin {AnyDb, FileDb} /\ t \in Range(w.tree) THEN skipped ELSE visited
  BY DEF VisitName, WithMap
<1> HIDE DEF rest, found, new, m
<1>5. IsRecord(skipped) /\ skipped.todo = rest /\ skipped.tree = w.tree /\ skipped.map = w.map
  BY <1>1, ExceptTodo
<1>6. IsRecord(visited) /\ visited.todo = new /\ visited.tree = w.tree /\ visited.map = m
  BY <1>1, ExceptMap
<1> HIDE DEF skipped, visited
<1>7. QED BY <1>1, <1>2, <1>3, <1>4, <1>5, <1>6 DEF IsWalk, rest

LEMMA VisitPackageIs ==
  ASSUME NEW w, IsWalk(w), NEW p
  PROVE  /\ IsWalk(VisitPackage(p, w))
         /\ p \in Range(w.tree) => VisitPackage(p, w).tree = w.tree /\ VisitPackage(p, w).todo = Tail(w.todo)
         /\ p \notin Range(w.tree) => /\ VisitPackage(p, w).tree = Append(w.tree, p)
                                      /\ VisitPackage(p, w).todo = Visit("name", Depends[p]) \o Tail(w.todo)
<1> DEFINE rest == Tail(w.todo)
           new == Visit("name", Depends[p]) \o rest
           longer == Append(w.tree, p)
           skipped == [w EXCEPT !.todo = rest]
           visited == WithTree(w, new, longer)
<1>1. Remembers(w.map) /\ IsRecord(w)
  BY DEF IsWalk
<1>2. VisitPackage(p, w) = IF p \in Range(w.tree) THEN skipped ELSE visited
  BY DEF VisitPackage, WithTree
<1> HIDE DEF rest, new, longer
<1>3. IsRecord(skipped) /\ skipped.todo = rest /\ skipped.tree = w.tree /\ skipped.map = w.map
  BY <1>1, ExceptTodo
<1>4. IsRecord(visited) /\ visited.todo = new /\ visited.tree = longer /\ visited.map = w.map
  BY <1>1, ExceptTree
<1> HIDE DEF skipped, visited
<1>5. QED BY <1>1, <1>2, <1>3, <1>4 DEF IsWalk, rest, new, longer


(* An operation on the keyring, in the run: what an outcome of it has.      *)
LEMMA OutcomeHas ==
  ASSUME ring \in Rings, NEW O, NEW W, Adds(O, ring, W), NEW o \in O
  PROVE  /\ o.ring \in Rings /\ o.ok \in BOOLEAN
         /\ ring.signed \subseteq o.ring.signed
         /\ o.ok => W \subseteq o.ring.signed
<1>1. o \in Outcomes
  BY DEF Adds
<1>2. QED BY <1>1, OutcomeIs DEF Adds, Gains

(* A step that does not enter the part of the run the keys are for.        *)
LEMMA QuietStep ==
  ASSUME KeysInv, ring' \in Rings, ring.signed \subseteq ring'.signed, IsWalk(walk'),
         at' \in Nat \ {0}, gpgcheck' = gpgcheck,
         pc' \notin {"keyrings", "populate", "trustagain"}, pc' \in Installing => pc \in Installing
  PROVE  KeysInv'
<1>1. KeyringTurn'
  BY DEF KeyringTurn
<1>2. SignedSoFar'
  <2>1. SUFFICES ASSUME gpgcheck, pc \in Installing PROVE AllSigned(ring') /\ Range(Trust) \subseteq ring'.signed
    BY DEF SignedSoFar, Installing, AllSigned, KeyringSigned
  <2>2. AllSigned(ring) /\ Range(Trust) \subseteq ring.signed
    BY <2>1 DEF KeysInv, SignedSoFar
  <2>3. QED BY <2>2, SignedGrows
<1>3. QED BY <1>1, <1>2 DEF KeysInv

(* A step that raises, and one that leaves the keyring and the place.      *)
LEMMA FailStep ==
  ASSUME KeysInv, ring' \in Rings, ring.signed \subseteq ring'.signed, IsWalk(walk'),
         gpgcheck' = gpgcheck, Fail
  PROVE  KeysInv'
BY QuietStep DEF Fail, Goto, Installing

LEMMA SameStep ==
  ASSUME KeysInv, UNCHANGED <<ring, pc, at, walk, gpgcheck>>
  PROVE  KeysInv'
BY DEF KeysInv, IsWalk, IsRecord, Remembers, KeyringTurn, SignedSoFar, AllSigned, KeyringSigned

(* The steps that change the keyring.                                      *)
LEMMA InitKeyringKeeps ==
  ASSUME KeysInv, DoInitKeyring
  PROVE  KeysInv'
<1> DEFINE O == IF ~AllValid THEN Raises(ring)
                ELSE IF gpgcheck THEN InitKeyring(ring, RepoConfig)
                ELSE Returns(ring)
           none == {}
<1>1. ring \in Rings /\ gpgcheck \in BOOLEAN
  BY DEF KeysInv
<1>2. Adds(O, ring, none)
  BY <1>1, InitKeyringAdds, SimpleAdds
<1> HIDE DEF O, none
<1>3. PICK o \in O : ring' = o.ring /\ IF o.ok THEN Goto("trust") ELSE Fail
  BY DEF DoInitKeyring, Keyring, O
<1>4. ring' \in Rings /\ ring.signed \subseteq ring'.signed /\ o.ok \in BOOLEAN
  BY <1>1, <1>2, <1>3, OutcomeHas
<1>5. at' \in Nat \ {0} /\ pc' \in {"trust", "failed"}
  BY <1>3, <1>4 DEF Goto, Fail
<1>6. walk' = walk /\ gpgcheck' = gpgcheck /\ IsWalk(walk)
  BY DEF DoInitKeyring, options, KeysInv
<1>7. IsWalk(walk')
  BY <1>6
<1>8. pc' \notin {"keyrings", "populate", "trustagain"} \cup Installing
  BY <1>5 DEF Installing
<1>9. QED BY <1>4, <1>5, <1>6, <1>7, <1>8, QuietStep

LEMMA TrustAllKeeps ==
  ASSUME KeysInv, DoTrustAll
  PROVE  KeysInv'
<1> DEFINE fail == pc = "trust"
           O == IF gpgcheck THEN TrustAll(ring, Trust, fail) ELSE Returns(ring)
           W == IF gpgcheck /\ ~fail THEN Range(Trust) ELSE {}
           next == IF fail THEN "databases" ELSE "install"
<1>1. ring \in Rings /\ gpgcheck \in BOOLEAN /\ Trust \in Seq(Keys)
  BY ConfigAssumption DEF KeysInv
<1>2. Adds(O, ring, W)
  <2>1. Adds(TrustAll(ring, Trust, fail), ring, IF fail THEN {} ELSE Range(Trust))
    BY <1>1, TrustAllAdds
  <2>2. Adds(Returns(ring), ring, {})
    BY <1>1, SimpleAdds
  <2>3. QED BY <1>1, <2>1, <2>2
<1>3. PICK o \in O : ring' = o.ring /\ IF o.ok THEN Goto(next) ELSE Fail
  BY DEF DoTrustAll, Keyring
<1> HIDE DEF O
<1>4. /\ ring' \in Rings /\ ring.signed \subseteq ring'.signed
      /\ o.ok \in BOOLEAN /\ (o.ok => W \subseteq ring'.signed)
  <2> HIDE DEF W
  <2>1. QED BY <1>1, <1>2, <1>3, OutcomeHas
<1>5. walk' = walk /\ gpgcheck' = gpgcheck /\ IsWalk(walk) /\ pc \in {"trust", "trustagain"}
  BY DEF DoTrustAll, options, KeysInv
<1>6. IsWalk(walk')
  BY <1>5
<1>7. CASE ~o.ok
  BY <1>3, <1>4, <1>5, <1>6, <1>7, FailStep
<1>8. CASE o.ok /\ fail
  <2>1. pc' = "databases" /\ at' = 1
    BY <1>3, <1>8 DEF Goto
  <2>2. QED BY <1>4, <1>5, <1>6, <2>1, QuietStep DEF Installing
<1>9. CASE o.ok /\ ~fail
  <2>1. pc = "trustagain" /\ pc' = "install" /\ at' = 1
    BY <1>3, <1>5, <1>9 DEF Goto
  <2>2. gpgcheck => AllSigned(ring) /\ Range(Trust) \subseteq ring'.signed
    BY <1>4, <1>9, <2>1 DEF KeysInv, SignedSoFar
  <2>3. gpgcheck' => AllSigned(ring') /\ Range(Trust) \subseteq ring'.signed
    BY <1>4, <1>5, <2>2, SignedGrows
  <2>4. SignedSoFar'
    BY <2>1, <2>3 DEF SignedSoFar, AllSigned, KeyringSigned
  <2>5. KeyringTurn'
    BY <2>1 DEF KeyringTurn
  <2>6. QED BY <1>1, <1>4, <1>5, <1>6, <2>1, <2>4, <2>5 DEF KeysInv
<1>10. QED BY <1>4, <1>7, <1>8, <1>9

(* The packages of the next keyring name: their keys are signed, or it      *)
(* raises, and the turns before stay signed.                                *)
LEMMA TrustKeyringKeeps ==
  ASSUME KeysInv, TrustKeyring
  PROVE  KeysInv'
<1> DEFINE t == Keyrings[at]
           found == Lookup(t, walk.map)
           O == IF found.pkgs = <<>> THEN Raises(ring) ELSE ForEach(TrustKeyringPkg, ring, found.pkgs)
           W == UNION {Trusted(p) : p \in Meant(t)}
           m == found.map
           w == [walk EXCEPT !.map = m]
<1>1. /\ ring \in Rings /\ IsWalk(walk) /\ at \in 1 .. Len(Keyrings) /\ pc = "populate"
      /\ gpgcheck' = gpgcheck
  <2>1. Len(Keyrings) \in Nat
    BY KeyringsAre, LenProperties
  <2>2. QED BY <2>1 DEF KeysInv, KeyringTurn, TrustKeyring, options
<1>2. IsRecord(walk) /\ Remembers(walk.map)
  BY <1>1 DEF IsWalk
<1>3. found.pkgs = Lookup(t, <<>>).pkgs /\ Remembers(m)
  BY <1>2, LookupIs
<1>4. Lookup(t, <<>>).pkgs \in Seq(Pkgs)
  <2>1. t \in Range(Install)
    BY <1>1, KeyringsAre, LenProperties
  <2>2. t.db = FileDb => t \in Files
    BY <2>1, KeyringsAre
  <2>3. QED BY <2>2, LookupPkgs
<1>5. Adds(O, ring, W)
  <2>1. CASE found.pkgs = <<>>
    <3> HIDE DEF W, found
    <3>1. Adds(Raises(ring), ring, W)
      BY <1>1, RaisesAdds
    <3>2. QED BY <2>1, <3>1
  <2>2. CASE found.pkgs # <<>>
    <3>1. Range(found.pkgs) = Meant(t) /\ found.pkgs \in Seq(Pkgs)
      BY <1>3, <1>4 DEF Meant
    <3>2. UNION {Trusted(p) : p \in Range(found.pkgs)} = W
      BY <3>1
    <3> HIDE DEF W, found
    <3>3. Adds(ForEach(TrustKeyringPkg, ring, found.pkgs), ring, W)
      BY <1>1, <3>1, <3>2, PackagesAdd
    <3>4. QED BY <2>2, <3>3
  <2>3. QED BY <2>1, <2>2
<1>6. PICK o \in O : /\ ring' = o.ring
                     /\ IF o.ok THEN IF at < Len(Keyrings) THEN at' = at + 1 /\ UNCHANGED <<pc, tries>>
                                     ELSE Goto("trustagain")
                        ELSE Fail
  BY DEF TrustKeyring, Keyring
<1>7. walk' = w
  BY DEF TrustKeyring
<1> HIDE DEF O, W
<1>8. /\ ring' \in Rings /\ ring.signed \subseteq ring'.signed
      /\ o.ok \in BOOLEAN /\ (o.ok => W \subseteq ring'.signed)
  BY <1>1, <1>5, <1>6, OutcomeHas
<1>9. IsWalk(walk')
  <2> HIDE DEF m
  <2>1. IsRecord(w) /\ w.map = m
    BY <1>2, ExceptMapOnly
  <2> HIDE DEF w
  <2>2. QED BY <1>3, <1>7, <2>1 DEF IsWalk
<1>10. CASE ~o.ok
  <2>1. Fail
    BY <1>6, <1>10
  <2>2. QED BY <1>1, <1>8, <1>9, <2>1, FailStep
<1>11. CASE o.ok
  <2>1. ASSUME gpgcheck, NEW i \in 1 .. Len(Keyrings), i =< at PROVE KeyringSigned(i, ring')
    <3>1. CASE i < at
      <4>1. KeyringSigned(i, ring)
        BY <1>1, <2>1, <3>1 DEF KeysInv, SignedSoFar
      <4>2. QED BY <4>1, <1>8, SignedGrows
    <3>2. CASE i = at
      <4>1. \A p \in Meant(t) : Trusted(p) \subseteq W
        BY DEF W
      <4>2. W \subseteq ring'.signed
        BY <1>8, <1>11
      <4> HIDE DEF W
      <4>3. QED BY <3>2, <4>1, <4>2 DEF KeyringSigned
    <3>3. QED BY <1>1, <2>1, <3>1, <3>2
  <2>2. CASE at < Len(Keyrings)
    <3>1. at' = at + 1 /\ pc' = "populate"
      BY <1>1, <1>6, <1>11, <2>2
    <3>2. at' \in Nat \ {0} /\ at' =< Len(Keyrings)
      BY <1>1, <2>2, <3>1
    <3>3. KeyringTurn'
      BY <3>1, <3>2 DEF KeyringTurn, Keyrings
    <3>4. SignedSoFar'
      <4>1. \A i \in 1 .. Len(Keyrings) : i < at' => i =< at
        BY <1>1, <3>1
      <4>2. gpgcheck => \A i \in 1 .. Len(Keyrings) : i < at' => KeyringSigned(i, ring')
        BY <2>1, <4>1
      <4>3. pc' \notin Installing \cup {"trustagain"}
        BY <3>1 DEF Installing
      <4>4. QED BY <1>1, <4>2, <4>3 DEF SignedSoFar, KeyringSigned
    <3>5. QED BY <1>1, <1>8, <1>9, <3>2, <3>3, <3>4 DEF KeysInv
  <2>3. CASE ~(at < Len(Keyrings))
    <3>1. pc' = "trustagain" /\ at' = 1
      BY <1>6, <1>11, <2>3 DEF Goto
    <3>2. \A i \in 1 .. Len(Keyrings) : i =< at
      BY <1>1, <2>3
    <3>3. gpgcheck => AllSigned(ring')
      BY <2>1, <3>2 DEF AllSigned
    <3>4. SignedSoFar'
      BY <1>1, <3>1, <3>3 DEF SignedSoFar, AllSigned, KeyringSigned, Installing
    <3>5. KeyringTurn'
      BY <3>1 DEF KeyringTurn
    <3>6. QED BY <1>1, <1>8, <1>9, <3>1, <3>4, <3>5 DEF KeysInv
  <2>4. QED BY <2>2, <2>3
<1>12. QED BY <1>8, <1>10, <1>11

(* The steps that leave the keyring alone.                                 *)
LEMMA RetryKeeps ==
  ASSUME KeysInv, Retry, UNCHANGED <<ring, walk, gpgcheck>>
  PROVE  KeysInv'
<1>1. ring \in Rings /\ IsWalk(walk) /\ ring' \in Rings /\ IsWalk(walk') /\ ring.signed \subseteq ring'.signed
  BY DEF KeysInv
<1>2. CASE tries < RetryCount
  BY <1>2, SameStep DEF Retry
<1>3. CASE ~(tries < RetryCount)
  BY <1>1, <1>3, FailStep DEF Retry
<1>4. QED BY <1>2, <1>3

(* Where the run may go next, when the keyring stays.                      *)
LEMMA QuietGoto ==
  ASSUME KeysInv, ring' = ring, gpgcheck' = gpgcheck, IsWalk(walk'), at' \in Nat \ {0},
         pc' \notin {"keyrings", "populate", "trustagain"}, pc' \in Installing => pc \in Installing
  PROVE  KeysInv'
BY QuietStep DEF KeysInv

LEMMA DatabasesKeep ==
  ASSUME KeysInv, UpdateDatabase \/ Refresh
  PROVE  KeysInv'
<1>1. /\ ring' = ring /\ gpgcheck' = gpgcheck /\ walk' = walk /\ IsWalk(walk')
      /\ at \in Nat \ {0} /\ pc = "databases" /\ ring \in Rings /\ gpgcheck \in BOOLEAN
  BY DEF UpdateDatabase, Refresh, rootfs, options, KeysInv
<1>2. CASE UpdateDatabase
  <2>1. CASE at' = at + 1 /\ tries' = 0 /\ pc' = pc
    BY <1>1, <2>1, QuietGoto DEF Installing
  <2>2. CASE Retry
    BY <1>1, <2>2, RetryKeeps
  <2>3. QED BY <1>2, <2>1, <2>2 DEF UpdateDatabase
<1>3. CASE Refresh
  <2>1. CASE Fail
    BY <1>1, <2>1, FailStep
  <2>2. CASE gpgcheck /\ Keyrings # <<>> /\ Goto("keyrings")
    <3>1. KeyringTurn'
      BY <2>2 DEF KeyringTurn, Goto, Keyrings
    <3>2. SignedSoFar'
      BY <2>2 DEF SignedSoFar, Goto, Installing
    <3>3. QED BY <1>1, <2>2, <3>1, <3>2 DEF KeysInv, Goto
  <2>3. CASE ~(gpgcheck /\ Keyrings # <<>>) /\ Goto("trustagain")
    <3>1. KeyringTurn'
      BY <2>3 DEF KeyringTurn, Goto
    <3>2. gpgcheck => AllSigned(ring')
      <4> DEFINE none == <<>>
      <4>1. Keyrings = none => Len(Keyrings) = 0
        OBVIOUS
      <4>2. Keyrings = none => 1 .. Len(Keyrings) = {}
        BY <4>1
      <4>3. QED BY <2>3, <4>2 DEF AllSigned
    <3>3. SignedSoFar'
      BY <1>1, <2>3, <3>2 DEF SignedSoFar, Goto, Installing, AllSigned, KeyringSigned
    <3>4. QED BY <1>1, <2>3, <3>1, <3>3 DEF KeysInv, Goto
  <2>4. QED BY <1>3, <2>1, <2>2, <2>3 DEF Refresh
<1>4. QED BY <1>2, <1>3

LEMMA DownloadKeyringsKeeps ==
  ASSUME KeysInv, DownloadKeyrings
  PROVE  KeysInv'
<1>1. /\ ring' = ring /\ gpgcheck' = gpgcheck /\ walk' = walk /\ IsWalk(walk')
      /\ pc = "keyrings" /\ ring \in Rings /\ gpgcheck \in BOOLEAN
  BY DEF DownloadKeyrings, options, KeysInv
<1>2. CASE Retry
  BY <1>1, <1>2, RetryKeeps
<1>3. CASE Goto("populate")
  <2>1. Len(Keyrings) \in Nat /\ Keyrings # <<>> /\ Keyrings \in Seq(Range(Install))
    BY <1>1, KeyringsAre, LenProperties DEF KeysInv, KeyringTurn
  <2>2. 1 =< Len(Keyrings)
    BY <2>1, EmptySeq, LenProperties
  <2>3. at' = 1 /\ pc' = "populate"
    BY <1>3 DEF Goto
  <2>4. KeyringTurn'
    BY <2>2, <2>3 DEF KeyringTurn, Keyrings
  <2>5. SignedSoFar'
    BY <2>3 DEF SignedSoFar, Installing
  <2>6. QED BY <1>1, <2>3, <2>4, <2>5 DEF KeysInv
<1>4. QED BY <1>2, <1>3 DEF DownloadKeyrings, Fetch

LEMMA WalkKeeps ==
  ASSUME KeysInv, StartInstall \/ Walk \/ WalkDone
  PROVE  KeysInv'
<1>1. /\ ring' = ring /\ gpgcheck' = gpgcheck /\ pc \in Installing
      /\ IsWalk(walk) /\ IsRecord(walk) /\ Remembers(walk.map) /\ at \in Nat \ {0}
  BY DEF StartInstall, Walk, WalkDone, rootfs, options, KeysInv, IsWalk, Installing
<1>2. CASE StartInstall
  <2>1. IsWalk(walk')
    <3>1. walk' = walk \/ walk' = StartWalk(Wanted, walk.map)
      BY <1>2 DEF StartInstall
    <3>2. QED BY <1>1, <3>1, StartWalkIs
  <2>2. pc' \in {pc, "uninstall", "replace", "walk"} /\ at' \in {at, 1}
    BY <1>2 DEF StartInstall, Goto, AfterInstall
  <2>3. QED BY <1>1, <1>2, <2>1, <2>2, QuietGoto DEF Installing, StartInstall
<1>3. CASE Walk
  <2>1. IsWalk(WalkStep(walk))
    BY <1>1, VisitNameIs, VisitPackageIs DEF WalkStep
  <2>2. walk' = WalkStep(walk) /\ pc' = pc /\ at' = at
    BY <1>3 DEF Walk
  <2>3. pc = "walk"
    BY <1>3 DEF Walk
  <2>4. IsWalk(walk')
    BY <2>1, <2>2
  <2>5. QED BY <1>1, <2>2, <2>3, <2>4, QuietGoto DEF Installing
<1>4. CASE WalkDone
  BY <1>1, <1>4, QuietGoto DEF WalkDone, Goto, Installing
<1>5. QED BY <1>2, <1>3, <1>4

LEMMA InstallKeeps ==
  ASSUME KeysInv, Download \/ Pacman \/ UninstallAll \/ ReplaceNext \/ Finish
  PROVE  KeysInv'
<1>1. /\ ring' = ring /\ gpgcheck' = gpgcheck /\ walk' = walk /\ IsWalk(walk') /\ pc \in Installing
      /\ at \in Nat \ {0} /\ ring \in Rings
  BY DEF Download, Pacman, UninstallAll, ReplaceNext, Finish, rootfs, options, KeysInv, Installing
<1>2. CASE Download
  <2>1. Retry \/ (at' = at + PkgOnce /\ pc' = pc)
    BY <1>2 DEF Download, Fetch
  <2>2. CASE Retry
    BY <1>1, <2>2, RetryKeeps
  <2>3. CASE at' = at + PkgOnce /\ pc' = pc
    <3>1. at' \in Nat \ {0} /\ pc = "download"
      BY <1>1, <1>2, <2>3, PacmanAssumption DEF Download
    <3>2. QED BY <1>1, <2>3, <3>1, QuietGoto DEF Installing
  <2>4. QED BY <2>1, <2>2, <2>3
<1>3. CASE Pacman \/ UninstallAll \/ ReplaceNext \/ Finish
  <2>1. pc' \in {"failed", "install", "uninstall", "replace", "done"} /\ at' = 1
    BY <1>3 DEF Pacman, UninstallAll, ReplaceNext, Finish, Fail, Goto, AfterInstall
  <2>2. pc' \notin {"keyrings", "populate", "trustagain"}
    BY <2>1
  <2>3. QED BY <1>1, <2>1, <2>2, QuietGoto
<1>4. QED BY <1>2, <1>3

LEMMA RunsKeep ==
  ASSUME KeysInv, Kill \/ RunAgain \/ NoMoreRuns
  PROVE  KeysInv'
<1>1. ring \in Rings /\ IsWalk(walk)
  BY DEF KeysInv
<1>2. CASE Kill
  BY <1>1, <1>2, FailStep DEF Kill, rootfs, options
<1>3. CASE RunAgain
  <2>1. ring' = ring /\ pc' = "keyring" /\ at' = 1 /\ gpgcheck' \in BOOLEAN /\ walk' = NoWalk
    BY <1>3 DEF RunAgain, rootfs, Goto
  <2>2. IsWalk(NoWalk)
    BY StartWalkIs DEF NoWalk, Remembers
  <2>3. KeyringTurn' /\ SignedSoFar'
    BY <2>1 DEF KeyringTurn, SignedSoFar, Installing
  <2>4. QED BY <1>1, <2>1, <2>2, <2>3 DEF KeysInv
<1>4. CASE NoMoreRuns
  BY <1>4, SameStep DEF NoMoreRuns, vars, options
<1>5. QED BY <1>2, <1>3, <1>4

LEMMA KeysInit == Init => KeysInv
<1> SUFFICES ASSUME Init PROVE KeysInv
  OBVIOUS
<1>1. ring = NoRing /\ pc = "keyring" /\ at = 1 /\ gpgcheck \in BOOLEAN /\ walk = NoWalk
  BY DEF Init
<1>2. NoRing \in Rings
  BY DEF NoRing, Rings
<1>3. IsWalk(NoWalk)
  BY StartWalkIs DEF NoWalk, Remembers
<1>4. KeyringTurn /\ SignedSoFar
  BY <1>1 DEF KeyringTurn, SignedSoFar, Installing
<1>5. QED BY <1>1, <1>2, <1>3, <1>4 DEF KeysInv

LEMMA KeysStep == KeysInv /\ [Next]_vars => KeysInv'
<1> SUFFICES ASSUME KeysInv, [Next]_vars PROVE KeysInv'
  OBVIOUS
<1>1. CASE DoInitKeyring
  BY <1>1, InitKeyringKeeps
<1>2. CASE DoTrustAll
  BY <1>2, TrustAllKeeps
<1>3. CASE UpdateDatabase \/ Refresh
  BY <1>3, DatabasesKeep
<1>4. CASE DownloadKeyrings
  BY <1>4, DownloadKeyringsKeeps
<1>5. CASE TrustKeyring
  BY <1>5, TrustKeyringKeeps
<1>6. CASE StartInstall \/ Walk \/ WalkDone
  BY <1>6, WalkKeeps
<1>7. CASE Download \/ Pacman \/ UninstallAll \/ ReplaceNext \/ Finish
  BY <1>7, InstallKeeps
<1>8. CASE Kill \/ RunAgain \/ NoMoreRuns
  BY <1>8, RunsKeep
<1>9. CASE UNCHANGED vars
  BY <1>9, SameStep DEF vars, options
<1>10. QED BY <1>1, <1>2, <1>3, <1>4, <1>5, <1>6, <1>7, <1>8, <1>9 DEF Next, Step

(* Before any package is installed the keys that the configuration trusts  *)
(* and the trusted keys of every package that a keyring's name stands for  *)
(* are signed, in any run, after any failures of gpg, of the downloads and *)
(* of the builder, and whatever is left from the runs before: trust_all    *)
(* and add_trust_keyring_pkg raise for a key they could not sign.          *)
THEOREM KeysBeforePackages == Spec => []TrustedBeforeInstall
<1>1. KeysInv => TrustedBeforeInstall
  <2> SUFFICES ASSUME KeysInv, gpgcheck, pc \in Installing PROVE TrustedBeforeInstall
    BY DEF TrustedBeforeInstall, Installing
  <2>1. AllSigned(ring) /\ Range(Trust) \subseteq ring.signed
    BY DEF KeysInv, SignedSoFar
  <2>2. ASSUME NEW t \in Range(Keyrings), NEW p \in Meant(t) PROVE Trusted(p) \subseteq ring.signed
    <3>1. PICK i \in 1 .. Len(Keyrings) : t = Keyrings[i]
      BY KeyringsAre, LenProperties DEF Range
    <3>2. QED BY <2>1, <3>1 DEF AllSigned, KeyringSigned
  <2>3. QED BY <2>1, <2>2 DEF TrustedBeforeInstall
<1>2. QED BY <1>1, KeysInit, KeysStep, PTL DEF Spec

-----------------------------------------------------------------------------
(* The walk over the dependencies: what it has reached and what it still   *)
(* has to visit cover what the names need.                                 *)

(* the packages an entry of todo will visit, and those of all entries      *)
Stands(item) == IF item.kind = "name" THEN Meant(item.of) ELSE {item.of}
Stood(todo) == UNION {Stands(todo[i]) : i \in 1 .. Len(todo)}
Covered(w) == Range(w.tree) \cup Stood(w.todo)

LEMMA RangeIn ==
  ASSUME NEW S, NEW s \in Seq(S)
  PROVE  Range(s) = {s[i] : i \in 1 .. Len(s)} /\ Range(s) \subseteq S
BY LenProperties DEF Range

LEMMA SeqIs ==
  ASSUME NEW S, NEW s \in Seq(S)
  PROVE  IsSequence(s)
<1> DEFINE R == Range(s)
<1>1. Len(s) \in Nat /\ s \in [1 .. Len(s) -> S]
  BY LenProperties
<1>2. \A i \in 1 .. Len(s) : s[i] \in R
  BY <1>1, RangeIn
<1> HIDE DEF R
<1>3. s \in [1 .. Len(s) -> R]
  BY <1>1, <1>2
<1>4. s \in Seq(R)
  BY <1>1, <1>3, SeqDef
<1>5. QED BY <1>4 DEF IsSequence, R

LEMMA ConcatIs ==
  ASSUME NEW a, NEW b, IsSequence(a), IsSequence(b)
  PROVE  /\ IsSequence(a \o b)
         /\ Stood(a \o b) = Stood(a) \cup Stood(b)
<1> DEFINE S == Range(a) \cup Range(b)
<1>1. a \in Seq(S) /\ b \in Seq(S)
  BY SeqMonotonic DEF IsSequence
<1> HIDE DEF S
<1>2. a \o b \in Seq(S)
  BY <1>1, ConcatProperties
<1>3. Len(a) \in Nat /\ Len(b) \in Nat /\ Len(a \o b) = Len(a) + Len(b)
  BY <1>1, ConcatProperties, LenProperties
<1>4. \A i \in 1 .. Len(a) + Len(b) : (a \o b)[i] = IF i <= Len(a) THEN a[i] ELSE b[i - Len(a)]
  BY <1>1, ConcatProperties
<1> DEFINE c == a \o b
<1> HIDE DEF c
<1>5. ASSUME NEW x PROVE x \in Stood(c) <=> x \in Stood(a) \cup Stood(b)
  <2>1. ASSUME x \in Stood(c) PROVE x \in Stood(a) \cup Stood(b)
    <3>1. PICK i \in 1 .. Len(c) : x \in Stands(c[i])
      BY <2>1 DEF Stood
    <3>2. CASE i <= Len(a)
      <4>1. c[i] = a[i] /\ i \in 1 .. Len(a)
        BY <1>3, <1>4, <3>1, <3>2 DEF c
      <4>2. QED BY <3>1, <4>1 DEF Stood
    <3>3. CASE ~(i <= Len(a))
      <4>1. c[i] = b[i - Len(a)] /\ i - Len(a) \in 1 .. Len(b)
        BY <1>3, <1>4, <3>1, <3>3 DEF c
      <4>2. QED BY <3>1, <4>1 DEF Stood
    <3>4. QED BY <3>2, <3>3
  <2>2. ASSUME x \in Stood(a) PROVE x \in Stood(c)
    <3>1. PICK i \in 1 .. Len(a) : x \in Stands(a[i])
      BY <2>2 DEF Stood
    <3>2. c[i] = a[i] /\ i \in 1 .. Len(c)
      BY <1>3, <1>4, <3>1 DEF c
    <3>3. QED BY <3>1, <3>2 DEF Stood
  <2>3. ASSUME x \in Stood(b) PROVE x \in Stood(c)
    <3>1. PICK i \in 1 .. Len(b) : x \in Stands(b[i])
      BY <2>3 DEF Stood
    <3> DEFINE j == i + Len(a)
    <3>2. j \in 1 .. Len(a) + Len(b) /\ ~(j <= Len(a)) /\ j - Len(a) = i
      BY <1>3, <3>1
    <3> HIDE DEF j
    <3>3. c[j] = b[i] /\ j \in 1 .. Len(c)
      BY <1>3, <1>4, <3>2 DEF c
    <3>4. QED BY <3>1, <3>3 DEF Stood
  <2>4. QED BY <2>1, <2>2, <2>3
<1>6. Stood(c) = Stood(a) \cup Stood(b)
  BY <1>5
<1>7. QED BY <1>2, <1>6, SeqIs DEF c

LEMMA HeadIs ==
  ASSUME NEW s, IsSequence(s), s # <<>>
  PROVE  /\ IsSequence(Tail(s))
         /\ Stood(s) = Stands(Head(s)) \cup Stood(Tail(s))
<1> DEFINE S == Range(s)
           r == Tail(s)
<1>1. s \in Seq(S)
  BY DEF IsSequence
<1> HIDE DEF S
<1>2. /\ Len(s) \in Nat \ {0} /\ r \in Seq(S) /\ Len(r) = Len(s) - 1
      /\ \A i \in 1 .. Len(r) : r[i] = s[i + 1]
  BY <1>1, HeadTailProperties, EmptySeq
<1>3. Head(s) = s[1]
  BY <1>1
<1> HIDE DEF r
<1>4. IsSequence(r)
  BY <1>2, SeqIs
<1>5. ASSUME NEW x PROVE x \in Stood(s) <=> x \in Stands(s[1]) \cup Stood(r)
  <2>1. ASSUME x \in Stood(s) PROVE x \in Stands(s[1]) \cup Stood(r)
    <3>1. PICK i \in 1 .. Len(s) : x \in Stands(s[i])
      BY <2>1 DEF Stood
    <3>2. CASE i # 1
      <4> DEFINE j == i - 1
      <4>1. j \in 1 .. Len(r) /\ j + 1 = i
        BY <1>2, <3>1, <3>2
      <4> HIDE DEF j
      <4>2. r[j] = s[i]
        BY <1>2, <4>1
      <4>3. QED BY <3>1, <4>1, <4>2 DEF Stood
    <3>3. QED BY <3>1, <3>2
  <2>2. ASSUME x \in Stood(r) PROVE x \in Stood(s)
    <3>1. PICK i \in 1 .. Len(r) : x \in Stands(r[i])
      BY <2>2 DEF Stood
    <3>2. i + 1 \in 1 .. Len(s) /\ r[i] = s[i + 1]
      BY <1>2, <3>1
    <3>3. QED BY <3>1, <3>2 DEF Stood
  <2>3. 1 \in 1 .. Len(s)
    BY <1>2
  <2>4. QED BY <2>1, <2>2, <2>3 DEF Stood
<1>6. Stood(s) = Stands(s[1]) \cup Stood(r)
  BY <1>5
<1>7. QED BY <1>3, <1>4, <1>6 DEF r

(* Entries for a sequence of names, or of packages.                        *)
LEMMA VisitIs ==
  ASSUME NEW S, NEW s \in Seq(S), NEW kind
  PROVE  /\ IsSequence(Visit(kind, s))
         /\ kind = "name" => Stood(Visit(kind, s)) = UNION {Meant(t) : t \in Range(s)}
         /\ kind # "name" => Stood(Visit(kind, s)) = Range(s)
<1> DEFINE v == Visit(kind, s)
           n == Len(s)
           T == [kind : {kind}, of : S]
<1>1. n \in Nat /\ DOMAIN s = 1 .. n /\ \A i \in 1 .. n : s[i] \in S
  BY LenProperties
<1> HIDE DEF n
<1>2. v = [i \in 1 .. n |-> [kind |-> kind, of |-> s[i]]]
  BY <1>1 DEF Visit
<1>3. v \in [1 .. n -> T]
  BY <1>1, <1>2
<1>4. \A i \in 1 .. n : v[i].kind = kind /\ v[i].of = s[i]
  BY <1>2
<1> HIDE DEF v, T
<1>5. v \in Seq(T) /\ Len(v) = n
  BY <1>1, <1>3, SeqDef, LenProperties
<1>6. IsSequence(v)
  BY <1>5, SeqIs
<1>7. Range(s) = {s[i] : i \in 1 .. n}
  BY RangeIn DEF n
<1>8. kind = "name" => \A i \in 1 .. n : Stands(v[i]) = Meant(s[i])
  BY <1>4 DEF Stands
<1>9. kind # "name" => \A i \in 1 .. n : Stands(v[i]) = {s[i]}
  BY <1>4 DEF Stands
<1>10. QED BY <1>5, <1>6, <1>7, <1>8, <1>9 DEF Stood, v

(* DATABASE/PACKAGE of a package that is there is that package.            *)
LEMMA NamedIs ==
  ASSUME NEW t \in Pkgs, t.db \notin {AnyDb, FileDb}
  PROVE  Meant(t) = {t}
<1>1. t \notin Files
  BY RepoAssumption
<1>2. PICK r \in Dbs : \E m \in Sync[r] : t = Named(r, m)
  BY <1>1 DEF Pkgs, SyncPkgs
<1>3. PICK m \in Sync[r] : t = Named(r, m)
  BY <1>2
<1>4. t.db = r /\ t.name = m
  BY <1>3 DEF Named
<1>5. Direct(t) = <<t>>
  BY <1>3, <1>4, ReposAre DEF Direct, GetPkg
<1>6. Lookup(t, <<>>).pkgs = <<t>>
  BY <1>2, <1>4, <1>5, ReposAre DEF Lookup
<1>7. Range(<<t>>) = {t}
  BY DEF Range
<1>8. QED BY <1>6, <1>7 DEF Meant

LEMMA DependsAre ==
  ASSUME NEW p \in Pkgs
  PROVE  /\ IsSequence(Depends[p])
         /\ \A d \in Range(Depends[p]) : Meant(d) \subseteq Pkgs
<1>1. /\ IsSequence(Depends[p])
      /\ \A d \in Range(Depends[p]) : d.db # FileDb
  BY RepoAssumption
<1>2. QED BY <1>1, LookupPkgs

(* What the walk has done and what is left do for the names: no package is *)
(* taken twice or is outside of N, and those of the names, and of the      *)
(* dependencies of every package taken, are taken or still to be visited.  *)
Reaches(w, N, names) ==
  /\ IsSequence(w.todo)
  /\ w.tree \in Seq(N) /\ IsInjective(w.tree)
  /\ Stood(w.todo) \subseteq N
  /\ \A t \in Range(names) : Meant(t) \subseteq Covered(w)
  /\ \A p \in Range(w.tree) : \A d \in Range(Depends[p]) : Meant(d) \subseteq Covered(w)

(* A step that takes no package and forgets none.                          *)
LEMMA NothingTaken ==
  ASSUME NEW w, NEW v, NEW N, NEW names, Reaches(w, N, names), v.tree = w.tree,
         IsSequence(v.todo), Stood(v.todo) \subseteq N, Covered(w) \subseteq Covered(v)
  PROVE  Reaches(v, N, names)
BY DEF Reaches

LEMMA NameReaches ==
  ASSUME NEW w, IsWalk(w), NEW N \in SUBSET Pkgs, NEW names, Reaches(w, N, names),
         w.todo # <<>>, Head(w.todo).kind = "name"
  PROVE  Reaches(VisitName(Head(w.todo).of, w), N, names)
<1> DEFINE t == Head(w.todo).of
           v == VisitName(t, w)
           rest == Tail(w.todo)
           pkgs == Lookup(t, <<>>).pkgs
           new == Visit("package", pkgs)
           known == t.db \notin {AnyDb, FileDb} /\ t \in Range(w.tree)
<1>1. v.tree = w.tree /\ v.todo = IF known THEN rest ELSE new \o rest
  BY VisitNameIs
<1> HIDE DEF v
<1>2. /\ IsSequence(rest) /\ Stood(w.todo) = Meant(t) \cup Stood(rest)
      /\ Stood(w.todo) \subseteq N /\ Range(w.tree) \subseteq N
  <2>1. Stands(Head(w.todo)) = Meant(t)
    BY DEF Stands
  <2>2. IsSequence(w.todo) /\ Range(w.tree) \subseteq N
    BY RangeIn DEF Reaches
  <2>3. QED BY <2>1, <2>2, HeadIs DEF Reaches
<1>3. CASE known
  <2>1. Meant(t) = {t}
    BY <1>2, <1>3, NamedIs
  <2>2. Covered(w) \subseteq Covered(v)
    BY <1>1, <1>2, <1>3, <2>1 DEF Covered
  <2>3. v.todo = rest
    BY <1>1, <1>3
  <2> HIDE DEF rest, known
  <2>4. QED BY <1>1, <1>2, <2>2, <2>3, NothingTaken DEF v
<1>4. CASE ~known
  <2>1. Range(pkgs) = Meant(t)
    BY DEF Meant
  <2>2. pkgs \in Seq(Range(pkgs))
    <3> DEFINE s == Direct(t)
               u == Satisfying(t.name)
    <3>1. IsSequence(s) /\ IsSequence(u)
      BY DirectIs, SatisfyingIs, SeqIs
    <3> HIDE DEF s, u
    <3>2. IsSequence(<<t>>) /\ IsSequence(<<>>)
      <4>1. <<t>> \in Seq({t}) /\ <<>> \in Seq({t})
        OBVIOUS
      <4> DEFINE one == <<t>>
                 none == <<>>
      <4> HIDE DEF one, none
      <4>2. IsSequence(one) /\ IsSequence(none)
        BY <4>1, SeqIs DEF one, none
      <4>3. QED BY <4>2 DEF one, none
    <3>3. pkgs \in {<<t>>, s, u, <<>>}
      <4>1. t.name \notin DOMAIN <<>>
        OBVIOUS
      <4>2. QED BY <4>1 DEF Lookup, s, u
    <3>4. QED BY <3>1, <3>2, <3>3 DEF IsSequence
  <2> HIDE DEF pkgs
  <2>3. IsSequence(new) /\ Stood(new) = Meant(t)
    BY <2>1, <2>2, VisitIs
  <2> HIDE DEF new, rest, known
  <2>4. IsSequence(new \o rest) /\ Stood(new \o rest) = Meant(t) \cup Stood(rest)
    BY <1>2, <2>3, ConcatIs
  <2>5. v.todo = new \o rest
    BY <1>1, <1>4
  <2>6. Covered(w) \subseteq Covered(v)
    BY <1>1, <1>2, <2>4, <2>5 DEF Covered
  <2>7. QED BY <1>1, <1>2, <2>4, <2>5, <2>6, NothingTaken DEF v
<1>5. QED BY <1>3, <1>4

LEMMA AppendIs ==
  ASSUME NEW N, NEW s \in Seq(N), IsInjective(s), NEW p \in N, p \notin Range(s)
  PROVE  /\ Append(s, p) \in Seq(N) /\ IsInjective(Append(s, p))
         /\ Range(Append(s, p)) = Range(s) \cup {p}
<1> DEFINE n == Len(s)
           a == Append(s, p)
<1>1. n \in Nat /\ DOMAIN s = 1 .. n /\ Range(s) = {s[i] : i \in 1 .. n}
  BY LenProperties, RangeIn
<1>2. /\ a \in Seq(N) /\ Len(a) = n + 1
      /\ \A i \in 1 .. n : a[i] = s[i]
      /\ a[n + 1] = p
  BY AppendProperties
<1> HIDE DEF a, n
<1>3. DOMAIN a = 1 .. n + 1 /\ Range(a) = {a[i] : i \in 1 .. n + 1}
  BY <1>2, LenProperties, RangeIn
<1>4. 1 .. n + 1 = (1 .. n) \cup {n + 1}
  BY <1>1
<1>5. IsInjective(a)
  <2>1. \A i, j \in 1 .. n : s[i] = s[j] => i = j
    BY <1>1 DEF IsInjective
  <2>2. \A i \in 1 .. n : s[i] # p
    BY <1>1
  <2>3. QED BY <1>2, <1>3, <1>4, <2>1, <2>2 DEF IsInjective
<1>6. Range(a) = Range(s) \cup {p}
  BY <1>1, <1>2, <1>3, <1>4
<1>7. QED BY <1>2, <1>5, <1>6 DEF a

LEMMA PackageReaches ==
  ASSUME NEW w, IsWalk(w), NEW N \in SUBSET Pkgs, IsClosed(N), NEW names, Reaches(w, N, names),
         w.todo # <<>>, Head(w.todo).kind # "name"
  PROVE  Reaches(VisitPackage(Head(w.todo).of, w), N, names)
<1> DEFINE p == Head(w.todo).of
           v == VisitPackage(p, w)
           rest == Tail(w.todo)
           new == Visit("name", Depends[p])
           needs == UNION {Meant(d) : d \in Range(Depends[p])}
<1>1. /\ p \in Range(w.tree) => v.tree = w.tree /\ v.todo = rest
      /\ p \notin Range(w.tree) => v.tree = Append(w.tree, p) /\ v.todo = new \o rest
  BY VisitPackageIs
<1> HIDE DEF v
<1>2. /\ IsSequence(rest) /\ Stood(w.todo) = {p} \cup Stood(rest)
      /\ Stood(w.todo) \subseteq N /\ Range(w.tree) \subseteq N
  <2>1. Stands(Head(w.todo)) = {p}
    BY DEF Stands
  <2>2. IsSequence(w.todo) /\ Range(w.tree) \subseteq N
    BY RangeIn DEF Reaches
  <2>3. QED BY <2>1, <2>2, HeadIs DEF Reaches
<1>3. CASE p \in Range(w.tree)
  <2>1. Covered(w) \subseteq Covered(v)
    BY <1>1, <1>2, <1>3 DEF Covered
  <2> HIDE DEF rest
  <2>2. QED BY <1>1, <1>2, <1>3, <2>1, NothingTaken DEF v
<1>4. CASE p \notin Range(w.tree)
  <2>1. p \in N /\ IsSequence(Depends[p])
    BY <1>2, DependsAre
  <2>2. needs \subseteq N
    BY <2>1 DEF IsClosed
  <2>3. IsSequence(new) /\ Stood(new) = needs
    BY <2>1, VisitIs DEF IsSequence
  <2>4. \A d \in Range(Depends[p]) : Meant(d) \subseteq needs
    OBVIOUS
  <2> HIDE DEF new, rest, needs
  <2>5. IsSequence(new \o rest) /\ Stood(new \o rest) = needs \cup Stood(rest)
    BY <1>2, <2>3, ConcatIs
  <2>6. v.tree = Append(w.tree, p) /\ v.todo = new \o rest
    BY <1>1, <1>4
  <2>7. /\ v.tree \in Seq(N) /\ IsInjective(v.tree)
        /\ Range(v.tree) = Range(w.tree) \cup {p}
    BY <1>4, <2>1, <2>6, AppendIs DEF Reaches
  <2>8. Covered(v) = Range(w.tree) \cup {p} \cup needs \cup Stood(rest)
    BY <2>5, <2>6, <2>7 DEF Covered
  <2>9. Covered(w) \cup needs \subseteq Covered(v)
    BY <1>2, <2>8 DEF Covered
  <2>10. \A q \in Range(v.tree) : \A d \in Range(Depends[q]) : Meant(d) \subseteq Covered(v)
    BY <2>4, <2>7, <2>9 DEF Reaches
  <2>11. \A t \in Range(names) : Meant(t) \subseteq Covered(v)
    BY <2>9 DEF Reaches
  <2>12. IsSequence(v.todo) /\ Stood(v.todo) \subseteq N
    BY <1>2, <2>2, <2>5, <2>6
  <2> HIDE DEF p
  <2>13. QED BY <2>7, <2>10, <2>11, <2>12 DEF Reaches, v, p
<1>5. QED BY <1>3, <1>4

LEMMA StepReaches ==
  ASSUME NEW w, IsWalk(w), NEW N \in SUBSET Pkgs, IsClosed(N), NEW names, Reaches(w, N, names),
         w.todo # <<>>
  PROVE  Reaches(WalkStep(w), N, names)
<1>1. CASE Head(w.todo).kind = "name"
  <2>1. WalkStep(w) = VisitName(Head(w.todo).of, w)
    BY <1>1 DEF WalkStep
  <2>2. QED BY <1>1, <2>1, NameReaches
<1>2. CASE Head(w.todo).kind # "name"
  <2>1. WalkStep(w) = VisitPackage(Head(w.todo).of, w)
    BY <1>2 DEF WalkStep
  <2>2. QED BY <1>2, <2>1, PackageReaches
<1>3. QED BY <1>1, <1>2

(* The packages that the names need.                                       *)
LEMMA NeededIs ==
  ASSUME NEW names, \A t \in Range(names) : Meant(t) \subseteq Pkgs
  PROVE  /\ Needed(names) \in SUBSET Pkgs /\ IsClosed(Needed(names))
         /\ \A t \in Range(names) : Meant(t) \subseteq Needed(names)
<1>1. \A t \in Range(names) : Meant(t) \subseteq Needed(names)
  BY DEF Needed
<1>2. ASSUME NEW p \in Needed(names), NEW d \in Range(Depends[p]), NEW q \in Meant(d)
      PROVE  q \in Needed(names)
  <2>1. p \in Pkgs
    BY DEF Needed
  <2>2. q \in Pkgs
    BY <2>1, DependsAre
  <2>3. ASSUME NEW S \in ClosedSets, \A t \in Range(names) : Meant(t) \subseteq S PROVE q \in S
    <3>1. p \in S
      BY <2>3 DEF Needed
    <3>2. QED BY <3>1 DEF ClosedSets, IsClosed
  <2>4. QED BY <2>2, <2>3 DEF Needed
<1>3. IsClosed(Needed(names))
  BY <1>2 DEF IsClosed
<1>4. QED BY <1>1, <1>3 DEF Needed

(* Names to start with; and when nothing is left to be visited.            *)
LEMMA StartReaches ==
  ASSUME NEW names, IsSequence(names), NEW map, NEW N, \A t \in Range(names) : Meant(t) \subseteq N
  PROVE  Reaches(StartWalk(names, map), N, names)
<1> DEFINE v == Visit("name", names)
           w == StartWalk(names, map)
           none == <<>>
<1>1. IsSequence(v) /\ Stood(v) = UNION {Meant(t) : t \in Range(names)}
  BY VisitIs DEF IsSequence
<1>2. w.todo = v /\ w.tree = none
  BY DEF StartWalk
<1>3. none \in Seq(N) /\ IsInjective(none) /\ Range(none) = {}
  BY DEF Range, IsInjective
<1> HIDE DEF v, w, none
<1>4. Stood(w.todo) \subseteq N /\ \A t \in Range(names) : Meant(t) \subseteq Covered(w)
  BY <1>1, <1>2 DEF Covered
<1>5. Reaches(w, N, names)
  BY <1>1, <1>2, <1>3, <1>4 DEF Reaches
<1>6. QED BY <1>5 DEF w

LEMMA EndReaches ==
  ASSUME NEW w, NEW names, Reaches(w, Needed(names), names), w.todo = <<>>
  PROVE  Range(w.tree) = Needed(names) /\ IsInjective(w.tree)
<1> DEFINE T == Range(w.tree)
           N == Needed(names)
<1>1. Stood(w.todo) = {}
  <2>1. Len(w.todo) = 0
    OBVIOUS
  <2>2. QED BY <2>1 DEF Stood
<1>2. T \subseteq N /\ N \subseteq Pkgs
  BY RangeIn DEF Reaches, Needed
<1>3. Covered(w) = T
  BY <1>1 DEF Covered
<1>4. T \in ClosedSets /\ \A t \in Range(names) : Meant(t) \subseteq T
  BY <1>2, <1>3 DEF Reaches, ClosedSets, IsClosed
<1>5. N \subseteq T
  BY <1>4 DEF Needed
<1>6. QED BY <1>2, <1>5 DEF Reaches

(* The names of a job are a sequence, and its files exist.                 *)
LEMMA WantedAre ==
  ASSUME job \in 0 .. Len(Replaces), part \in {"sync", "local"}
  PROVE  IsSequence(Wanted) /\ \A t \in Range(Wanted) : Meant(t) \subseteq Pkgs
<1> DEFINE S == {t \in Range(Install) \cup {Replaces[i].new : i \in DOMAIN Replaces} :
                    t.db = FileDb => t \in Files}
           s == Names(job)
           L == {t \in Range(s) : t.db = FileDb}
           D == {t \in Range(s) : t.db # FileDb}
<1>1. s \in Seq(S)
  <2>1. CASE job = 0
    <3>1. Install \in Seq(Range(Install)) /\ Range(Install) \subseteq S
      BY ConfigAssumption DEF IsSequence
    <3> HIDE DEF S
    <3>2. Install \in Seq(S)
      BY <3>1, SeqMonotonic
    <3>3. QED BY <2>1, <3>2 DEF Names
  <2>2. CASE job # 0
    <3>1. Replaces \in Seq(Range(Replaces))
      BY ConfigAssumption DEF IsSequence
    <3>2. job \in DOMAIN Replaces
      BY <2>2, <3>1, LenProperties
    <3>3. Replaces[job].new \in S
      BY <3>2, ConfigAssumption
    <3> HIDE DEF S
    <3>4. QED BY <2>2, <3>3 DEF Names
  <2>3. QED BY <2>1, <2>2
<1>2. \A t \in S : Meant(t) \subseteq Pkgs
  BY LookupPkgs
<1> HIDE DEF S, s, L, D
<1>3. Those(s, L) \in Seq(S) /\ Those(s, D) \in Seq(S)
  <2>1. Those(s, L) \in Seq(S \cap L) /\ Those(s, D) \in Seq(S \cap D)
    BY <1>1, ThoseIs
  <2>2. QED BY <2>1, SeqMonotonic
<1>4. FirstOfName(Those(s, D)) \in Seq(S)
  BY <1>3, FirstOfNameIs
<1>5. Wanted \in {Those(s, L), FirstOfName(Those(s, D))}
  BY DEF Wanted, LocalFiles, DlPkgs, s, L, D
<1>6. Wanted \in Seq(S)
  BY <1>3, <1>4, <1>5
<1>7. QED BY <1>2, <1>6, SeqIs, RangeIn

(* The run's walk reaches what the present names need.                     *)
WalkInv ==
  /\ job \in 0 .. Len(Replaces) /\ part \in {"sync", "local"}
  /\ pc \in {"walk", "download"} => Reaches(walk, Needed(Wanted), Wanted)
  /\ pc = "download" => walk.todo = <<>>

Jobs == job \in 0 .. Len(Replaces) /\ part \in {"sync", "local"}

(* A step that leaves the walk, and its names if it is in the walk.        *)
LEMMA WalkStays ==
  ASSUME WalkInv, walk' = walk, job' = job, part' = part,
         pc' \in {"walk", "download"} => pc' = pc
  PROVE  WalkInv'
<1>1. Wanted' = Wanted
  BY DEF Wanted, DlPkgs, LocalFiles, Names
<1>2. Needed(Wanted)' = Needed(Wanted)
  BY <1>1 DEF Needed
<1>3. QED BY <1>1, <1>2 DEF WalkInv, Reaches, Covered

LEMMA WalkLeft ==
  ASSUME Jobs', pc' \notin {"walk", "download"}
  PROVE  WalkInv'
BY DEF WalkInv, Jobs

LEMMA StartInstallReaches ==
  ASSUME KeysInv, WalkInv, StartInstall
  PROVE  WalkInv'
<1>1. Jobs /\ job' = job
  BY DEF WalkInv, Jobs, StartInstall, options
<1>2. CASE Wanted = <<>>
  BY <1>1, <1>2, WalkLeft DEF StartInstall, Jobs, Goto, AfterInstall
<1>3. CASE Wanted # <<>>
  <2>1. pc' = "walk" /\ walk' = StartWalk(Wanted, walk.map) /\ part' = part
    BY <1>3 DEF StartInstall, Goto
  <2>2. IsSequence(Wanted) /\ \A t \in Range(Wanted) : Meant(t) \subseteq Pkgs
    BY <1>1, WantedAre DEF Jobs
  <2>3. \A t \in Range(Wanted) : Meant(t) \subseteq Needed(Wanted)
    BY <2>2, NeededIs
  <2>4. Reaches(walk', Needed(Wanted), Wanted)
    BY <2>1, <2>2, <2>3, StartReaches
  <2>5. Wanted' = Wanted
    BY <1>1, <2>1 DEF Wanted, DlPkgs, LocalFiles, Names
  <2>6. Needed(Wanted)' = Needed(Wanted)
    BY <2>5 DEF Needed
  <2>7. QED BY <1>1, <2>1, <2>4, <2>5, <2>6 DEF WalkInv, Jobs, Reaches, Covered
<1>4. QED BY <1>2, <1>3

LEMMA WalkReaches ==
  ASSUME KeysInv, WalkInv, Walk
  PROVE  WalkInv'
<1>1. Jobs /\ job' = job /\ part' = part /\ pc = "walk" /\ pc' = pc /\ walk' = WalkStep(walk) /\ walk.todo # <<>>
  BY DEF WalkInv, Jobs, Walk, options
<1>2. IsWalk(walk) /\ Reaches(walk, Needed(Wanted), Wanted)
  BY <1>1 DEF WalkInv, KeysInv
<1>3. Needed(Wanted) \in SUBSET Pkgs /\ IsClosed(Needed(Wanted))
  BY <1>1, WantedAre, NeededIs DEF Jobs
<1>4. Reaches(walk', Needed(Wanted), Wanted)
  BY <1>1, <1>2, <1>3, StepReaches
<1>5. Wanted' = Wanted
  BY <1>1 DEF Wanted, DlPkgs, LocalFiles, Names
<1>6. Needed(Wanted)' = Needed(Wanted)
  BY <1>5 DEF Needed
<1>7. QED BY <1>1, <1>4, <1>5, <1>6 DEF WalkInv, Jobs, Reaches, Covered

LEMMA WalkDoneReaches ==
  ASSUME WalkInv, WalkDone
  PROVE  WalkInv'
<1>1. /\ Jobs /\ job' = job /\ part' = part /\ pc = "walk" /\ pc' = "download"
      /\ walk' = walk /\ walk.todo = <<>>
  BY DEF WalkInv, Jobs, WalkDone, options, Goto
<1>2. Wanted' = Wanted
  BY <1>1 DEF Wanted, DlPkgs, LocalFiles, Names
<1>3. Needed(Wanted)' = Needed(Wanted)
  BY <1>2 DEF Needed
<1>4. QED BY <1>1, <1>2, <1>3 DEF WalkInv, Jobs, Reaches, Covered

LEMMA WalkInvInit == Init => WalkInv
<1>1. Replaces \in Seq(Range(Replaces))
  BY ConfigAssumption DEF IsSequence
<1>2. Len(Replaces) \in Nat
  BY <1>1, LenProperties
<1>3. QED BY <1>2 DEF Init, WalkInv

LEMMA WalkInvStep == KeysInv /\ WalkInv /\ [Next]_vars => WalkInv'
<1> SUFFICES ASSUME KeysInv, WalkInv, [Next]_vars PROVE WalkInv'
  OBVIOUS
<1>1. Jobs /\ 0 \in 0 .. Len(Replaces)
  <2>1. Replaces \in Seq(Range(Replaces))
    BY ConfigAssumption DEF IsSequence
  <2>2. Len(Replaces) \in Nat
    BY <2>1, LenProperties
  <2>3. QED BY <2>2 DEF WalkInv, Jobs
<1>2. CASE DoInitKeyring \/ DoTrustAll \/ UpdateDatabase \/ Refresh \/ DownloadKeyrings
  <2>1. walk' = walk /\ job' = job /\ part' = part
    BY <1>2 DEF DoInitKeyring, DoTrustAll, UpdateDatabase, Refresh, DownloadKeyrings
  <2>2. pc' \notin {"walk", "download"}
    BY <1>2 DEF DoInitKeyring, DoTrustAll, UpdateDatabase, Refresh, DownloadKeyrings,
                Keyring, Fetch, Retry, Goto, Fail
  <2>3. QED BY <2>1, <2>2, WalkStays
<1>3. CASE TrustKeyring
  <2>1. Jobs' /\ pc' \notin {"walk", "download"}
    BY <1>1, <1>3 DEF TrustKeyring, Jobs, Keyring, Goto, Fail
  <2>2. QED BY <2>1, WalkLeft
<1>4. CASE StartInstall
  BY <1>4, StartInstallReaches
<1>5. CASE Walk
  BY <1>5, WalkReaches
<1>6. CASE WalkDone
  BY <1>6, WalkDoneReaches
<1>7. CASE Download
  <2>1. walk' = walk /\ job' = job /\ part' = part /\ (pc' = pc \/ pc' = "failed")
    BY <1>7 DEF Download, Fetch, Retry, Goto, Fail
  <2>2. QED BY <2>1, WalkStays
<1>8. CASE Pacman
  <2>1. job' = job /\ part' \in {"sync", "local"} /\ pc' \in {"failed", "install", "uninstall", "replace"}
    BY <1>1, <1>8 DEF Pacman, Goto, Fail, AfterInstall, Jobs
  <2>2. Jobs' /\ pc' \notin {"walk", "download"}
    BY <1>1, <2>1 DEF Jobs
  <2>3. QED BY <2>2, WalkLeft
<1>9. CASE UninstallAll \/ Finish \/ Kill
  <2>1. walk' = walk /\ job' = job /\ part' = part /\ pc' \notin {"walk", "download"}
    BY <1>9 DEF UninstallAll, Finish, Kill, Goto, Fail
  <2>2. QED BY <2>1, WalkStays
<1>10. CASE ReplaceNext
  <2>1. job' \in 0 .. Len(Replaces) /\ part' = part /\ pc' = "install"
    BY <1>1, <1>10 DEF ReplaceNext, Goto, Jobs
  <2>2. Jobs' /\ pc' \notin {"walk", "download"}
    BY <1>1, <2>1 DEF Jobs
  <2>3. QED BY <2>2, WalkLeft
<1>11. CASE RunAgain
  <2>1. Jobs' /\ pc' \notin {"walk", "download"}
    BY <1>1, <1>11 DEF RunAgain, Goto, Jobs
  <2>2. QED BY <2>1, WalkLeft
<1>12. CASE NoMoreRuns \/ UNCHANGED vars
  BY <1>12, WalkStays DEF NoMoreRuns, vars
<1>13. QED BY <1>2, <1>3, <1>4, <1>5, <1>6, <1>7, <1>8, <1>9, <1>10, <1>11, <1>12 DEF Next, Step

(* The walk ends with the packages that the names need and no other, each  *)
(* once, in any databases with any cycles, groups, provided names and      *)
(* duplicates, and whatever package_map remembers: every package that is   *)
(* visited keeps its dependencies among what is taken or still to visit,   *)
(* and a remembered answer is the one a search would give.                 *)
THEOREM WalkTakesWhatIsNeeded == Spec => []WalkIsClosure
<1>1. WalkInv => WalkIsClosure
  <2> SUFFICES ASSUME WalkInv, Walked PROVE WalkIsClosure
    BY DEF WalkIsClosure
  <2>1. Reaches(walk, Needed(Wanted), Wanted) /\ walk.todo = <<>>
    BY DEF WalkInv, Walked
  <2>2. Range(walk.tree) = Needed(Wanted) /\ IsInjective(walk.tree)
    BY <2>1, EndReaches
  <2>3. NeededBy[job][part] = Needed(Wanted)
    <3>1. job \in 0 .. Len(Replaces) /\ part \in {"sync", "local"}
      BY DEF WalkInv
    <3>2. NeededBy[job] = [p \in {"sync", "local"} |-> Needed(IF p = "sync" THEN DlPkgs(job) ELSE LocalFiles(job))]
      BY <3>1 DEF NeededBy
    <3>3. NeededBy[job][part] = Needed(IF part = "sync" THEN DlPkgs(job) ELSE LocalFiles(job))
      BY <3>1, <3>2
    <3>4. QED BY <3>3 DEF Wanted
  <2>4. QED BY <2>2, <2>3 DEF WalkIsClosure
<1>2. QED BY <1>1, KeysInit, KeysStep, WalkInvInit, WalkInvStep, PTL DEF Spec

-----------------------------------------------------------------------------
(* What pacman finds in the cache: the first package of every name.        *)

(* Those keeps every element of s that is in T, behind none but earlier    *)
(* ones.                                                                   *)
ThereAfter(r, s, i, T) ==
  \E k \in 1 .. Len(r) :
      /\ r[k] = s[i]
      /\ \A l \in 1 .. (k - 1) : \E j \in 1 .. (i - 1) : r[l] = s[j] /\ s[j] \in T

LEMMA ThereStays ==
  ASSUME NEW S, NEW r \in Seq(S), NEW x \in S, NEW s, NEW i, NEW T, ThereAfter(r, s, i, T)
  PROVE  ThereAfter(Append(r, x), s, i, T)
<1>1. Len(r) \in Nat /\ Len(Append(r, x)) = Len(r) + 1 /\ \A k \in 1 .. Len(r) : Append(r, x)[k] = r[k]
  BY LenProperties, AppendProperties
<1>2. PICK k \in 1 .. Len(r) :
        /\ r[k] = s[i]
        /\ \A l \in 1 .. (k - 1) : \E j \in 1 .. (i - 1) : r[l] = s[j] /\ s[j] \in T
  BY DEF ThereAfter
<1> DEFINE q == Append(r, x)
<1> HIDE DEF q
<1>3. k \in 1 .. Len(q) /\ q[k] = s[i]
  BY <1>1, <1>2 DEF q
<1>4. \A l \in 1 .. (k - 1) : q[l] = r[l]
  BY <1>1, <1>2 DEF q
<1>5. QED BY <1>2, <1>3, <1>4 DEF ThereAfter, q

LEMMA ThoseHas ==
  ASSUME NEW S, NEW s \in Seq(S), NEW T, NEW i \in 1 .. Len(s), s[i] \in T
  PROVE  ThereAfter(Those(s, T), s, i, T)
<1> DEFINE n == Len(s)
           Kept(k) == [m \in 0 .. n |->
             IF m = 0 THEN <<>> ELSE IF s[m] \in T THEN Append(k[m - 1], s[m]) ELSE k[m - 1]]
           kept == CHOOSE k : k = Kept(k)
           X == Seq(S)
           Next1(x, m) == IF s[m] \in T THEN Append(x, s[m]) ELSE x
           F == [m \in 1 .. n |-> [x \in X |-> Next1(x, m)]]
           e == <<>>
<1>1. Those(s, T) = kept[n]
  BY DEF Those
<1>2. n \in Nat /\ \A m \in 1 .. n : s[m] \in S
  BY LenProperties
<1>3. e \in X /\ Len(e) = 0
  OBVIOUS
<1>4. ASSUME NEW m \in 1 .. n, NEW x \in X PROVE Next1(x, m) \in X
  BY <1>2, AppendProperties
<1>5. Kept(kept) = [m \in 0 .. n |-> IF m = 0 THEN e ELSE Next1(kept[m - 1], m)]
  OBVIOUS
<1>6. \A k : Kept(k) = [m \in 0 .. n |-> IF m = 0 THEN e ELSE Next1(k[m - 1], m)]
  OBVIOUS
<1> HIDE DEF Next1, X, n, e, Kept
<1>7. F \in [1 .. n -> [X -> X]]
  BY <1>4
<1>8. PICK f \in [0 .. n -> X] : IsLoop(f, n, e, F)
  <2> HIDE DEF F
  <2>1. QED BY <1>2, <1>3, <1>7, Loop
<1>9. f = Kept(f)
  <2>1. ASSUME NEW m \in 0 .. n, m # 0 PROVE F[m][f[m - 1]] = Next1(f[m - 1], m)
    <3>1. m \in 1 .. n /\ m - 1 \in 0 .. n
      BY <2>1, <1>2
    <3>2. f[m - 1] \in X
      <4> HIDE DEF F
      <4>1. QED BY <3>1, <1>8
    <3>3. QED BY <3>1, <3>2
  <2> HIDE DEF F
  <2>2. QED BY <2>1, <1>6, <1>8 DEF IsLoop
<1>10. kept = Kept(kept)
  BY <1>9
<1> HIDE DEF kept
<1>11. \A m \in 0 .. n : kept[m] = IF m = 0 THEN e ELSE Next1(kept[m - 1], m)
  BY <1>5, <1>10
<1> DEFINE Has(r, m) ==
             /\ r \in X
             /\ \A l \in 1 .. Len(r) : \E j \in 1 .. m : r[l] = s[j] /\ s[j] \in T
             /\ \A j \in 1 .. m : s[j] \in T => ThereAfter(r, s, j, T)
           G == {m \in 0 .. n : Has(kept[m], m)}
<1>12. 0 \in G
  <2>1. 0 \in 0 .. n
    BY <1>2
  <2>2. kept[0] = e
    BY <2>1, <1>11
  <2>3. QED BY <2>1, <2>2, <1>3
<1>13. ASSUME NEW m \in 1 .. n, m - 1 \in G PROVE m \in G
  <2> DEFINE r == kept[m - 1]
             q == kept[m]
  <2>1. /\ m \in 0 .. n /\ m # 0 /\ s[m] \in S /\ m \in Nat /\ m - 1 \in Nat
        /\ \A j \in 1 .. m : j = m \/ j \in 1 .. (m - 1)
    BY <1>2
  <2>2. q = IF s[m] \in T THEN Append(r, s[m]) ELSE r
    BY <2>1, <1>11 DEF Next1
  <2>3. /\ r \in Seq(S)
        /\ \A l \in 1 .. Len(r) : \E j \in 1 .. (m - 1) : r[l] = s[j] /\ s[j] \in T
        /\ \A j \in 1 .. (m - 1) : s[j] \in T => ThereAfter(r, s, j, T)
    BY <1>13 DEF X
  <2> HIDE DEF r, q
  <2>4. CASE s[m] \notin T
    <3>1. q = r
      BY <2>2, <2>4
    <3>2. \A l \in 1 .. Len(r) : \E j \in 1 .. m : r[l] = s[j] /\ s[j] \in T
      <4>1. \A j \in 1 .. (m - 1) : j \in 1 .. m
        BY <2>1
      <4>2. QED BY <4>1, <2>3
    <3>3. \A j \in 1 .. m : s[j] \in T => ThereAfter(r, s, j, T)
      BY <2>1, <2>3, <2>4
    <3>4. QED BY <2>1, <2>3, <3>1, <3>2, <3>3 DEF X, q
  <2>5. CASE s[m] \in T
    <3>1. /\ q \in Seq(S) /\ Len(r) \in Nat /\ Len(q) = Len(r) + 1
          /\ \A l \in 1 .. Len(r) : q[l] = r[l]
          /\ q[Len(r) + 1] = s[m]
      BY <2>1, <2>2, <2>3, <2>5, AppendProperties, LenProperties
    <3>2. ASSUME NEW l \in 1 .. Len(q) PROVE \E j \in 1 .. m : q[l] = s[j] /\ s[j] \in T
      <4>1. CASE l = Len(r) + 1
        <5>1. m \in 1 .. m
          BY <2>1
        <5>2. QED BY <4>1, <5>1, <2>5, <3>1
      <4>2. CASE l # Len(r) + 1
        <5>1. l \in 1 .. Len(r) /\ q[l] = r[l]
          BY <4>2, <3>1
        <5>2. PICK j \in 1 .. (m - 1) : r[l] = s[j] /\ s[j] \in T
          BY <5>1, <2>3
        <5>3. j \in 1 .. m
          BY <2>1
        <5>4. QED BY <5>1, <5>2, <5>3
      <4>3. QED BY <4>1, <4>2
    <3>3. ThereAfter(q, s, m, T)
      <4> DEFINE k == Len(r) + 1
      <4>1. k \in 1 .. Len(q) /\ q[k] = s[m] /\ k - 1 = Len(r)
        BY <3>1
      <4> HIDE DEF k
      <4>2. \A l \in 1 .. (k - 1) : \E j \in 1 .. (m - 1) : q[l] = s[j] /\ s[j] \in T
        BY <2>3, <3>1, <4>1
      <4>3. QED BY <4>1, <4>2 DEF ThereAfter
    <3>4. ASSUME NEW j \in 1 .. (m - 1), s[j] \in T PROVE ThereAfter(q, s, j, T)
      <4>1. ThereAfter(r, s, j, T)
        BY <3>4, <2>3
      <4>2. ThereAfter(Append(r, s[m]), s, j, T)
        BY <2>1, <2>3, <4>1, ThereStays
      <4>3. QED BY <2>2, <2>5, <4>2
    <3>5. \A j \in 1 .. m : s[j] \in T => ThereAfter(q, s, j, T)
      BY <2>1, <3>3, <3>4
    <3>6. QED BY <2>1, <3>1, <3>2, <3>5 DEF X, q
  <2>6. QED BY <2>4, <2>5
<1>14. n \in G
  <2> HIDE DEF G
  <2>1. \A m \in 0 .. n : m \in G
    BY <1>12, <1>13, <1>2, Upto
  <2>2. n \in 0 .. n
    BY <1>2
  <2>3. QED BY <2>1, <2>2
<1>15. \A j \in 1 .. n : s[j] \in T => ThereAfter(kept[n], s, j, T)
  BY <1>14
<1>16. QED BY <1>1, <1>15 DEF n

(* FirstOfName keeps the first element of each name.                       *)
LEMMA FirstOfNameHas ==
  ASSUME NEW S, NEW s \in Seq(S), NEW i \in 1 .. Len(s), \A j \in 1 .. (i - 1) : s[j].name # s[i].name
  PROVE  s[i] \in Range(FirstOfName(s))
<1> DEFINE n == Len(s)
           X == Seq(S)
           Next1(x, m) == IF \A j \in 1 .. (m - 1) : s[j].name # s[m].name THEN Append(x, s[m]) ELSE x
           After(k) == [m \in 0 .. n |-> IF m = 0 THEN <<>> ELSE Next1(k[m - 1], m)]
           after == CHOOSE k : k = After(k)
           F == [m \in 1 .. n |-> [x \in X |-> Next1(x, m)]]
           e == <<>>
<1>1. FirstOfName(s) = after[n]
  BY DEF FirstOfName
<1>2. n \in Nat /\ \A m \in 1 .. n : s[m] \in S
  BY LenProperties
<1>3. e \in X
  OBVIOUS
<1>4. ASSUME NEW m \in 1 .. n, NEW x \in X PROVE Next1(x, m) \in X
  BY <1>2, AppendProperties
<1>5. \A m, x : Next1(x, m) = IF \A j \in 1 .. (m - 1) : s[j].name # s[m].name THEN Append(x, s[m]) ELSE x
  OBVIOUS
<1> HIDE DEF Next1, X, n
<1>6. F \in [1 .. n -> [X -> X]]
  BY <1>4
<1>7. PICK f \in [0 .. n -> X] : IsLoop(f, n, e, F)
  <2> HIDE DEF F, e
  <2>1. QED BY <1>2, <1>3, <1>6, Loop
<1>8. f = After(f)
  <2>1. ASSUME NEW m \in 0 .. n, m # 0 PROVE F[m][f[m - 1]] = Next1(f[m - 1], m)
    <3>1. m \in 1 .. n /\ m - 1 \in 0 .. n
      BY <2>1, <1>2
    <3>2. f[m - 1] \in X
      <4> HIDE DEF F, e
      <4>1. QED BY <3>1, <1>7
    <3>3. QED BY <3>1, <3>2
  <2> HIDE DEF F
  <2>2. QED BY <2>1, <1>7 DEF IsLoop
<1>9. after = After(after)
  BY <1>8
<1> HIDE DEF after
<1>10. \A m \in 0 .. n : after[m] = IF m = 0 THEN e ELSE Next1(after[m - 1], m)
  BY <1>9
<1> HIDE DEF e
<1> DEFINE G == {m \in 0 .. n : after[m] \in X /\ (i =< m => s[i] \in Range(after[m]))}
<1>11. 0 \in G
  <2>1. 0 \in 0 .. n /\ ~(i =< 0)
    BY <1>2
  <2>2. after[0] = e
    BY <2>1, <1>10
  <2>3. QED BY <2>1, <2>2, <1>3
<1>12. ASSUME NEW m \in 1 .. n, m - 1 \in G PROVE m \in G
  <2> DEFINE r == after[m - 1]
             q == after[m]
             first == \A j \in 1 .. (m - 1) : s[j].name # s[m].name
  <2>1. m \in 0 .. n /\ m # 0 /\ s[m] \in S /\ r \in X
    BY <1>2, <1>12
  <2>2. q = IF first THEN Append(r, s[m]) ELSE r
    BY <2>1, <1>5, <1>10
  <2>3. i =< m - 1 => s[i] \in Range(r)
    BY <1>12
  <2>4. q \in X
    <3>1. q = Next1(r, m)
      BY <2>1, <1>10
    <3>2. QED BY <2>1, <3>1, <1>4
  <2>5. i = m => first
    OBVIOUS
  <2> HIDE DEF r, q, first
  <2>6. Range(Append(r, s[m])) = Range(r) \cup {s[m]}
    <3>1. r \in Seq(S)
      BY <2>1 DEF X
    <3>2. /\ Append(r, s[m]) \in Seq(S) /\ Len(Append(r, s[m])) = Len(r) + 1 /\ Len(r) \in Nat
          /\ \A l \in 1 .. Len(r) : Append(r, s[m])[l] = r[l]
          /\ Append(r, s[m])[Len(r) + 1] = s[m]
      BY <2>1, <3>1, AppendProperties, LenProperties
    <3>3. Range(r) = {r[l] : l \in 1 .. Len(r)}
      BY <3>1, RangeIn
    <3>4. Range(Append(r, s[m])) = {Append(r, s[m])[l] : l \in 1 .. (Len(r) + 1)}
      BY <3>2, RangeIn
    <3>5. 1 .. (Len(r) + 1) = (1 .. Len(r)) \cup {Len(r) + 1}
      BY <3>2
    <3>6. QED BY <3>2, <3>3, <3>4, <3>5
  <2>7. i =< m => i = m \/ i =< m - 1
    BY <1>2
  <2>8. i =< m => s[i] \in Range(q)
    BY <2>2, <2>3, <2>5, <2>6, <2>7
  <2>9. QED BY <2>1, <2>4, <2>8 DEF q
<1> HIDE DEF G
<1>13. \A m \in 0 .. n : m \in G
  BY <1>11, <1>12, <1>2, Upto
<1>14. n \in 0 .. n /\ i =< n
  BY <1>2 DEF n
<1>15. QED BY <1>13, <1>14, <1>1 DEF G

LEMMA ConcatRange ==
  ASSUME NEW S, NEW a \in Seq(S), NEW b \in Seq(S)
  PROVE  a \o b \in Seq(S) /\ Range(a \o b) = Range(a) \cup Range(b)
<1> DEFINE c == a \o b
<1>1. /\ c \in Seq(S) /\ Len(c) = Len(a) + Len(b) /\ Len(a) \in Nat /\ Len(b) \in Nat
      /\ \A l \in 1 .. Len(a) + Len(b) : c[l] = IF l <= Len(a) THEN a[l] ELSE b[l - Len(a)]
  BY ConcatProperties, LenProperties
<1> HIDE DEF c
<1>2. /\ Range(a) = {a[l] : l \in 1 .. Len(a)} /\ Range(b) = {b[l] : l \in 1 .. Len(b)}
      /\ Range(c) = {c[l] : l \in 1 .. Len(a) + Len(b)}
  BY <1>1, RangeIn
<1>3. \A l \in 1 .. Len(a) : c[l] = a[l] /\ l \in 1 .. Len(a) + Len(b)
  BY <1>1
<1>4. ASSUME NEW l \in 1 .. Len(b) PROVE b[l] = c[l + Len(a)] /\ l + Len(a) \in 1 .. Len(a) + Len(b)
  <2>1. l + Len(a) \in 1 .. Len(a) + Len(b) /\ ~(l + Len(a) <= Len(a)) /\ l + Len(a) - Len(a) = l
    BY <1>1
  <2>2. QED BY <2>1, <1>1
<1>5. ASSUME NEW l \in 1 .. Len(a) + Len(b)
      PROVE  \/ c[l] = a[l] /\ l \in 1 .. Len(a)
             \/ c[l] = b[l - Len(a)] /\ l - Len(a) \in 1 .. Len(b)
  BY <1>1
<1>6. Range(c) = Range(a) \cup Range(b)
  BY <1>2, <1>3, <1>4, <1>5
<1>7. QED BY <1>1, <1>6 DEF c

LEMMA HeadInRange ==
  ASSUME NEW S, NEW s \in Seq(S), s # <<>>
  PROVE  Head(s) \in Range(s)
<1>1. Head(s) = s[1] /\ 1 \in 1 .. Len(s)
  <2>1. Len(s) \in Nat \ {0} /\ Head(s) = s[1]
    BY LenProperties, EmptySeq, HeadTailProperties
  <2>2. QED BY <2>1
<1>2. Range(s) = {s[i] : i \in 1 .. Len(s)}
  BY RangeIn
<1>3. QED BY <1>1, <1>2

(* A name in every database: the packages of that name, in their order.    *)
LEMMA InEveryDbHas ==
  ASSUME NEW m
  PROVE  Range(InEveryDb(m)) = {Named(r, m) : r \in {d \in Dbs : m \in Sync[d]}}
<1> DEFINE n == Len(Repos)
           X == Seq(SyncPkgs)
           Next1(x, i) == x \o GetPkg(Repos[i], m)
           After(k) == [i \in 0 .. n |-> IF i = 0 THEN <<>> ELSE Next1(k[i - 1], i)]
           after == CHOOSE k : k = After(k)
           F == [i \in 1 .. n |-> [x \in X |-> Next1(x, i)]]
           e == <<>>
<1>1. InEveryDb(m) = after[n]
  BY DEF InEveryDb
<1>2. n \in Nat /\ \A i \in 1 .. n : Repos[i] \in Dbs
  BY LenProperties, ReposAre
<1>3. e \in X /\ Range(e) = {}
  BY DEF Range
<1>4. ASSUME NEW i \in 1 .. n, NEW x \in X
      PROVE  /\ Next1(x, i) \in X
             /\ Range(Next1(x, i)) = Range(x) \cup (IF m \in Sync[Repos[i]] THEN {Named(Repos[i], m)} ELSE {})
  <2> DEFINE g == GetPkg(Repos[i], m)
  <2>1. g \in Seq(SyncPkgs)
    BY <1>2, GetPkgIs
  <2>2. Range(g) = IF m \in Sync[Repos[i]] THEN {Named(Repos[i], m)} ELSE {}
    BY DEF GetPkg, Range
  <2> HIDE DEF g
  <2>3. x \o g \in Seq(SyncPkgs) /\ Range(x \o g) = Range(x) \cup Range(g)
    BY <2>1, ConcatRange
  <2>4. QED BY <2>2, <2>3 DEF g
<1> HIDE DEF Next1, X, n
<1>5. F \in [1 .. n -> [X -> X]]
  BY <1>4
<1>6. PICK f \in [0 .. n -> X] : IsLoop(f, n, e, F)
  <2> HIDE DEF F, e
  <2>1. QED BY <1>2, <1>3, <1>5, Loop
<1>7. f = After(f)
  <2>1. ASSUME NEW i \in 0 .. n, i # 0 PROVE F[i][f[i - 1]] = Next1(f[i - 1], i)
    <3>1. i \in 1 .. n /\ i - 1 \in 0 .. n
      BY <2>1, <1>2
    <3>2. f[i - 1] \in X
      <4> HIDE DEF F, e
      <4>1. QED BY <3>1, <1>6
    <3>3. QED BY <3>1, <3>2
  <2> HIDE DEF F
  <2>2. QED BY <2>1, <1>6 DEF IsLoop
<1>8. after = After(after)
  BY <1>7
<1> HIDE DEF after
<1>9. \A i \in 0 .. n : after[i] = IF i = 0 THEN e ELSE Next1(after[i - 1], i)
  BY <1>8
<1> HIDE DEF e
<1> DEFINE In(i) == {Named(Repos[j], m) : j \in {l \in 1 .. i : m \in Sync[Repos[l]]}}
           G == {i \in 0 .. n : after[i] \in X /\ Range(after[i]) = In(i)}
<1>10. 0 \in G
  <2>1. 0 \in 0 .. n /\ In(0) = {}
    BY <1>2
  <2>2. after[0] = e
    BY <2>1, <1>9
  <2>3. QED BY <2>1, <2>2, <1>3
<1>11. ASSUME NEW i \in 1 .. n, i - 1 \in G PROVE i \in G
  <2>1. i \in 0 .. n /\ i # 0 /\ after[i - 1] \in X /\ Range(after[i - 1]) = In(i - 1)
    BY <1>2, <1>11
  <2>2. after[i] = Next1(after[i - 1], i)
    BY <2>1, <1>9
  <2>3. after[i] \in X /\ Range(after[i]) = In(i - 1) \cup (IF m \in Sync[Repos[i]] THEN {Named(Repos[i], m)} ELSE {})
    BY <2>1, <2>2, <1>4
  <2>4. 1 .. i = (1 .. (i - 1)) \cup {i}
    BY <1>2
  <2>5. In(i) = In(i - 1) \cup (IF m \in Sync[Repos[i]] THEN {Named(Repos[i], m)} ELSE {})
    BY <2>4
  <2>6. QED BY <2>1, <2>3, <2>5
<1> HIDE DEF G
<1>12. \A i \in 0 .. n : i \in G
  BY <1>10, <1>11, <1>2, Upto
<1>13. n \in 0 .. n
  BY <1>2
<1>14. Range(InEveryDb(m)) = In(n)
  BY <1>1, <1>12, <1>13 DEF G
<1>15. Dbs = {Repos[j] : j \in 1 .. n}
  BY ReposAre, RangeIn DEF n, Dbs
<1>16. QED BY <1>14, <1>15

LEMMA InEveryDbNames ==
  ASSUME NEW m
  PROVE  /\ \A i \in 1 .. Len(InEveryDb(m)) : InEveryDb(m)[i].name = m /\ InEveryDb(m)[i] \in SyncPkgs
         /\ (\E r \in Dbs : m \in Sync[r]) => InEveryDb(m) # <<>>
         /\ InEveryDb(m) # <<>> => /\ Len(InEveryDb(m)) \in Nat \ {0}
                                   /\ Head(InEveryDb(m)) = InEveryDb(m)[1]
                                   /\ Head(InEveryDb(m)) \in SyncPkgs /\ Head(InEveryDb(m)).name = m
<1> DEFINE s == InEveryDb(m)
<1>1. s \in Seq(SyncPkgs)
  BY InEveryDbIs
<1>2. Range(s) = {Named(r, m) : r \in {d \in Dbs : m \in Sync[d]}}
  BY InEveryDbHas
<1> HIDE DEF s
<1>3. Range(s) = {s[i] : i \in 1 .. Len(s)} /\ Range(s) \subseteq SyncPkgs
  BY <1>1, RangeIn
<1>4. \A x \in Range(s) : x.name = m
  BY <1>2 DEF Named
<1>5. \A i \in 1 .. Len(s) : s[i].name = m /\ s[i] \in SyncPkgs
  BY <1>3, <1>4
<1>6. ASSUME NEW r \in Dbs, m \in Sync[r] PROVE s # <<>>
  <2>1. Range(s) # {}
    BY <1>2, <1>6
  <2>2. QED BY <2>1 DEF Range
<1>7. ASSUME s # <<>> PROVE Len(s) \in Nat \ {0} /\ Head(s) = s[1] /\ 1 \in 1 .. Len(s)
  <2>1. Len(s) \in Nat \ {0} /\ Head(s) = s[1]
    BY <1>1, <1>7, LenProperties, EmptySeq, HeadTailProperties
  <2>2. QED BY <2>1
<1>8. QED BY <1>5, <1>6, <1>7 DEF s

(* The first of every name stays what is taken for it.                     *)
LEMMA FirstIsFirst ==
  ASSUME NEW m, InEveryDb(m) # <<>>
  PROVE  SameAsFirst(Head(InEveryDb(m)))
BY InEveryDbNames DEF SameAsFirst

LEMMA MembersAreFirst ==
  ASSUME NEW g, NEW i \in 1 .. Len(Members(g))
  PROVE  Members(g)[i] \in SyncPkgs /\ SameAsFirst(Members(g)[i])
<1> DEFINE S == {p \in SyncPkgs : g \in Groups[p] /\ p = Head(InEveryDb(p.name))}
<1>1. Members(g) = SetToSeq(S)
  BY DEF Members
<1>2. S \in SUBSET SyncPkgs /\ IsFiniteSet(SyncPkgs)
  BY RepoAssumption
<1>3. \A p \in S : SameAsFirst(p)
  BY DEF SameAsFirst
<1> HIDE DEF S
<1>4. IsFiniteSet(S)
  BY <1>2, FS_Subset
<1>5. Cardinality(S) \in Nat /\ ExistsBijection(1 .. Cardinality(S), S)
  BY <1>4, FS_CardinalityType
<1>6. \E f \in [1 .. Cardinality(S) -> S] : IsInjective(f)
  BY <1>5 DEF ExistsBijection, Bijection, Injection
<1>7. SetToSeq(S) \in [1 .. Cardinality(S) -> S]
  BY <1>6 DEF SetToSeq
<1>8. SetToSeq(S) \in Seq(S)
  BY <1>5, <1>7, SeqDef
<1>9. Members(g)[i] \in S
  BY <1>1, <1>8, LenProperties
<1>10. QED BY <1>2, <1>3, <1>9

(* A package that is found among the provided names provides one.          *)
LEMMA SatisfyingFirst ==
  ASSUME OneVersion, NEW m, InEveryDb(m) = <<>>, Satisfying(m) # <<>>
  PROVE  Satisfying(m)[1] \in SyncPkgs /\ SameAsFirst(Satisfying(m)[1])
<1> DEFINE T == {r \in Dbs : Satisfiers(r, m) # {}}
           dbs == Those(Repos, T)
           p == CHOOSE q \in Satisfiers(Head(dbs), m) : TRUE
<1>1. dbs \in Seq(Dbs \cap T)
  BY ReposAre, ThoseIs
<1>2. Satisfying(m) = IF dbs = <<>> THEN <<>> ELSE <<p>>
  BY DEF Satisfying
<1>3. dbs # <<>>
  BY <1>2
<1>4. Head(dbs) \in Dbs /\ Head(dbs) \in T
  <2> HIDE DEF T, dbs
  <2>1. QED BY <1>1, <1>3, HeadTailProperties
<1>5. p \in Satisfiers(Head(dbs), m)
  BY <1>4
<1>6. m \notin Sync[Head(dbs)]
  BY <1>4, InEveryDbNames
<1> HIDE DEF p, dbs
<1>7. Satisfying(m)[1] = p
  <2>1. Satisfying(m) = <<p>>
    BY <1>2, <1>3
  <2>2. <<p>>[1] = p
    OBVIOUS
  <2>3. QED BY <2>1, <2>2
<1>8. p \in SyncPkgs /\ m \in Provides[p]
  BY <1>5, <1>6 DEF Satisfiers
<1>9. Provides[p] # {}
  BY <1>8
<1>10. QED BY <1>7, <1>8, <1>9 DEF OneVersion

(* A name that the walk looks up: of a dependency, or of a configuration   *)
(* that is to respect NamesExist and OneVersion.                           *)
GoodName(t) ==
  /\ t.db = FileDb => t \in Files
  /\ t.db \notin {AnyDb, FileDb} => t \in SyncPkgs /\ SameAsFirst(t)

Firsts == {p \in Pkgs : p \in SyncPkgs => SameAsFirst(p)}

LEMMA SyncDb ==
  ASSUME NEW p \in SyncPkgs
  PROVE  p \notin Files /\ p.db \in Dbs /\ p.db \notin {AnyDb, FileDb} /\ p = Named(p.db, p.name) /\ p.name \in Sync[p.db]
<1>1. PICK r \in Dbs : \E m \in Sync[r] : p = Named(r, m)
  BY DEF SyncPkgs
<1>2. PICK m \in Sync[r] : p = Named(r, m)
  BY <1>1
<1>3. p.db = r /\ p.name = m
  BY <1>2 DEF Named
<1>4. r \notin {AnyDb, FileDb}
  BY RepoAssumption
<1>5. QED BY <1>2, <1>3, <1>4, RepoAssumption

(* What pacman takes for a name is among what the walk looks up for it,    *)
(* and is the first of its name.                                           *)
LEMMA TakenIs ==
  ASSUME NEW t, t.db = FileDb => t \in Files, t.db \notin {AnyDb, FileDb} => t \in SyncPkgs
  PROVE  Taken(t) \subseteq Meant(t)
<1>1. CASE t.db = FileDb
  <2>1. Taken(t) = {t}
    BY <1>1, RepoAssumption DEF Taken
  <2>2. Lookup(t, <<>>).pkgs = <<t>>
    BY <1>1 DEF Lookup
  <2>3. Range(<<t>>) = {t}
    BY DEF Range
  <2>4. QED BY <2>1, <2>2, <2>3 DEF Meant
<1>2. CASE t.db \notin {AnyDb, FileDb}
  <2>1. Taken(t) = {t}
    BY <1>2 DEF Taken
  <2>2. t \in Pkgs
    BY <1>2 DEF Pkgs
  <2>3. QED BY <1>2, <2>1, <2>2, NamedIs
<1>3. CASE t.db = AnyDb
  <2> DEFINE m == t.name
             d == Direct(t)
  <2>1. /\ Members(m) \in Seq(SyncPkgs) /\ InEveryDb(m) \in Seq(SyncPkgs)
        /\ Satisfying(m) \in Seq(SyncPkgs)
    BY MembersIs, InEveryDbIs, SatisfyingIs
  <2>2. d = Members(m) \o InEveryDb(m)
    BY <1>3 DEF Direct
  <2>3. d \in Seq(SyncPkgs) /\ Range(d) = Range(Members(m)) \cup Range(InEveryDb(m))
    BY <2>1, <2>2, ConcatRange
  <2>4. d # <<>> => Meant(t) = Range(d)
    BY <1>3, RepoAssumption DEF Lookup, Meant
  <2>5. d = <<>> => Meant(t) = Range(Satisfying(m))
    BY <1>3, RepoAssumption DEF Lookup, Meant
  <2> HIDE DEF d, m
  <2>6. CASE InEveryDb(m) # <<>>
    <3>1. Taken(t) = {Head(InEveryDb(m))}
      BY <1>3, <2>6 DEF Taken, m
    <3>2. Head(InEveryDb(m)) \in Range(InEveryDb(m))
      BY <2>1, <2>6, HeadInRange
    <3>3. d # <<>>
      <4>1. Range(<<>>) = {}
        BY DEF Range
      <4>2. Head(InEveryDb(m)) \in Range(d)
        BY <2>3, <3>2
      <4>3. QED BY <4>1, <4>2
    <3>4. QED BY <2>3, <2>4, <3>1, <3>2, <3>3
  <2>7. CASE InEveryDb(m) = <<>> /\ Members(m) # <<>>
    <3>1. Taken(t) = Range(Members(m))
      BY <1>3, <2>7 DEF Taken, m
    <3>2. d # <<>>
      <4>1. Head(Members(m)) \in Range(Members(m))
        BY <2>1, <2>7, HeadInRange
      <4>2. Range(<<>>) = {}
        BY DEF Range
      <4>3. Head(Members(m)) \in Range(d)
        BY <4>1, <2>3
      <4>4. QED BY <4>2, <4>3
    <3>3. QED BY <2>3, <2>4, <3>1, <3>2
  <2>8. CASE InEveryDb(m) = <<>> /\ Members(m) = <<>>
    <3>1. Taken(t) = Range(Satisfying(m))
      BY <1>3, <2>8 DEF Taken, m
    <3>2. d = <<>>
      BY <2>2, <2>8
    <3>3. QED BY <2>5, <3>1, <3>2
  <2>9. QED BY <2>6, <2>7, <2>8
<1>4. QED BY <1>1, <1>2, <1>3

LEMMA TakenFirst ==
  ASSUME OneVersion, NEW t, GoodName(t), NEW p \in Taken(t), p \in SyncPkgs
  PROVE  SameAsFirst(p)
<1>1. CASE t.db # AnyDb
  <2>1. p = t
    BY <1>1 DEF Taken
  <2>2. t.db # FileDb
    BY <2>1, SyncDb
  <2>3. QED BY <1>1, <2>1, <2>2 DEF GoodName
<1>2. CASE t.db = AnyDb /\ InEveryDb(t.name) # <<>>
  <2>1. p = Head(InEveryDb(t.name))
    BY <1>2 DEF Taken
  <2>2. QED BY <1>2, <2>1, FirstIsFirst
<1>3. CASE t.db = AnyDb /\ InEveryDb(t.name) = <<>> /\ Members(t.name) # <<>>
  <2>1. p \in Range(Members(t.name))
    BY <1>3 DEF Taken
  <2>2. Range(Members(t.name)) = {Members(t.name)[i] : i \in 1 .. Len(Members(t.name))}
    BY MembersIs, RangeIn
  <2>3. QED BY <2>1, <2>2, MembersAreFirst
<1>4. CASE t.db = AnyDb /\ InEveryDb(t.name) = <<>> /\ Members(t.name) = <<>>
  <2> DEFINE s == Satisfying(t.name)
  <2>1. p \in Range(s)
    BY <1>4 DEF Taken
  <2>2. s # <<>>
    BY <2>1 DEF Range
  <2>3. s = <<s[1]>>
    BY <2>2, SatisfyingIs
  <2>4. SameAsFirst(s[1])
    BY <1>4, <2>2, SatisfyingFirst
  <2> HIDE DEF s
  <2>5. \A x : x \in Range(<<s[1]>>) => x = s[1]
    BY DEF Range
  <2>6. QED BY <2>1, <2>3, <2>4, <2>5
<1>5. QED BY <1>1, <1>2, <1>3, <1>4

(* What pacman installs for names: at least what it takes for them, and    *)
(* nothing outside a set that has this and what its packages depend on.    *)
LEMMA TransactionIs ==
  ASSUME NEW names, NEW S,
         NEW N \in SUBSET Pkgs, \A t \in Range(names) : Taken(t) \subseteq N,
         \A p \in N : \A d \in Range(Depends[p]) : Taken(d) \subseteq N
  PROVE  /\ Transaction(names, S) \subseteq N
         /\ \A t \in Range(names) : Taken(t) \subseteq Transaction(names, S)
<1> DEFINE n == Cardinality(Pkgs)
           asked == UNION {Taken(t) : t \in Range(names)}
           missing(Q) == {d \in UNION {Range(Depends[p]) : p \in Q} : ~Satisfied(d, S \cup asked)}
           X == SUBSET N
           Next1(x) == x \cup UNION {Taken(d) : d \in missing(x)}
           Within(k) == [i \in 0 .. n |-> IF i = 0 THEN asked
                                          ELSE LET known == k[i - 1] IN known \cup UNION {Taken(d) : d \in missing(known)}]
           within == CHOOSE k : k = Within(k)
           F == [i \in 1 .. n |-> [x \in X |-> Next1(x)]]
<1>1. Transaction(names, S) = within[n]
  BY DEF Transaction
<1>2. n \in Nat
  <2>1. IsFiniteSet(Pkgs)
    BY RepoAssumption, FS_Union DEF Pkgs
  <2>2. QED BY <2>1, FS_CardinalityType
<1>3. asked \in X
  OBVIOUS
<1>4. ASSUME NEW x \in X PROVE Next1(x) \in X
  OBVIOUS
<1>5. \A k : Within(k) = [i \in 0 .. n |-> IF i = 0 THEN asked ELSE Next1(k[i - 1])]
  OBVIOUS
<1>6. \A x : x \subseteq Next1(x)
  OBVIOUS
<1>7. \A t \in Range(names) : Taken(t) \subseteq asked
  OBVIOUS
<1> HIDE DEF asked, Next1, X, n, Within
<1>8. F \in [1 .. n -> [X -> X]]
  BY <1>4
<1>9. PICK f \in [0 .. n -> X] : IsLoop(f, n, asked, F)
  <2> HIDE DEF F
  <2>1. QED BY <1>2, <1>3, <1>8, Loop
<1>10. f = Within(f)
  <2>1. ASSUME NEW i \in 0 .. n, i # 0 PROVE F[i][f[i - 1]] = Next1(f[i - 1])
    <3>1. i \in 1 .. n /\ i - 1 \in 0 .. n
      BY <2>1, <1>2
    <3>2. f[i - 1] \in X
      <4> HIDE DEF F
      <4>1. QED BY <3>1, <1>9
    <3>3. QED BY <3>1, <3>2
  <2> HIDE DEF F
  <2>2. QED BY <2>1, <1>5, <1>9 DEF IsLoop
<1>11. within = Within(within)
  BY <1>10
<1> HIDE DEF within
<1>12. \A i \in 0 .. n : within[i] = IF i = 0 THEN asked ELSE Next1(within[i - 1])
  BY <1>5, <1>11
<1> DEFINE G == {i \in 0 .. n : within[i] \in X /\ asked \subseteq within[i]}
<1>13. 0 \in G
  <2>1. 0 \in 0 .. n
    BY <1>2
  <2>2. within[0] = asked
    BY <2>1, <1>12
  <2>3. QED BY <2>1, <2>2, <1>3
<1>14. ASSUME NEW i \in 1 .. n, i - 1 \in G PROVE i \in G
  <2>1. i \in 0 .. n /\ i # 0
    BY <1>2
  <2>2. within[i] = Next1(within[i - 1])
    BY <2>1, <1>12
  <2>3. QED BY <2>1, <2>2, <1>4, <1>6, <1>14
<1> HIDE DEF G
<1>15. \A i \in 0 .. n : i \in G
  BY <1>13, <1>14, <1>2, Upto
<1>16. n \in 0 .. n
  BY <1>2
<1>17. within[n] \in X /\ asked \subseteq within[n]
  BY <1>15, <1>16 DEF G
<1>18. QED BY <1>1, <1>7, <1>17 DEF X

(* The walk meets, before or as the first of the packages of a name, one   *)
(* that is the same as in the first database with the name.                *)
Leads(q, p) == q \in SyncPkgs /\ q.name = p.name /\ SameAsFirst(q)
Led(s) == \A i \in 1 .. Len(s) : s[i] \in SyncPkgs => \E j \in 1 .. i : Leads(s[j], s[i])

Before(todo, i) == {todo[j].of : j \in {l \in 1 .. i : todo[l].kind # "name"}}
TodoLed(todo, S) ==
  \A i \in 1 .. Len(todo) : todo[i].kind # "name" /\ todo[i].of \in SyncPkgs
      => \E q \in S \cup Before(todo, i) : Leads(q, todo[i].of)
TodoGood(todo) == \A i \in 1 .. Len(todo) : todo[i].kind = "name" => GoodName(todo[i].of)

Ordered(w) == Led(w.tree) /\ TodoGood(w.todo) /\ TodoLed(w.todo, Range(w.tree))

LEMMA LookupLed ==
  ASSUME OneVersion, NEW t, GoodName(t)
  PROVE  Led(Lookup(t, <<>>).pkgs)
<1> DEFINE s == Lookup(t, <<>>).pkgs
<1>1. s \in Seq(Pkgs)
  BY LookupPkgs DEF GoodName
<1>2. ASSUME \A i \in 1 .. Len(s) : s[i] \in SyncPkgs => SameAsFirst(s[i]) PROVE Led(s)
  <2> HIDE DEF s
  <2>1. ASSUME NEW i \in 1 .. Len(s), s[i] \in SyncPkgs PROVE \E j \in 1 .. i : Leads(s[j], s[i])
    <3>1. i \in 1 .. i /\ Leads(s[i], s[i])
      BY <1>1, <1>2, <2>1, LenProperties DEF Leads
    <3>2. QED BY <3>1
  <2>2. QED BY <2>1 DEF Led
<1>3. CASE t.db = FileDb
  <2>1. s = <<t>>
    BY <1>3 DEF Lookup
  <2>2. t \notin SyncPkgs
    BY <1>3, SyncDb DEF GoodName
  <2>3. QED BY <1>2, <2>1, <2>2
<1>4. CASE t.db \notin {AnyDb, FileDb}
  <2>1. t \in SyncPkgs /\ SameAsFirst(t) /\ t \in Pkgs
    BY <1>4 DEF GoodName, Pkgs
  <2>2. Range(s) = {t}
    BY <1>4, <2>1, NamedIs DEF Meant
  <2> HIDE DEF s
  <2>3. Range(s) = {s[i] : i \in 1 .. Len(s)}
    BY <1>1, RangeIn
  <2>4. \A i \in 1 .. Len(s) : s[i] = t
    BY <2>2, <2>3
  <2>5. QED BY <1>2, <2>1, <2>4 DEF s
<1>5. CASE t.db = AnyDb /\ Direct(t) # <<>>
  <2> DEFINE a == Members(t.name)
             b == InEveryDb(t.name)
  <2>1. s = a \o b
    BY <1>5, RepoAssumption DEF Lookup, Direct
  <2>2. a \in Seq(SyncPkgs) /\ b \in Seq(SyncPkgs)
    BY MembersIs, InEveryDbIs
  <2>3. \A i \in 1 .. Len(a) : SameAsFirst(a[i])
    BY MembersAreFirst
  <2>4. /\ \A i \in 1 .. Len(b) : b[i].name = t.name
        /\ b # <<>> => Head(b) = b[1] /\ SameAsFirst(Head(b)) /\ Len(b) \in Nat \ {0} /\ Head(b) \in SyncPkgs
    BY InEveryDbNames, FirstIsFirst
  <2> HIDE DEF a, b, s
  <2>5. /\ Len(a) \in Nat /\ Len(b) \in Nat /\ Len(s) = Len(a) + Len(b)
        /\ \A i \in 1 .. Len(a) + Len(b) : s[i] = IF i <= Len(a) THEN a[i] ELSE b[i - Len(a)]
    BY <2>1, <2>2, ConcatProperties, LenProperties
  <2>6. ASSUME NEW i \in 1 .. Len(s), s[i] \in SyncPkgs PROVE \E j \in 1 .. i : Leads(s[j], s[i])
    <3>1. CASE i <= Len(a)
      <4>1. i \in 1 .. i /\ i \in 1 .. Len(a) /\ s[i] = a[i]
        BY <2>5, <3>1
      <4>2. Leads(s[i], s[i])
        BY <2>3, <2>6, <4>1 DEF Leads
      <4>3. QED BY <4>1, <4>2
    <3>2. CASE ~(i <= Len(a))
      <4> DEFINE j == Len(a) + 1
                 l == i - Len(a)
      <4>1. l \in 1 .. Len(b) /\ s[i] = b[l]
        BY <2>5, <3>2
      <4>2. b # <<>>
        BY <2>2, <4>1, EmptySeq
      <4>3. Len(b) >= 1 /\ b[1] \in SyncPkgs /\ b[1].name = t.name /\ SameAsFirst(b[1]) /\ b[l].name = t.name
        <5>1. 1 \in 1 .. Len(b)
          BY <2>4, <4>2
        <5>2. QED BY <2>4, <4>1, <4>2, <5>1
      <4>4. j \in 1 .. i /\ s[j] = b[1]
        <5>1. j \in 1 .. Len(a) + Len(b) /\ j \in 1 .. i /\ ~(j <= Len(a)) /\ j - Len(a) = 1
          BY <2>5, <3>2, <4>3
        <5> HIDE DEF j
        <5>2. QED BY <2>5, <5>1
      <4> HIDE DEF j, l
      <4>5. Leads(s[j], s[i])
        BY <4>1, <4>3, <4>4 DEF Leads
      <4>6. QED BY <4>4, <4>5
    <3>3. QED BY <3>1, <3>2
  <2>7. QED BY <2>6 DEF Led, s
<1>6. CASE t.db = AnyDb /\ Direct(t) = <<>>
  <2> DEFINE a == Members(t.name)
             b == InEveryDb(t.name)
             u == Satisfying(t.name)
  <2>1. s = u
    <3>1. t.name \notin DOMAIN <<>>
      OBVIOUS
    <3>2. QED BY <1>6, <3>1, RepoAssumption DEF Lookup
  <2>2. b = <<>>
    <3>1. a \o b = <<>>
      BY <1>6 DEF Direct
    <3>2. a \in Seq(SyncPkgs) /\ b \in Seq(SyncPkgs)
      BY MembersIs, InEveryDbIs
    <3> HIDE DEF a, b
    <3>3. Len(a) \in Nat /\ Len(b) \in Nat /\ Len(a \o b) = Len(a) + Len(b)
      BY <3>2, ConcatProperties, LenProperties
    <3>4. Len(a \o b) = 0
      BY <3>1
    <3>5. Len(b) = 0
      BY <3>3, <3>4
    <3>6. QED BY <3>2, <3>5, EmptySeq
  <2>3. u # <<>> => SameAsFirst(u[1]) /\ u = <<u[1]>>
    BY <2>2, SatisfyingFirst, SatisfyingIs
  <2> HIDE DEF u, s
  <2>4. ASSUME NEW i \in 1 .. Len(s) PROVE SameAsFirst(s[i])
    <3>1. u # <<>>
      BY <2>1
    <3> DEFINE p == u[1]
    <3>2. s = <<p>> /\ SameAsFirst(p)
      BY <2>1, <2>3, <3>1
    <3> HIDE DEF p
    <3>3. i = 1 /\ <<p>>[1] = p
      BY <3>2
    <3>4. QED BY <3>2, <3>3
  <2>5. QED BY <1>2, <2>4 DEF s
<1>7. QED BY <1>3, <1>4, <1>5, <1>6

LEMMA ConcatOrdered ==
  ASSUME NEW a, NEW b, IsSequence(a), IsSequence(b), NEW S,
         TodoLed(a, S), TodoLed(b, S), TodoGood(a), TodoGood(b)
  PROVE  TodoLed(a \o b, S) /\ TodoGood(a \o b)
<1> DEFINE c == a \o b
           Q == Range(a) \cup Range(b)
<1>1. a \in Seq(Q) /\ b \in Seq(Q)
  BY SeqMonotonic DEF IsSequence
<1> HIDE DEF Q
<1>2. /\ Len(a) \in Nat /\ Len(b) \in Nat /\ Len(c) = Len(a) + Len(b)
      /\ \A i \in 1 .. Len(a) + Len(b) : c[i] = IF i <= Len(a) THEN a[i] ELSE b[i - Len(a)]
  BY <1>1, ConcatProperties, LenProperties
<1> HIDE DEF c
<1>3. ASSUME NEW i \in 1 .. Len(c)
      PROVE  \/ i \in 1 .. Len(a) /\ c[i] = a[i] /\ Before(a, i) \subseteq Before(c, i)
             \/ \E k \in 1 .. Len(b) : c[i] = b[k] /\ Before(b, k) \subseteq Before(c, i)
  <2>1. CASE i <= Len(a)
    <3>1. \A j \in 1 .. i : c[j] = a[j]
      BY <1>2, <2>1
    <3>2. i \in 1 .. Len(a) /\ i \in 1 .. i
      BY <1>2, <2>1
    <3>3. QED BY <3>1, <3>2 DEF Before
  <2>2. CASE ~(i <= Len(a))
    <3> DEFINE k == i - Len(a)
    <3>1. k \in 1 .. Len(b) /\ c[i] = b[k]
      BY <1>2, <2>2
    <3>2. ASSUME NEW j \in 1 .. k PROVE j + Len(a) \in 1 .. i /\ c[j + Len(a)] = b[j]
      <4>1. j + Len(a) \in 1 .. Len(a) + Len(b) /\ ~(j + Len(a) <= Len(a)) /\ j + Len(a) - Len(a) = j /\ j + Len(a) \in 1 .. i
        BY <1>2, <2>2
      <4>2. QED BY <4>1, <1>2
    <3> HIDE DEF k
    <3>3. Before(b, k) \subseteq Before(c, i)
      BY <3>2 DEF Before
    <3>4. QED BY <3>1, <3>3
  <2>3. QED BY <2>1, <2>2
<1>4. TodoGood(c)
  BY <1>3 DEF TodoGood
<1>5. TodoLed(c, S)
  <2> SUFFICES ASSUME NEW i \in 1 .. Len(c), c[i].kind # "name", c[i].of \in SyncPkgs
               PROVE  \E q \in S \cup Before(c, i) : Leads(q, c[i].of)
    BY DEF TodoLed
  <2>1. CASE i \in 1 .. Len(a) /\ c[i] = a[i] /\ Before(a, i) \subseteq Before(c, i)
    <3>1. PICK q \in S \cup Before(a, i) : Leads(q, a[i].of)
      BY <2>1 DEF TodoLed
    <3>2. QED BY <2>1, <3>1
  <2>2. CASE \E k \in 1 .. Len(b) : c[i] = b[k] /\ Before(b, k) \subseteq Before(c, i)
    <3>1. PICK k \in 1 .. Len(b) : c[i] = b[k] /\ Before(b, k) \subseteq Before(c, i)
      BY <2>2
    <3>2. PICK q \in S \cup Before(b, k) : Leads(q, b[k].of)
      BY <3>1 DEF TodoLed
    <3>3. QED BY <3>1, <3>2
  <2>3. QED BY <1>3, <2>1, <2>2
<1>6. QED BY <1>4, <1>5 DEF c

LEMMA TailOrdered ==
  ASSUME NEW s, IsSequence(s), s # <<>>, NEW S, NEW T, S \subseteq T,
         Head(s).kind # "name" => Head(s).of \in T, TodoLed(s, S), TodoGood(s)
  PROVE  TodoLed(Tail(s), T) /\ TodoGood(Tail(s))
<1> DEFINE r == Tail(s)
           Q == Range(s)
<1>1. s \in Seq(Q)
  BY DEF IsSequence
<1> HIDE DEF Q
<1>2. /\ Len(s) \in Nat \ {0} /\ Len(r) = Len(s) - 1 /\ Head(s) = s[1]
      /\ \A i \in 1 .. Len(r) : r[i] = s[i + 1]
  BY <1>1, HeadTailProperties, EmptySeq
<1> HIDE DEF r
<1>3. \A i \in 1 .. Len(r) : i + 1 \in 1 .. Len(s)
  BY <1>2
<1>4. TodoGood(r)
  BY <1>2, <1>3 DEF TodoGood
<1>5. TodoLed(r, T)
  <2> SUFFICES ASSUME NEW i \in 1 .. Len(r), r[i].kind # "name", r[i].of \in SyncPkgs
               PROVE  \E q \in T \cup Before(r, i) : Leads(q, r[i].of)
    BY DEF TodoLed
  <2>1. PICK q \in S \cup Before(s, i + 1) : Leads(q, s[i + 1].of)
    BY <1>2, <1>3 DEF TodoLed
  <2>2. q \in T \cup Before(r, i)
    <3>1. CASE q \in S
      BY <3>1
    <3>2. CASE q \in Before(s, i + 1)
      <4>1. PICK j \in 1 .. i + 1 : s[j].kind # "name" /\ q = s[j].of
        BY <3>2 DEF Before
      <4>2. CASE j = 1
        BY <1>2, <4>1, <4>2
      <4>3. CASE j # 1
        <5> DEFINE l == j - 1
        <5>1. l \in 1 .. i /\ l \in 1 .. Len(r) /\ l + 1 = j
          BY <1>2, <4>1, <4>3
        <5> HIDE DEF l
        <5>2. r[l] = s[j]
          BY <1>2, <5>1
        <5>3. QED BY <4>1, <5>1, <5>2 DEF Before
      <4>4. QED BY <4>2, <4>3
    <3>3. QED BY <2>1, <3>1, <3>2
  <2>3. QED BY <1>2, <2>1, <2>2
<1>6. QED BY <1>4, <1>5 DEF r

LEMMA VisitOrdered ==
  ASSUME NEW S, NEW s \in Seq(S), NEW T
  PROVE  /\ Led(s) => TodoLed(Visit("package", s), T) /\ TodoGood(Visit("package", s))
         /\ (\A t \in Range(s) : GoodName(t)) => TodoLed(Visit("name", s), T) /\ TodoGood(Visit("name", s))
<1>1. Len(s) \in Nat /\ DOMAIN s = 1 .. Len(s) /\ Range(s) = {s[i] : i \in 1 .. Len(s)}
  BY LenProperties, RangeIn
<1>2. ASSUME NEW kind
      PROVE  /\ Len(Visit(kind, s)) = Len(s)
             /\ \A i \in 1 .. Len(s) : Visit(kind, s)[i].kind = kind /\ Visit(kind, s)[i].of = s[i]
  <2> DEFINE v == Visit(kind, s)
             n == Len(s)
             Q == [kind : {kind}, of : S]
  <2>1. v = [i \in 1 .. n |-> [kind |-> kind, of |-> s[i]]]
    BY <1>1 DEF Visit
  <2>2. v \in [1 .. n -> Q]
    BY <2>1, LenProperties
  <2>3. \A i \in 1 .. n : v[i].kind = kind /\ v[i].of = s[i]
    BY <2>1
  <2> HIDE DEF v, Q, n
  <2>4. Len(v) = n
    <3>1. n \in Nat
      BY <1>1 DEF n
    <3>2. v \in Seq(Q)
      BY <2>2, <3>1, SeqDef
    <3>3. QED BY <2>2, <3>1, <3>2, LenProperties
  <2>5. QED BY <2>3, <2>4 DEF v, n
<1>3. ASSUME Led(s) PROVE TodoLed(Visit("package", s), T) /\ TodoGood(Visit("package", s))
  <2> DEFINE v == Visit("package", s)
  <2>1. Len(v) = Len(s) /\ \A i \in 1 .. Len(s) : v[i].kind # "name" /\ v[i].of = s[i]
    BY <1>2
  <2> HIDE DEF v
  <2>2. ASSUME NEW i \in 1 .. Len(v), v[i].of \in SyncPkgs PROVE \E q \in T \cup Before(v, i) : Leads(q, v[i].of)
    <3>1. i \in 1 .. Len(s) /\ v[i].of = s[i]
      BY <2>1
    <3>2. PICK j \in 1 .. i : Leads(s[j], s[i])
      BY <1>3, <2>2, <3>1 DEF Led
    <3>3. j \in 1 .. Len(s)
      BY <1>1, <3>1
    <3>4. s[j] \in Before(v, i)
      BY <2>1, <3>2, <3>3 DEF Before
    <3>5. QED BY <3>1, <3>2, <3>4
  <2>3. QED BY <2>1, <2>2 DEF TodoLed, TodoGood, v
<1>4. ASSUME \A t \in Range(s) : GoodName(t) PROVE TodoLed(Visit("name", s), T) /\ TodoGood(Visit("name", s))
  <2> DEFINE v == Visit("name", s)
  <2>1. Len(v) = Len(s) /\ \A i \in 1 .. Len(s) : v[i].kind = "name" /\ v[i].of = s[i]
    BY <1>2
  <2> HIDE DEF v
  <2>2. QED BY <1>1, <1>4, <2>1 DEF TodoLed, TodoGood, v
<1>5. QED BY <1>3, <1>4

LEMMA AppendLed ==
  ASSUME NEW S, NEW s \in Seq(S), NEW p \in S, Led(s),
         p \in SyncPkgs => \E q \in Range(s) \cup {p} : Leads(q, p)
  PROVE  Led(Append(s, p))
<1> DEFINE n == Len(s)
           a == Append(s, p)
<1>1. n \in Nat /\ Range(s) = {s[i] : i \in 1 .. n}
  BY LenProperties, RangeIn
<1>2. Len(a) = n + 1 /\ a[n + 1] = p /\ \A i \in 1 .. n : a[i] = s[i]
  BY AppendProperties
<1> HIDE DEF a
<1>3. \A i \in 1 .. n : s[i] \in SyncPkgs => \E j \in 1 .. i : Leads(s[j], s[i])
  BY DEF Led
<1> HIDE DEF n
<1>4. ASSUME NEW i \in 1 .. n + 1, a[i] \in SyncPkgs PROVE \E j \in 1 .. i : Leads(a[j], a[i])
  <2>1. CASE i = n + 1
    <3>1. PICK q \in Range(s) \cup {p} : Leads(q, p)
      BY <1>2, <1>4, <2>1
    <3>2. CASE q = p
      <4>1. i \in 1 .. i
        BY <1>1, <2>1
      <4>2. QED BY <1>2, <2>1, <3>1, <3>2, <4>1
    <3>3. CASE q \in Range(s)
      <4>1. PICK j \in 1 .. n : q = s[j]
        BY <1>1, <3>3
      <4>2. j \in 1 .. i /\ a[j] = q
        BY <1>1, <1>2, <2>1, <4>1
      <4>3. QED BY <1>2, <2>1, <3>1, <4>2
    <3>4. QED BY <3>1, <3>2, <3>3
  <2>2. CASE i # n + 1
    <3>1. i \in 1 .. n /\ a[i] = s[i]
      BY <1>1, <1>2, <2>2
    <3>2. PICK j \in 1 .. i : Leads(s[j], s[i])
      BY <1>3, <1>4, <3>1
    <3>3. a[j] = s[j]
      BY <1>1, <1>2, <3>1
    <3>4. QED BY <3>1, <3>2, <3>3
  <2>3. QED BY <2>1, <2>2
<1>5. QED BY <1>2, <1>4 DEF Led, a

LEMMA NameOrdered ==
  ASSUME OneVersion, NEW w, IsWalk(w), IsSequence(w.todo), w.todo # <<>>, Ordered(w),
         Head(w.todo).kind = "name"
  PROVE  Ordered(VisitName(Head(w.todo).of, w))
<1> DEFINE t == Head(w.todo).of
           v == VisitName(t, w)
           rest == Tail(w.todo)
           pkgs == Lookup(t, <<>>).pkgs
           new == Visit("package", pkgs)
           S == Range(w.tree)
<1>1. v.tree = w.tree /\ v.todo \in {rest, new \o rest}
  BY VisitNameIs
<1>2. GoodName(t)
  <2> DEFINE s == w.todo
             Q == Range(s)
  <2>1. s \in Seq(Q)
    BY DEF IsSequence
  <2> HIDE DEF Q, s
  <2>2. Head(s) = s[1] /\ 1 \in 1 .. Len(s)
    <3>1. Head(s) = s[1] /\ Len(s) \in Nat \ {0}
      BY <2>1, EmptySeq, HeadTailProperties DEF s
    <3>2. QED BY <3>1
  <2>3. QED BY <2>2 DEF Ordered, TodoGood, s
<1>3. Led(pkgs) /\ pkgs \in Seq(Pkgs)
  BY <1>2, LookupLed, LookupPkgs DEF GoodName
<1>4. IsSequence(rest) /\ TodoLed(rest, S) /\ TodoGood(rest)
  BY HeadIs, TailOrdered DEF Ordered
<1> HIDE DEF pkgs
<1>5. IsSequence(new) /\ TodoLed(new, S) /\ TodoGood(new)
  BY <1>3, VisitIs, VisitOrdered
<1> HIDE DEF new, rest
<1>6. TodoLed(new \o rest, S) /\ TodoGood(new \o rest)
  BY <1>4, <1>5, ConcatOrdered
<1> HIDE DEF v
<1>7. TodoLed(v.todo, Range(v.tree)) /\ TodoGood(v.todo)
  BY <1>1, <1>4, <1>6
<1>8. Led(v.tree)
  BY <1>1 DEF Ordered
<1>9. QED BY <1>7, <1>8 DEF Ordered, v

LEMMA PackageOrdered ==
  ASSUME NEW w, IsWalk(w), NEW N \in SUBSET Pkgs, NEW names, Reaches(w, N, names), w.todo # <<>>,
         Ordered(w), Head(w.todo).kind # "name"
  PROVE  Ordered(VisitPackage(Head(w.todo).of, w))
<1> DEFINE p == Head(w.todo).of
           v == VisitPackage(p, w)
           rest == Tail(w.todo)
           new == Visit("name", Depends[p])
           S == Range(w.tree)
           T == S \cup {p}
<1>1. /\ p \in S => v.tree = w.tree /\ v.todo = rest
      /\ p \notin S => v.tree = Append(w.tree, p) /\ v.todo = new \o rest
  BY VisitPackageIs
<1> HIDE DEF v
<1>2. IsSequence(w.todo) /\ w.tree \in Seq(N) /\ IsInjective(w.tree) /\ p \in N
  <2>1. Stands(Head(w.todo)) = {p}
    BY DEF Stands
  <2>2. Stood(w.todo) = {p} \cup Stood(rest)
    BY <2>1, HeadIs DEF Reaches
  <2>3. QED BY <2>2 DEF Reaches
<1>3. IsSequence(rest) /\ TodoLed(rest, T) /\ TodoGood(rest)
  <2>1. S \subseteq T /\ Head(w.todo).of \in T
    OBVIOUS
  <2>2. TodoLed(w.todo, S) /\ TodoGood(w.todo)
    BY DEF Ordered
  <2> HIDE DEF S, T
  <2>3. TodoLed(rest, T) /\ TodoGood(rest)
    BY <1>2, <2>1, <2>2, TailOrdered
  <2>4. QED BY <1>2, <2>3, HeadIs
<1>4. CASE p \in S
  <2>1. T = S
    BY <1>4
  <2> HIDE DEF rest, S, T
  <2>2. TodoLed(v.todo, Range(v.tree)) /\ TodoGood(v.todo) /\ Led(v.tree)
    BY <1>1, <1>3, <1>4, <2>1 DEF Ordered, S
  <2>3. QED BY <2>2 DEF Ordered, v
<1>5. CASE p \notin S
  <2>1. IsSequence(Depends[p]) /\ \A d \in Range(Depends[p]) : GoodName(d)
    BY <1>2, RepoAssumption DEF GoodName
  <2>2. Depends[p] \in Seq(Range(Depends[p]))
    BY <2>1 DEF IsSequence
  <2>3. IsSequence(new) /\ TodoLed(new, T) /\ TodoGood(new)
    BY <2>1, <2>2, VisitIs, VisitOrdered
  <2>4. p \in SyncPkgs => \E q \in T : Leads(q, p)
    <3> DEFINE s == w.todo
               Q == Range(s)
    <3>1. s \in Seq(Q)
      BY <1>2 DEF IsSequence
    <3> HIDE DEF Q, s
    <3>2. Head(s) = s[1] /\ 1 \in 1 .. Len(s)
      <4>1. Head(s) = s[1] /\ Len(s) \in Nat \ {0}
        BY <3>1, EmptySeq, HeadTailProperties DEF s
      <4>2. QED BY <4>1
    <3>3. TodoLed(s, S) /\ s[1].of = p /\ s[1].kind # "name"
      BY <3>2 DEF Ordered, s
    <3>4. Before(s, 1) \subseteq {p}
      BY <3>3 DEF Before
    <3> HIDE DEF S, p
    <3>5. p \in SyncPkgs => \E q \in S \cup Before(s, 1) : Leads(q, p)
      BY <3>2, <3>3 DEF TodoLed
    <3>6. QED BY <3>4, <3>5
  <2>5. /\ Append(w.tree, p) \in Seq(N) /\ Range(Append(w.tree, p)) = T
    BY <1>2, <1>5, AppendIs
  <2>6. Led(Append(w.tree, p))
    BY <1>2, <2>4, AppendLed DEF Ordered
  <2> HIDE DEF new, rest, T
  <2>7. TodoLed(new \o rest, T) /\ TodoGood(new \o rest)
    BY <1>3, <2>3, ConcatOrdered
  <2>8. v.tree = Append(w.tree, p) /\ v.todo = new \o rest
    BY <1>1, <1>5
  <2> HIDE DEF p
  <2>9. TodoLed(v.todo, Range(v.tree)) /\ TodoGood(v.todo) /\ Led(v.tree)
    BY <2>5, <2>6, <2>7, <2>8
  <2>10. QED BY <2>9 DEF Ordered, v, p
<1>6. QED BY <1>4, <1>5

LEMMA StepOrdered ==
  ASSUME OneVersion, NEW w, IsWalk(w), NEW N \in SUBSET Pkgs, NEW names, Reaches(w, N, names),
         w.todo # <<>>, Ordered(w)
  PROVE  Ordered(WalkStep(w))
<1>1. CASE Head(w.todo).kind = "name"
  <2>1. WalkStep(w) = VisitName(Head(w.todo).of, w)
    BY <1>1 DEF WalkStep
  <2>2. IsSequence(w.todo)
    BY DEF Reaches
  <2>3. QED BY <1>1, <2>1, <2>2, NameOrdered
<1>2. CASE Head(w.todo).kind # "name"
  <2>1. WalkStep(w) = VisitPackage(Head(w.todo).of, w)
    BY <1>2 DEF WalkStep
  <2>2. QED BY <1>2, <2>1, PackageOrdered
<1>3. QED BY <1>1, <1>2

LEMMA StartOrdered ==
  ASSUME NEW names, IsSequence(names), NEW map, \A t \in Range(names) : GoodName(t)
  PROVE  Ordered(StartWalk(names, map))
<1> DEFINE v == Visit("name", names)
           none == <<>>
           w == StartWalk(names, map)
<1>1. names \in Seq(Range(names))
  BY DEF IsSequence
<1>2. TodoLed(v, Range(none)) /\ TodoGood(v)
  BY <1>1, VisitOrdered
<1>3. w.todo = v /\ w.tree = none /\ Len(none) = 0
  BY DEF StartWalk
<1> HIDE DEF v, none, w
<1>4. Led(w.tree)
  BY <1>3 DEF Led
<1>5. Ordered(w)
  BY <1>2, <1>3, <1>4 DEF Ordered
<1>6. QED BY <1>5 DEF w

(* The names of a configuration that is to respect NamesExist, OneVersion. *)
LEMMA NamesAre ==
  ASSUME NEW j \in 0 .. Len(Replaces)
  PROVE  /\ Names(j) \in Seq(Asked)
         /\ j = 0 => Range(Names(j)) = Range(Install)
         /\ j # 0 => Range(Names(j)) = {Replaces[j].new} /\ j \in DOMAIN Replaces
<1>1. CASE j = 0
  <2>1. Install \in Seq(Range(Install)) /\ Range(Install) \subseteq Asked
    BY ConfigAssumption DEF IsSequence, Asked
  <2>2. Install \in Seq(Asked)
    BY <2>1, SeqMonotonic
  <2>3. QED BY <1>1, <2>2 DEF Names
<1>2. CASE j # 0
  <2>1. Replaces \in Seq(Range(Replaces))
    BY ConfigAssumption DEF IsSequence
  <2>2. j \in DOMAIN Replaces
    BY <1>2, <2>1, LenProperties
  <2>3. Replaces[j].new \in Asked
    BY <2>2 DEF Asked
  <2> DEFINE x == Replaces[j].new
  <2>4. Names(j) = <<x>>
    BY <1>2 DEF Names
  <2> HIDE DEF x
  <2>5. Range(<<x>>) = {x}
    BY DEF Range
  <2>6. <<x>> \in Seq(Asked)
    BY <2>3 DEF x
  <2>7. QED BY <1>2, <2>2, <2>4, <2>5, <2>6 DEF x
<1>3. QED BY <1>1, <1>2

LEMMA WantedIn ==
  ASSUME Jobs
  PROVE  IsSequence(Wanted) /\ Wanted \in Seq(Asked) /\ Range(Wanted) \subseteq Range(Names(job))
<1> DEFINE s == Names(job)
           R == Range(s)
           L == {t \in R : t.db = FileDb}
           D == {t \in R : t.db # FileDb}
<1>1. s \in Seq(Asked) /\ s \in Seq(R)
  <2>1. s \in Seq(Asked)
    BY NamesAre DEF Jobs
  <2>2. QED BY <2>1, SeqIs DEF IsSequence
<1>2. R \subseteq Asked
  BY <1>1, RangeIn
<1> HIDE DEF s, R, L, D
<1>3. Those(s, L) \in Seq(R) /\ Those(s, D) \in Seq(R)
  <2>1. Those(s, L) \in Seq(R \cap L) /\ Those(s, D) \in Seq(R \cap D)
    BY <1>1, ThoseIs
  <2>2. QED BY <2>1, SeqMonotonic
<1>4. FirstOfName(Those(s, D)) \in Seq(R)
  BY <1>3, FirstOfNameIs
<1>5. Wanted \in {Those(s, L), FirstOfName(Those(s, D))}
  BY DEF Wanted, LocalFiles, DlPkgs, s, R, L, D
<1>6. Wanted \in Seq(R)
  BY <1>3, <1>4, <1>5
<1>7. Wanted \in Seq(Asked)
  BY <1>2, <1>6, SeqMonotonic
<1>8. QED BY <1>6, <1>7, SeqIs, RangeIn DEF R, s

LEMMA AskedAre ==
  ASSUME NamesExist, NEW t \in Asked
  PROVE  /\ t.db = FileDb => t \in Files
         /\ t.db \notin {AnyDb, FileDb} => t \in SyncPkgs
         /\ OneVersion => GoodName(t)
<1>1. t.db = FileDb => t \in Files
  BY ConfigAssumption DEF Asked
<1>2. t.db \notin {AnyDb, FileDb} => t \in SyncPkgs
  BY RepoAssumption DEF NamesExist, Pkgs
<1>3. QED BY <1>1, <1>2 DEF OneVersion, GoodName

(* The first package of its name in the walk, among those that are to be   *)
(* downloaded, and what the cache has of the turns that are over.          *)
FirstSync(s, k) ==
  /\ s[k] \in SyncPkgs
  /\ \A j \in 1 .. (k - 1) : s[j] \in SyncPkgs => s[j].name # s[k].name

CacheInv ==
  pc = "download" =>
      \A k \in 1 .. Len(walk.tree) : k < at /\ FirstSync(walk.tree, k) => FileName[walk.tree[k]] \in cache

OrderInv == pc \in {"walk", "download"} => Ordered(walk)

LEMMA ChunkHas ==
  ASSUME NEW S, NEW s \in Seq(S), NEW i \in Nat \ {0}, NEW k \in 1 .. Len(s),
         i =< k, k < i + PkgOnce, FirstSync(s, k)
  PROVE  s[k] \in Range(Chunk(s, i, PkgOnce))
<1> DEFINE last == Min({i + PkgOnce - 1, Len(s)})
           c == SubSeq(s, i, last)
           d == Those(c, SyncPkgs)
           m == k - i + 1
<1>1. Len(s) \in Nat /\ PkgOnce \in Nat \ {0}
  BY LenProperties, PacmanAssumption
<1>2. last \in Nat /\ k =< last /\ last =< Len(s)
  <2> DEFINE a == i + PkgOnce - 1
             b == Len(s)
  <2>1. a \in Nat /\ b \in Nat /\ k =< a /\ k =< b
    BY <1>1
  <2> HIDE DEF a, b
  <2>2. \E x \in {a, b} : \A y \in {a, b} : x <= y
    BY <2>1
  <2>3. Min({a, b}) \in {a, b} /\ \A y \in {a, b} : Min({a, b}) <= y
    BY <2>2 DEF Min
  <2>4. Min({a, b}) \in Nat /\ k =< Min({a, b}) /\ Min({a, b}) =< b
    BY <2>1, <2>3
  <2>5. QED BY <2>4 DEF a, b
<1>3. Chunk(s, i, PkgOnce) = FirstOfName(d)
  BY DEF Chunk
<1> HIDE DEF last
<1>4. /\ c \in Seq(S) /\ m \in 1 .. Len(c) /\ c[m] = s[k]
      /\ \A j \in 1 .. (m - 1) : i + j - 1 \in 1 .. (k - 1) /\ c[j] = s[i + j - 1]
  <2>1. \A l \in i .. last : s[l] \in S
    BY <1>1, <1>2, LenProperties
  <2>2. c \in Seq(S) /\ Len(c) = last - i + 1 /\ \A l \in 1 .. last - i + 1 : c[l] = s[i + l - 1]
    <3>1. i \in Int /\ last \in Int /\ i =< last
      BY <1>2
    <3> HIDE DEF c
    <3>2. QED BY <2>1, <3>1, SubSeqProperties DEF c
  <2> HIDE DEF c
  <2>3. m \in 1 .. last - i + 1 /\ i + m - 1 = k
    BY <1>2
  <2> HIDE DEF m
  <2>4. \A j \in 1 .. (m - 1) : j \in 1 .. last - i + 1 /\ i + j - 1 \in 1 .. (k - 1)
    BY <1>1, <1>2, <2>3
  <2>5. c[m] = s[k]
    BY <2>2, <2>3
  <2>6. QED BY <2>2, <2>3, <2>4, <2>5
<1> HIDE DEF c, m
<1>5. c[m] \in SyncPkgs
  BY <1>4 DEF FirstSync
<1>6. ThereAfter(d, c, m, SyncPkgs) /\ d \in Seq(S \cap SyncPkgs)
  BY <1>4, <1>5, ThoseHas, ThoseIs
<1> HIDE DEF d
<1>7. PICK l \in 1 .. Len(d) :
        /\ d[l] = c[m]
        /\ \A h \in 1 .. (l - 1) : \E j \in 1 .. (m - 1) : d[h] = c[j] /\ c[j] \in SyncPkgs
  BY <1>6 DEF ThereAfter
<1>8. ASSUME NEW h \in 1 .. (l - 1) PROVE d[h].name # d[l].name
  <2>1. PICK j \in 1 .. (m - 1) : d[h] = c[j] /\ c[j] \in SyncPkgs
    BY <1>7
  <2>2. s[i + j - 1].name # s[k].name
    BY <1>4, <2>1 DEF FirstSync
  <2>3. QED BY <1>4, <1>7, <2>1, <2>2
<1>9. d[l] \in Range(FirstOfName(d))
  BY <1>6, <1>8, FirstOfNameHas
<1>10. QED BY <1>3, <1>4, <1>7, <1>9

LEMMA FetchKeeps ==
  ASSUME NEW A, NEW next, Fetch(A, next)
  PROVE  \/ cache' = cache \cup A /\ next
         \/ cache \subseteq cache' /\ (UNCHANGED <<pc, at>> \/ pc' = "failed")
BY DEF Fetch, Retry, Goto, Fail

LEMMA DownloadCaches ==
  ASSUME KeysInv, WalkInv, CacheInv, Download
  PROVE  CacheInv'
<1> DEFINE tree == walk.tree
           pkgs == Range(Chunk(tree, at, PkgOnce))
           N == Needed(Wanted)
<1>1. /\ pc = "download" /\ walk' = walk /\ at \in Nat \ {0} /\ tree \in Seq(N)
      /\ PkgOnce \in Nat \ {0} /\ Len(tree) \in Nat
  <2>1. pc = "download" /\ walk' = walk /\ at \in Nat \ {0}
    BY DEF Download, KeysInv
  <2>2. tree \in Seq(N)
    BY <2>1 DEF WalkInv, Reaches
  <2>3. QED BY <2>1, <2>2, LenProperties, PacmanAssumption
<1> HIDE DEF N
<1> DEFINE next == at' = at + PkgOnce /\ tries' = 0 /\ pc' = pc
<1>2. IF pkgs = {} THEN next /\ cache' = cache ELSE Fetch(Archives(pkgs), next)
  BY DEF Download
<1>3. /\ next => at' = at + PkgOnce /\ pc' = pc
      /\ pkgs # {} => \/ cache' = cache \cup Archives(pkgs) /\ next
                      \/ cache \subseteq cache' /\ (UNCHANGED <<pc, at>> \/ pc' = "failed")
  <2>1. next => at' = at + PkgOnce /\ pc' = pc
    OBVIOUS
  <2> HIDE DEF next
  <2>2. QED BY <1>2, <2>1, FetchKeeps
<1>4. \A k \in 1 .. Len(tree) : k < at /\ FirstSync(tree, k) => FileName[tree[k]] \in cache
  BY <1>1 DEF CacheInv
<1> SUFFICES ASSUME pc' = "download", NEW k \in 1 .. Len(tree), k < at', FirstSync(tree, k)
             PROVE  FileName[tree[k]] \in cache'
  BY <1>1 DEF CacheInv
<1>5. CASE cache \subseteq cache' /\ UNCHANGED <<pc, at>>
  BY <1>4, <1>5
<1>6. CASE next /\ cache' = cache \cup Archives(pkgs)
  <2>1. CASE k < at
    BY <1>4, <1>6, <2>1
  <2>2. CASE ~(k < at)
    <3>1. k < at + PkgOnce /\ at =< k
      BY <1>1, <1>3, <1>6, <2>2
    <3>2. tree[k] \in pkgs
      BY <1>1, <3>1, ChunkHas
    <3>3. FileName[tree[k]] \in Archives(pkgs)
      BY <3>2 DEF Archives
    <3>4. QED BY <1>6, <3>3
  <2>3. QED BY <2>1, <2>2
<1>7. pkgs = {} => next /\ cache' = cache \cup Archives(pkgs)
  BY <1>2 DEF Archives
<1> HIDE DEF next
<1>8. QED BY <1>3, <1>5, <1>6, <1>7

LEMMA CacheInvStep == KeysInv /\ WalkInv /\ CacheInv /\ [Next]_vars => CacheInv'
<1> SUFFICES ASSUME KeysInv, WalkInv, CacheInv, [Next]_vars PROVE CacheInv'
  OBVIOUS
<1>1. ASSUME pc' # "download" PROVE CacheInv'
  BY <1>1 DEF CacheInv
<1>2. CASE DoInitKeyring \/ DoTrustAll \/ UpdateDatabase \/ Refresh \/ DownloadKeyrings \/ TrustKeyring
  <2>1. pc' # "download"
    BY <1>2 DEF DoInitKeyring, DoTrustAll, UpdateDatabase, Refresh, DownloadKeyrings, TrustKeyring,
                Keyring, Fetch, Retry, Goto, Fail
  <2>2. QED BY <1>1, <2>1
<1>3. CASE StartInstall \/ Walk
  <2>1. pc' # "download"
    BY <1>3 DEF StartInstall, Walk, Goto, AfterInstall
  <2>2. QED BY <1>1, <2>1
<1>4. CASE WalkDone
  <2>1. at' = 1
    BY <1>4 DEF WalkDone, Goto
  <2>2. \A k \in 1 .. Len(walk'.tree) : ~(k < at')
    BY <2>1
  <2>3. QED BY <2>2 DEF CacheInv
<1>5. CASE Download
  BY <1>5, DownloadCaches
<1>6. CASE Pacman
  <2>1. pc' # "download"
    BY <1>6 DEF Pacman, Goto, Fail, AfterInstall
  <2>2. QED BY <1>1, <2>1
<1>7. CASE UninstallAll \/ ReplaceNext \/ Finish \/ Kill \/ RunAgain
  <2>1. pc' # "download"
    BY <1>7 DEF UninstallAll, ReplaceNext, Finish, Kill, RunAgain, Goto, Fail
  <2>2. QED BY <1>1, <2>1
<1>8. CASE NoMoreRuns \/ UNCHANGED vars
  BY <1>8 DEF NoMoreRuns, vars, CacheInv, FirstSync
<1>9. QED BY <1>2, <1>3, <1>4, <1>5, <1>6, <1>7, <1>8 DEF Next, Step

LEMMA OrderInvStep ==
  ASSUME NamesExist, OneVersion, KeysInv, WalkInv, OrderInv, [Next]_vars
  PROVE  OrderInv'
<1>1. ASSUME pc' \notin {"walk", "download"} PROVE OrderInv'
  BY <1>1 DEF OrderInv
<1>2. ASSUME walk' = walk, pc \in {"walk", "download"} PROVE OrderInv'
  BY <1>2 DEF OrderInv, Ordered
<1>3. CASE DoInitKeyring \/ DoTrustAll \/ UpdateDatabase \/ Refresh \/ DownloadKeyrings \/ TrustKeyring
  <2>1. pc' \notin {"walk", "download"}
    BY <1>3 DEF DoInitKeyring, DoTrustAll, UpdateDatabase, Refresh, DownloadKeyrings, TrustKeyring,
                Keyring, Fetch, Retry, Goto, Fail
  <2>2. QED BY <1>1, <2>1
<1>4. CASE StartInstall
  <2>1. CASE Wanted = <<>>
    <3>1. pc' \notin {"walk", "download"}
      BY <1>4, <2>1 DEF StartInstall, Goto, AfterInstall
    <3>2. QED BY <1>1, <3>1
  <2>2. CASE Wanted # <<>>
    <3>1. walk' = StartWalk(Wanted, walk.map)
      BY <1>4, <2>2 DEF StartInstall
    <3>2. IsSequence(Wanted) /\ \A t \in Range(Wanted) : t \in Asked
      <4>1. IsSequence(Wanted) /\ Wanted \in Seq(Asked)
        BY WantedIn DEF WalkInv, Jobs
      <4>2. QED BY <4>1, RangeIn
    <3>3. Ordered(walk')
      BY <3>1, <3>2, AskedAre, StartOrdered
    <3>4. QED BY <3>3 DEF OrderInv, Ordered
  <2>3. QED BY <2>1, <2>2
<1>5. CASE Walk
  <2>1. Jobs /\ pc = "walk" /\ walk.todo # <<>> /\ walk' = WalkStep(walk)
    BY <1>5 DEF Walk, WalkInv, Jobs
  <2>2. IsWalk(walk) /\ Reaches(walk, Needed(Wanted), Wanted) /\ Ordered(walk)
    BY <2>1 DEF KeysInv, WalkInv, OrderInv
  <2>3. Needed(Wanted) \in SUBSET Pkgs
    BY <2>1, WantedAre, NeededIs DEF Jobs
  <2>4. Ordered(walk')
    BY <2>1, <2>2, <2>3, StepOrdered
  <2>5. QED BY <2>4 DEF OrderInv, Ordered
<1>6. CASE WalkDone \/ Download
  <2>1. walk' = walk /\ pc \in {"walk", "download"}
    BY <1>6 DEF WalkDone, Download
  <2>2. QED BY <1>2, <2>1
<1>7. CASE Pacman
  <2>1. pc' \notin {"walk", "download"}
    BY <1>7 DEF Pacman, Goto, Fail, AfterInstall
  <2>2. QED BY <1>1, <2>1
<1>8. CASE UninstallAll \/ ReplaceNext \/ Finish \/ Kill \/ RunAgain
  <2>1. pc' \notin {"walk", "download"}
    BY <1>8 DEF UninstallAll, ReplaceNext, Finish, Kill, RunAgain, Goto, Fail
  <2>2. QED BY <1>1, <2>1
<1>9. CASE NoMoreRuns \/ UNCHANGED vars
  BY <1>9 DEF NoMoreRuns, vars, OrderInv, Ordered
<1>10. QED BY <1>3, <1>4, <1>5, <1>6, <1>7, <1>8, <1>9 DEF Next, Step

LEMMA TakenClosed ==
  ASSUME NEW N \in SUBSET Pkgs, IsClosed(N)
  PROVE  \A p \in N : \A d \in Range(Depends[p]) : Taken(d) \subseteq N
<1> SUFFICES ASSUME NEW p \in N, NEW d \in Range(Depends[p]) PROVE Taken(d) \subseteq N
  OBVIOUS
<1>1. d.db = AnyDb /\ AnyDb # FileDb
  BY RepoAssumption
<1>2. Taken(d) \subseteq Meant(d)
  BY <1>1, TakenIs
<1>3. QED BY <1>2 DEF IsClosed

(* At the end of the walk pacman's own choice is cached: it is in the walk *)
(* and the first of its name there is the same package.                    *)
LEMMA CacheHas ==
  ASSUME NamesExist, OneVersion, KeysInv, WalkInv, OrderInv, CacheInv,
         pc = "download", at > Len(walk.tree)
  PROVE  Archives(Transaction(Wanted, installed) \ Files) \subseteq cache
<1> DEFINE N == Needed(Wanted)
           M == N \cap Firsts
           tree == walk.tree
<1>1. Jobs /\ Reaches(walk, N, Wanted) /\ walk.todo = <<>> /\ Ordered(walk) /\ at \in Nat
  BY DEF WalkInv, Jobs, OrderInv, KeysInv
<1>2. N \in SUBSET Pkgs /\ IsClosed(N) /\ \A t \in Range(Wanted) : Meant(t) \subseteq N
  BY <1>1, WantedAre, NeededIs DEF Jobs
<1>3. Range(tree) = N /\ tree \in Seq(N)
  BY <1>1, EndReaches DEF Reaches
<1>4. \A t \in Range(Wanted) : t \in Asked
  BY <1>1, WantedIn, RangeIn
<1>5. ASSUME NEW t, GoodName(t), Meant(t) \subseteq N PROVE Taken(t) \subseteq M
  <2>1. Taken(t) \subseteq Meant(t)
    BY <1>5, TakenIs DEF GoodName
  <2>2. QED BY <1>2, <1>5, <2>1, TakenFirst DEF Firsts
<1>6. \A t \in Range(Wanted) : Taken(t) \subseteq M
  BY <1>2, <1>4, <1>5, AskedAre
<1>7. ASSUME NEW p \in M, NEW d \in Range(Depends[p]) PROVE Taken(d) \subseteq M
  <2>1. p \in N /\ p \in Pkgs
    BY <1>2
  <2>2. GoodName(d)
    BY <2>1, RepoAssumption DEF GoodName
  <2>3. Meant(d) \subseteq N
    BY <1>2, <2>1 DEF IsClosed
  <2>4. QED BY <1>5, <2>2, <2>3
<1>8. M \in SUBSET Pkgs
  BY <1>2
<1> HIDE DEF M, N
<1>9. Transaction(Wanted, installed) \subseteq M
  BY <1>6, <1>7, <1>8, TransactionIs
<1>10. ASSUME NEW p \in Transaction(Wanted, installed), p \notin Files PROVE FileName[p] \in cache
  <2>1. p \in N /\ p \in SyncPkgs /\ SameAsFirst(p)
    BY <1>9, <1>10 DEF M, Firsts, Pkgs
  <2> DEFINE I == {i \in 1 .. Len(tree) : tree[i] \in SyncPkgs /\ tree[i].name = p.name}
  <2>2. Len(tree) \in Nat /\ Range(tree) = {tree[i] : i \in 1 .. Len(tree)}
    BY <1>3, LenProperties, RangeIn
  <2>3. I # {} /\ I \in SUBSET Nat
    BY <1>3, <2>1, <2>2
  <2>4. PICK k \in I : \A y \in I : k =< y
    BY <2>3, LeastIndex
  <2>5. k \in 1 .. Len(tree) /\ k \in Nat /\ tree[k] \in SyncPkgs /\ tree[k].name = p.name
    BY <2>2
  <2>6. PICK j \in 1 .. k : Leads(tree[j], tree[k])
    BY <1>1, <2>5 DEF Ordered, Led
  <2>7. j \in I
    BY <2>2, <2>5, <2>6 DEF Leads
  <2>8. j = k
    BY <2>4, <2>5, <2>6, <2>7
  <2>9. FirstSync(tree, k)
    <3>1. ASSUME NEW l \in 1 .. (k - 1), tree[l] \in SyncPkgs PROVE tree[l].name # tree[k].name
      <4>1. l \in 1 .. Len(tree) /\ ~(k =< l)
        BY <2>2, <2>5
      <4>2. l \notin I
        BY <2>4, <4>1
      <4>3. QED BY <2>5, <3>1, <4>1, <4>2
    <3> HIDE DEF I
    <3>2. QED BY <2>5, <3>1 DEF FirstSync
  <2>10. k < at
    BY <1>1, <2>2, <2>5
  <2>11. FileName[tree[k]] \in cache
    BY <2>5, <2>9, <2>10 DEF CacheInv
  <2>12. FileName[tree[k]] = FileName[p]
    BY <2>1, <2>5, <2>6, <2>8 DEF Leads, SameAsFirst
  <2>13. QED BY <2>11, <2>12
<1>11. QED BY <1>10 DEF Archives

(* Of a configuration that names packages that exist, as new as in the     *)
(* first database with their name (NamesExist, OneVersion), pacman finds   *)
(* every archive of its transaction in the cache, whatever was retried,    *)
(* left in the cache, or left out of a turn of download_all because of its *)
(* name: the first package of a name that lookup_package_depends meets is  *)
(* the one pacman takes, and download leaves out none but later ones.      *)
THEOREM CacheBeforePackages ==
  ASSUME NamesExist, OneVersion
  PROVE  Spec => []SyncFindsCache
<1> DEFINE Inv == KeysInv /\ WalkInv /\ OrderInv /\ CacheInv
<1>1. Init => Inv
  BY KeysInit, WalkInvInit DEF Init, OrderInv, CacheInv
<1>2. Inv /\ [Next]_vars => Inv'
  BY KeysStep, WalkInvStep, OrderInvStep, CacheInvStep
<1>3. Inv => SyncFindsCache
  BY CacheHas DEF SyncFindsCache
<1>4. QED BY <1>1, <1>2, <1>3, PTL DEF Spec

-----------------------------------------------------------------------------
(* The names of the job that pacman is done with, what is to be there for  *)
(* them, and what may be gone again.                                       *)
NameThere(n) == \E q \in installed : q.name = n
Excused(n) ==
  \/ \E u \in Range(Uninstall) : u.name = n
  \/ \E i \in DOMAIN Replaces : Replaces[i].old.name = n
ThereOrGone(t) == \A p \in Taken(t) : NameThere(p.name) \/ Excused(p.name)

Behind ==
  {t \in Range(Names(job)) :
      pc \in {"uninstall", "replace", "done"} \/ (part = "local" /\ t.db # FileDb)}

BeforeInstall == {"keyring", "trust", "databases", "keyrings", "populate", "trustagain"}

Turns ==
  /\ pc \in BeforeInstall \cup {"uninstall"} => job = 0
  /\ pc \in BeforeInstall \cup {"uninstall", "replace", "done"} => part = "sync"
  /\ pc = "done" => job = Len(Replaces)

Uninstalled == job > 0 \/ pc \in {"replace", "done"}

InstallInv ==
  /\ Turns
  /\ job = 0 => \A t \in Behind : ThereOrGone(t)
  /\ job > 0 => (\A t \in Range(Install) : ThereOrGone(t)) /\ \A t \in Behind : NameThere(t.name)
  /\ \A i \in 1 .. (job - 1) : NameThere(Replaces[i].new.name)
  /\ Uninstalled => \A t \in Range(Uninstall) : Present(t) = {}

(* Names that differ only in their database are taken for packages of the  *)
(* same names.                                                             *)
LEMMA SameNameTaken ==
  ASSUME NamesExist, NEW t \in Asked, NEW u \in Asked, t.db # FileDb, u.db # FileDb, t.name = u.name,
         NEW p \in Taken(t)
  PROVE  \E q \in Taken(u) : q.name = p.name
<1>1. ASSUME NEW x \in Asked, x.db # FileDb, x.db # AnyDb
      PROVE  Taken(x) = {x} /\ InEveryDb(x.name) # <<>>
  <2>1. x \in SyncPkgs
    BY <1>1, AskedAre
  <2>2. x.name \in Sync[x.db] /\ x.db \in Dbs
    BY <2>1, SyncDb
  <2>3. QED BY <1>1, <2>2, InEveryDbNames DEF Taken
<1>2. ASSUME NEW x \in Asked, x.db = AnyDb, InEveryDb(x.name) # <<>>
      PROVE  \E q : Taken(x) = {q} /\ q.name = x.name
  BY <1>2, InEveryDbNames DEF Taken
<1>3. CASE t.db = AnyDb /\ u.db = AnyDb
  BY <1>3 DEF Taken
<1>4. CASE t.db # AnyDb /\ u.db # AnyDb
  BY <1>1, <1>4
<1>5. CASE t.db # AnyDb /\ u.db = AnyDb
  <2>1. p = t /\ InEveryDb(u.name) # <<>>
    BY <1>1, <1>5
  <2>2. PICK q : Taken(u) = {q} /\ q.name = u.name
    BY <1>2, <1>5, <2>1
  <2>3. QED BY <2>1, <2>2
<1>6. CASE t.db = AnyDb /\ u.db # AnyDb
  <2>1. Taken(u) = {u} /\ InEveryDb(t.name) # <<>>
    BY <1>1, <1>6
  <2>2. PICK q : Taken(t) = {q} /\ q.name = t.name
    BY <1>2, <1>6, <2>1
  <2>3. QED BY <2>1, <2>2
<1>7. QED BY <1>3, <1>4, <1>5, <1>6

(* Each name of a job is among those of its part, or one like it is.       *)
LEMMA WantedHas ==
  ASSUME Jobs, NEW t \in Range(Names(job)), part = "local" <=> t.db = FileDb
  PROVE  \E u \in Range(Wanted) :
            /\ u \in Asked /\ t \in Asked /\ u.name = t.name
            /\ t.db = FileDb => u = t
            /\ t.db # FileDb => u.db # FileDb
<1> DEFINE s == Names(job)
           R == Range(s)
           L == {x \in R : x.db = FileDb}
           D == {x \in R : x.db # FileDb}
<1>1. s \in Seq(Asked)
  BY NamesAre DEF Jobs
<1>2. R = {s[i] : i \in 1 .. Len(s)} /\ R \subseteq Asked
  BY <1>1, RangeIn
<1>3. PICK i \in 1 .. Len(s) : t = s[i]
  BY <1>2
<1>4. /\ t.db = FileDb => t \in L
      /\ t.db # FileDb => t \in D
  OBVIOUS
<1>5. /\ part = "local" => Wanted = Those(s, L)
      /\ part # "local" => Wanted = FirstOfName(Those(s, D)) \/ part # "sync"
  BY DEF Wanted, LocalFiles, DlPkgs
<1>6. t \in Asked
  BY <1>2
<1>7. \A x \in D : x.db # FileDb
  OBVIOUS
<1> HIDE DEF s, R, L, D
<1>8. CASE t.db = FileDb
  <2>1. ThereAfter(Those(s, L), s, i, L) /\ Those(s, L) \in Seq(Asked \cap L)
    BY <1>1, <1>3, <1>4, <1>8, ThoseHas, ThoseIs
  <2>2. PICK k \in 1 .. Len(Those(s, L)) : Those(s, L)[k] = s[i]
    BY <2>1 DEF ThereAfter
  <2>3. t \in Range(Those(s, L))
    BY <1>3, <2>1, <2>2, RangeIn
  <2>4. QED BY <1>5, <1>6, <1>8, <2>3
<1>9. CASE t.db # FileDb
  <2> DEFINE d == Those(s, D)
  <2>1. ThereAfter(d, s, i, D) /\ d \in Seq(Asked \cap D)
    BY <1>1, <1>3, <1>4, <1>9, ThoseHas, ThoseIs
  <2> HIDE DEF d
  <2>2. PICK k \in 1 .. Len(d) : d[k] = s[i]
    BY <2>1 DEF ThereAfter
  <2> DEFINE I == {l \in 1 .. Len(d) : d[l].name = t.name}
  <2>3. Len(d) \in Nat /\ I # {} /\ I \in SUBSET Nat
    BY <1>3, <2>1, <2>2, LenProperties
  <2>4. PICK l \in I : \A y \in I : l =< y
    BY <2>3, LeastIndex
  <2>5. l \in 1 .. Len(d) /\ d[l].name = t.name
    OBVIOUS
  <2>6. ASSUME NEW j \in 1 .. (l - 1) PROVE d[j].name # d[l].name
    <3>1. j \in 1 .. Len(d) /\ ~(l =< j)
      BY <2>3, <2>5
    <3>2. QED BY <2>4, <2>5, <3>1
  <2> HIDE DEF I
  <2>7. d[l] \in Range(FirstOfName(d))
    BY <2>1, <2>5, <2>6, FirstOfNameHas
  <2>8. d[l] \in Asked /\ d[l].db # FileDb
    BY <1>7, <2>1, <2>5, LenProperties
  <2>9. Wanted = FirstOfName(d)
    BY <1>5, <1>9 DEF Jobs, d
  <2>10. QED BY <1>6, <1>9, <2>5, <2>7, <2>8, <2>9
<1>10. QED BY <1>8, <1>9

LEMMA InstallStays ==
  ASSUME InstallInv, installed' = installed, job' = job, Behind' \subseteq Behind, Turns',
         Uninstalled' => Uninstalled
  PROVE  InstallInv'
BY DEF InstallInv, ThereOrGone, NameThere, Present

LEMMA PartStays ==
  ASSUME InstallInv, installed' = installed, job' = job, part' = part,
         pc' \notin {"uninstall", "replace", "done"}, pc' \in BeforeInstall => pc \in BeforeInstall
  PROVE  InstallInv'
<1>1. Behind' \subseteq Behind
  BY DEF Behind, Names
<1>2. Turns' /\ (Uninstalled' => Uninstalled)
  BY DEF InstallInv, Turns, Uninstalled, BeforeInstall
<1>3. QED BY <1>1, <1>2, InstallStays

LEMMA StartInstallStays ==
  ASSUME InstallInv, Jobs, StartInstall
  PROVE  InstallInv'
<1>1. installed' = installed /\ job' = job /\ pc = "install"
  BY DEF StartInstall, rootfs
<1>2. CASE Wanted # <<>>
  <2>1. part' = part /\ pc' = "walk"
    BY <1>2 DEF StartInstall, Goto
  <2>2. QED BY <1>1, <2>1, PartStays DEF BeforeInstall
<1>3. CASE Wanted = <<>>
  <2>1. Range(Wanted) = {}
    <3>1. Range(<<>>) = {}
      BY DEF Range
    <3>2. QED BY <1>3, <3>1
  <2>2. \A t \in Range(Names(job)) : part = "local" <=> t.db # FileDb
    BY <2>1, WantedHas
  <2>3. \/ part = "sync" /\ part' = "local" /\ pc' = "install"
        \/ part = "local" /\ part' = "sync" /\ pc' = AfterInstall
    BY <1>1, <1>3 DEF StartInstall, Goto, Jobs
  <2>4. Behind' \subseteq Behind
    BY <1>1, <2>2, <2>3 DEF Behind, Names
  <2>5. Turns' /\ (Uninstalled' => Uninstalled)
    BY <1>1, <2>3 DEF Turns, Uninstalled, AfterInstall, BeforeInstall, Jobs
  <2>6. QED BY <1>1, <2>4, <2>5, InstallStays
<1>4. QED BY <1>2, <1>3

(* Pacman's transaction has what it takes for every name of the part, and  *)
(* none of the packages that are to be removed.                            *)
LEMMA TransactionHas ==
  ASSUME NamesExist, Jobs, NEW S
  PROVE  /\ \A t \in Range(Wanted) : Taken(t) \subseteq Transaction(Wanted, S)
         /\ NothingComesBack /\ job > 0 =>
               \A p \in Transaction(Wanted, S) : \A t \in Range(Uninstall) : p.name # t.name
<1>1. /\ IsSequence(Wanted) /\ Wanted \in Seq(Asked) /\ Range(Wanted) \subseteq Range(Names(job))
      /\ Range(Wanted) \subseteq Asked
  BY WantedIn, RangeIn
<1>2. \A t \in Range(Wanted) : Taken(t) \subseteq Meant(t) /\ Meant(t) \subseteq Pkgs
  <2>1. \A t \in Range(Wanted) : Taken(t) \subseteq Meant(t)
    BY <1>1, AskedAre, TakenIs
  <2>2. QED BY <2>1, WantedAre DEF Jobs
<1>3. ASSUME NEW N \in SUBSET Pkgs, IsClosed(N), \A t \in Range(Wanted) : Meant(t) \subseteq N
      PROVE  /\ Transaction(Wanted, S) \subseteq N
             /\ \A t \in Range(Wanted) : Taken(t) \subseteq Transaction(Wanted, S)
  <2>1. \A t \in Range(Wanted) : Taken(t) \subseteq N
    BY <1>2, <1>3
  <2>2. \A p \in N : \A d \in Range(Depends[p]) : Taken(d) \subseteq N
    BY <1>3, TakenClosed
  <2>3. QED BY <2>1, <2>2, TransactionIs
<1>4. \A t \in Range(Wanted) : Taken(t) \subseteq Transaction(Wanted, S)
  <2>1. /\ Needed(Wanted) \in SUBSET Pkgs /\ IsClosed(Needed(Wanted))
        /\ \A t \in Range(Wanted) : Meant(t) \subseteq Needed(Wanted)
    BY <1>2, NeededIs
  <2>2. QED BY <1>3, <2>1
<1>5. ASSUME NothingComesBack, job > 0
      PROVE  \A p \in Transaction(Wanted, S) : \A t \in Range(Uninstall) : p.name # t.name
  <2> DEFINE x == Replaces[job].new
             names == <<x>>
             N == Needed(names)
  <2>1. job \in DOMAIN Replaces /\ Range(Names(job)) = {x}
    BY <1>5, NamesAre DEF Jobs
  <2>2. Range(names) = {x}
    BY DEF Range
  <2>3. x.db = FileDb => x \in Files
    BY <2>1, ConfigAssumption
  <2>4. Meant(x) \subseteq Pkgs
    BY <2>3, LookupPkgs
  <2> HIDE DEF names
  <2>5. N \in SUBSET Pkgs /\ IsClosed(N) /\ Meant(x) \subseteq N
    BY <2>2, <2>4, NeededIs
  <2>6. \A p \in N : \A t \in Range(Uninstall) : p.name # t.name
    BY <1>5, <2>1 DEF NothingComesBack, names
  <2> HIDE DEF N, x
  <2>7. Transaction(Wanted, S) \subseteq N
    BY <1>1, <1>3, <2>1, <2>5
  <2>8. QED BY <2>6, <2>7
<1>6. QED BY <1>4, <1>5

LEMMA PacmanStays ==
  ASSUME NamesExist, ReplacementsStay, NothingComesBack, InstallInv, Jobs, Pacman
  PROVE  InstallInv'
<1> DEFINE new == Transaction(Wanted, installed)
           kept == {p \in installed : \A q \in new : q.name # p.name}
<1>1. job' = job /\ pc = "download"
  BY DEF Pacman, options
<1>2. CASE Fail /\ UNCHANGED <<cache, installed, part>>
  <2>1. pc' = "failed"
    BY <1>2 DEF Fail, Goto
  <2>2. QED BY <1>1, <1>2, <2>1, PartStays DEF BeforeInstall
<1>3. CASE /\ installed' = kept \cup new
           /\ part' = IF part = "sync" THEN "local" ELSE "sync"
           /\ Goto(IF part = "sync" THEN "install" ELSE AfterInstall)
  <2>1. \/ part = "sync" /\ part' = "local" /\ pc' = "install"
        \/ part = "local" /\ part' = "sync" /\ pc' = AfterInstall
    BY <1>3 DEF Goto, Jobs
  <2>2. /\ \A t \in Range(Wanted) : Taken(t) \subseteq new
        /\ job > 0 => \A p \in new : \A t \in Range(Uninstall) : p.name # t.name
    BY TransactionHas
  <2> HIDE DEF new
  <2>3. \A n : NameThere(n) => NameThere(n)'
    BY <1>3 DEF NameThere
  <2>4. \A q \in new : NameThere(q.name)'
    BY <1>3 DEF NameThere
  <2>5. \A t : ThereOrGone(t) => ThereOrGone(t)'
    BY <2>3 DEF ThereOrGone, Excused
  <2>6. ASSUME NEW t \in Range(Names(job)), part = "local" <=> t.db = FileDb, NEW p \in Taken(t)
        PROVE  NameThere(p.name)'
    <3>1. PICK u \in Range(Wanted) :
            /\ u \in Asked /\ t \in Asked /\ u.name = t.name
            /\ t.db = FileDb => u = t
            /\ t.db # FileDb => u.db # FileDb
      BY <2>6, WantedHas
    <3>2. PICK q \in Taken(u) : q.name = p.name
      BY <2>6, <3>1, SameNameTaken
    <3>3. QED BY <2>2, <2>4, <3>2
  <2>7. ASSUME NEW t \in Behind', t \notin Behind
        PROVE  t \in Range(Names(job)) /\ (part = "local" <=> t.db = FileDb)
    BY <1>1, <2>1, <2>7 DEF Behind, Names
  <2>8. Turns'
    BY <1>1, <2>1 DEF Turns, BeforeInstall, AfterInstall, Jobs
  <2>9. job = 0 => \A t \in Behind' : ThereOrGone(t)'
    <3> SUFFICES ASSUME job = 0, NEW t \in Behind' PROVE ThereOrGone(t)'
      OBVIOUS
    <3>1. CASE t \in Behind
      BY <2>5, <3>1 DEF InstallInv
    <3>2. CASE t \notin Behind
      BY <2>6, <2>7, <3>2 DEF ThereOrGone
    <3>3. QED BY <3>1, <3>2
  <2>10. job > 0 => (\A t \in Range(Install) : ThereOrGone(t)') /\ \A t \in Behind' : NameThere(t.name)'
    <3> SUFFICES ASSUME job > 0 PROVE (\A t \in Range(Install) : ThereOrGone(t)') /\ \A t \in Behind' : NameThere(t.name)'
      OBVIOUS
    <3>1. \A t \in Range(Install) : ThereOrGone(t)'
      BY <2>5 DEF InstallInv
    <3>2. ASSUME NEW t \in Behind' PROVE NameThere(t.name)'
      <4>1. CASE t \in Behind
        BY <2>3, <4>1 DEF InstallInv
      <4>2. CASE t \notin Behind
        <5>1. t \in Range(Names(job)) /\ (part = "local" <=> t.db = FileDb)
          BY <2>7, <4>2
        <5>2. t = Replaces[job].new /\ job \in DOMAIN Replaces
          BY <5>1, NamesAre DEF Jobs
        <5>3. PICK p \in Taken(t) : p.name = t.name
          BY <5>2 DEF ReplacementsStay
        <5>4. QED BY <2>6, <5>1, <5>3
      <4>3. QED BY <4>1, <4>2
    <3>3. QED BY <3>1, <3>2
  <2>11. \A i \in 1 .. (job - 1) : NameThere(Replaces[i].new.name)'
    BY <2>3 DEF InstallInv
  <2>12. Uninstalled' => \A t \in Range(Uninstall) : Present(t)' = {}
    <3> SUFFICES ASSUME Uninstalled', NEW t \in Range(Uninstall) PROVE Present(t)' = {}
      OBVIOUS
    <3>1. job > 0
      BY <1>1, <2>1 DEF Uninstalled, AfterInstall, Jobs
    <3>2. Present(t) = {}
      BY <3>1 DEF InstallInv, Uninstalled
    <3>3. QED BY <1>3, <2>2, <3>1, <3>2 DEF Present
  <2>13. QED BY <1>1, <2>8, <2>9, <2>10, <2>11, <2>12 DEF InstallInv
<1>4. QED BY <1>2, <1>3 DEF Pacman

LEMMA UninstallStays ==
  ASSUME InstallInv, Jobs, UninstallAll
  PROVE  InstallInv'
<1> DEFINE gone == UNION {Present(t) : t \in Range(Uninstall)}
<1>1. job' = job /\ part' = part /\ pc = "uninstall" /\ job = 0 /\ part = "sync"
  BY DEF UninstallAll, options, InstallInv, Turns
<1>2. CASE Fail /\ installed' = installed
  <2>1. pc' = "failed"
    BY <1>2 DEF Fail, Goto
  <2>2. QED BY <1>1, <1>2, <2>1, PartStays DEF BeforeInstall
<1>3. CASE installed' = installed \ gone /\ Goto("replace")
  <2>1. pc' = "replace"
    BY <1>3 DEF Goto
  <2>2. Behind' = Behind
    BY <1>1, <2>1 DEF Behind, Names
  <2>3. \A n : NameThere(n) => NameThere(n)' \/ Excused(n)
    BY <1>3 DEF NameThere, Excused, Present
  <2>4. \A t : ThereOrGone(t) => ThereOrGone(t)'
    BY <2>3 DEF ThereOrGone, Excused
  <2>5. \A t \in Range(Uninstall) : Present(t)' = {}
    BY <1>3 DEF Present
  <2>6. Turns'
    BY <1>1, <2>1 DEF Turns, BeforeInstall
  <2>7. \A t \in Behind' : ThereOrGone(t)'
    BY <1>1, <2>2, <2>4 DEF InstallInv
  <2>8. ~(job' > 0) /\ \A i : i \notin 1 .. (job' - 1)
    BY <1>1
  <2>9. QED BY <2>5, <2>6, <2>7, <2>8 DEF InstallInv
<1>4. QED BY <1>2, <1>3 DEF UninstallAll

LEMMA ReplaceStays ==
  ASSUME ReplacementsStay, InstallInv, Jobs, ReplaceNext
  PROVE  InstallInv'
<1> DEFINE j == job + 1
<1>1. /\ job' = j /\ part' = "sync" /\ pc = "replace" /\ pc' = "install"
      /\ job \in Nat /\ j \in DOMAIN Replaces /\ j \in 1 .. Len(Replaces)
  <2>1. Replaces \in Seq(Range(Replaces))
    BY ConfigAssumption DEF IsSequence
  <2>2. Len(Replaces) \in Nat /\ DOMAIN Replaces = 1 .. Len(Replaces)
    BY <2>1, LenProperties
  <2>3. /\ job' = j /\ part' = part /\ pc = "replace" /\ pc' = "install" /\ job < Len(Replaces)
        /\ part = "sync"
    BY DEF ReplaceNext, Goto, InstallInv, Turns
  <2>4. job \in Nat
    BY <2>2 DEF Jobs
  <2>5. QED BY <2>2, <2>3, <2>4
<1>2. \/ installed' = installed
      \/ installed' = installed \ Present(Replaces[j].old)
  BY DEF ReplaceNext
<1> HIDE DEF j
<1>3. Behind' = {} /\ Behind = Range(Names(job))
  BY <1>1 DEF Behind
<1>4. \A n : NameThere(n) => NameThere(n)' \/ n = Replaces[j].old.name
  BY <1>2 DEF NameThere, Present
<1>5. \A t : ThereOrGone(t) => ThereOrGone(t)'
  <2>1. \A n : NameThere(n) => NameThere(n)' \/ Excused(n)
    BY <1>1, <1>4 DEF Excused
  <2>2. QED BY <2>1 DEF ThereOrGone, Excused
<1>6. \A t \in Range(Install) : ThereOrGone(t)
  <2>1. CASE job = 0
    <3>1. Behind = Range(Install)
      BY <1>3, <2>1, NamesAre DEF Jobs
    <3>2. QED BY <2>1, <3>1 DEF InstallInv
  <2>2. CASE job > 0
    BY <2>2 DEF InstallInv
  <2>3. QED BY <1>1, <2>1, <2>2
<1>7. ASSUME NEW i \in 1 .. (j - 1) PROVE NameThere(Replaces[i].new.name)'
  <2>1. i \in 1 .. job /\ i \in DOMAIN Replaces /\ j > i /\ job > 0
    <3>1. DOMAIN Replaces = 1 .. Len(Replaces) /\ Len(Replaces) \in Nat
      BY ConfigAssumption, LenProperties DEF IsSequence
    <3>2. QED BY <1>1, <3>1 DEF j
  <2>2. NameThere(Replaces[i].new.name)
    <3>1. CASE i = job
      <4>1. Replaces[job].new \in Behind
        BY <1>3, <2>1, NamesAre DEF Jobs
      <4>2. QED BY <2>1, <3>1, <4>1 DEF InstallInv
    <3>2. CASE i # job
      <4>1. i \in 1 .. (job - 1)
        BY <1>1, <2>1, <3>2
      <4>2. QED BY <4>1 DEF InstallInv
    <3>3. QED BY <3>1, <3>2
  <2>3. Replaces[j].old.name # Replaces[i].new.name
    BY <1>1, <2>1 DEF ReplacementsStay
  <2>4. QED BY <1>4, <2>2, <2>3
<1>8. \A t \in Range(Uninstall) : Present(t)' = {}
  <2>1. \A t \in Range(Uninstall) : Present(t) = {}
    BY <1>1 DEF InstallInv, Uninstalled
  <2>2. QED BY <1>2, <2>1 DEF Present
<1>9. Turns'
  BY <1>1 DEF Turns, BeforeInstall
<1>10. job' # 0
  BY <1>1 DEF j
<1>11. QED BY <1>1, <1>3, <1>5, <1>6, <1>7, <1>8, <1>9, <1>10 DEF InstallInv

LEMMA InstallInvStep ==
  ASSUME NamesExist, ReplacementsStay, NothingComesBack, KeysInv, WalkInv, InstallInv, [Next]_vars
  PROVE  InstallInv'
<1>1. Jobs
  BY DEF WalkInv, Jobs
<1>2. CASE DoInitKeyring \/ DoTrustAll \/ UpdateDatabase \/ Refresh \/ DownloadKeyrings \/ TrustKeyring
  <2>1. installed' = installed /\ job' = job /\ part' = part
    BY <1>2 DEF DoInitKeyring, DoTrustAll, UpdateDatabase, Refresh, DownloadKeyrings, TrustKeyring, rootfs
  <2>2. pc \in BeforeInstall /\ pc' \in BeforeInstall \cup {"install", "failed"}
    BY <1>2 DEF DoInitKeyring, DoTrustAll, UpdateDatabase, Refresh, DownloadKeyrings, TrustKeyring,
                Keyring, Fetch, Retry, Goto, Fail, BeforeInstall
  <2>3. QED BY <2>1, <2>2, PartStays DEF BeforeInstall
<1>3. CASE StartInstall
  BY <1>1, <1>3, StartInstallStays
<1>4. CASE Walk \/ WalkDone \/ Download \/ Kill
  <2>1. installed' = installed /\ job' = job /\ part' = part
    BY <1>4 DEF Walk, WalkDone, Download, Kill, rootfs
  <2>2. pc' \in {"walk", "download", "failed"}
    BY <1>4 DEF Walk, WalkDone, Download, Kill, Fetch, Retry, Goto, Fail
  <2>3. QED BY <2>1, <2>2, PartStays DEF BeforeInstall
<1>5. CASE Pacman
  BY <1>1, <1>5, PacmanStays
<1>6. CASE UninstallAll
  BY <1>1, <1>6, UninstallStays
<1>7. CASE ReplaceNext
  BY <1>1, <1>7, ReplaceStays
<1>8. CASE Finish
  <2>1. /\ installed' = installed /\ job' = job /\ part' = part /\ pc = "replace" /\ job = Len(Replaces)
        /\ pc' \in {"failed", "done"}
    BY <1>8 DEF Finish, rootfs, Goto, Fail
  <2>2. Behind' \subseteq Behind
    BY <2>1 DEF Behind, Names
  <2>3. Turns' /\ (Uninstalled' => Uninstalled)
    BY <2>1 DEF InstallInv, Turns, Uninstalled, BeforeInstall
  <2>4. QED BY <2>1, <2>2, <2>3, InstallStays
<1>9. CASE RunAgain
  <2>1. job' = 0 /\ part' = "sync" /\ pc' = "keyring"
    BY <1>9 DEF RunAgain, Goto
  <2>2. Turns' /\ Behind' = {} /\ ~Uninstalled'
    BY <2>1 DEF Turns, Behind, Uninstalled, BeforeInstall
  <2>3. ~(job' > 0) /\ \A i : i \notin 1 .. (job' - 1)
    BY <2>1
  <2>4. QED BY <2>2, <2>3 DEF InstallInv
<1>10. CASE NoMoreRuns \/ UNCHANGED vars
  <2>1. UNCHANGED <<installed, job, part, pc>>
    BY <1>10 DEF NoMoreRuns, vars
  <2>2. Behind' \subseteq Behind
    BY <2>1 DEF Behind, Names
  <2>3. Turns' /\ (Uninstalled' => Uninstalled)
    BY <2>1 DEF InstallInv, Turns, Uninstalled
  <2>4. QED BY <2>1, <2>2, <2>3, InstallStays
<1>11. QED BY <1>2, <1>3, <1>4, <1>5, <1>6, <1>7, <1>8, <1>9, <1>10 DEF Next, Step

(* A run that succeeds leaves the packages of the configuration, whatever  *)
(* runs before it left, if the names exist (NamesExist), a replacement is  *)
(* not replaced itself (ReplacementsStay) and needs nothing that was to be *)
(* removed (NothingComesBack): proc_pacman installs, removes and replaces  *)
(* in an order in which no step undoes what is to stay.                    *)
THEOREM ConfiguredInTheEnd ==
  ASSUME NamesExist, ReplacementsStay, NothingComesBack
  PROVE  Spec => []PackagesAsConfigured
<1> DEFINE Inv == KeysInv /\ WalkInv /\ InstallInv
<1>1. Init => Inv
  <2> SUFFICES ASSUME Init PROVE Inv
    OBVIOUS
  <2>1. job = 0 /\ pc = "keyring" /\ part = "sync"
    BY DEF Init
  <2>2. Turns /\ Behind = {} /\ ~Uninstalled
    BY <2>1 DEF Turns, Behind, Uninstalled, BeforeInstall
  <2>3. ~(job > 0) /\ \A i : i \notin 1 .. (job - 1)
    BY <2>1
  <2>4. InstallInv
    BY <2>2, <2>3 DEF InstallInv
  <2>5. QED BY <2>4, KeysInit, WalkInvInit
<1>2. Inv /\ [Next]_vars => Inv'
  BY KeysStep, WalkInvStep, InstallInvStep
<1>3. Inv => PackagesAsConfigured
  <2> SUFFICES ASSUME Inv, pc = "done" PROVE PackagesAsConfigured
    BY DEF PackagesAsConfigured
  <2>1. Jobs /\ job = Len(Replaces) /\ Behind = Range(Names(job))
    BY DEF WalkInv, Jobs, InstallInv, Turns, Behind
  <2>2. \A t \in Range(Install) : ThereOrGone(t)
    <3>1. CASE job = 0
      <4>1. Behind = Range(Install)
        BY <2>1, <3>1, NamesAre DEF Jobs
      <4>2. QED BY <3>1, <4>1 DEF InstallInv
    <3>2. CASE job > 0
      BY <3>2 DEF InstallInv
    <3>3. job \in Nat
      BY ConfigAssumption, LenProperties, <2>1 DEF IsSequence
    <3>4. QED BY <3>1, <3>2, <3>3
  <2>3. \A t \in Range(Install) : \A p \in Taken(t) :
           \/ Present(p) # {}
           \/ \E u \in Range(Uninstall) : u.name = p.name
           \/ \E i \in DOMAIN Replaces : Replaces[i].old.name = p.name
    BY <2>2 DEF ThereOrGone, NameThere, Excused, Present
  <2>4. \A t \in Range(Uninstall) : Present(t) = {}
    BY DEF InstallInv, Uninstalled
  <2>5. ASSUME NEW i \in DOMAIN Replaces PROVE Satisfied(Replaces[i].new, installed)
    <3>1. i \in 1 .. job /\ job \in Nat
      BY ConfigAssumption, LenProperties, <2>1 DEF IsSequence
    <3>2. NameThere(Replaces[i].new.name)
      <4>1. CASE i = job
        <5>1. Replaces[job].new \in Behind
          BY <2>1, <3>1, <4>1, NamesAre DEF Jobs
        <5>2. QED BY <3>1, <4>1, <5>1 DEF InstallInv
      <4>2. CASE i # job
        <5>1. i \in 1 .. (job - 1)
          BY <3>1, <4>2
        <5>2. QED BY <5>1 DEF InstallInv
      <4>3. QED BY <4>1, <4>2
    <3>3. QED BY <3>2 DEF NameThere, Satisfied
  <2>6. QED BY <2>3, <2>4, <2>5 DEF PackagesAsConfigured
<1>4. QED BY <1>1, <1>2, <1>3, PTL DEF Spec

=============================================================================
