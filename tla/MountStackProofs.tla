-------------------------- MODULE MountStackProofs --------------------------
(***************************************************************************)
(* For every tab of mounts and any number of runs: the builder never       *)
(* forgets a mount of its own, ctx.chroot is set only over a complete set  *)
(* of mounts, and undo_mounts meets children before their parents.         *)
(*                                                                         *)
(* A failing init_mount takes back what nobody uses: it started on a clean *)
(* workspace, so that every mount is its own and is tried in each pass, and*)
(* a pass meets children before their parents, so that a parent is refused *)
(* only when it is in use or one below it was refused before.              *)
(***************************************************************************)
EXTENDS MountStack, SequenceTheorems, WellFoundedInduction, TLAPS

(* A non-empty set of naturals has the least element that Min picks.       *)
LEMMA MinExists ==
  ASSUME NEW I \in SUBSET Nat, I # {}
  PROVE  Min(I) \in I
<1>1. \E x \in I : \A y \in I : ~(<<y, x>> \in OpToRel(<, Nat))
  BY WFMin, NatLessThanWellFounded
<1>2. \A x, y \in Nat : x =< y \/ <<y, x>> \in OpToRel(<, Nat)
  BY DEF OpToRel
<1>3. \E x \in I : \A y \in I : x =< y
  BY <1>1, <1>2
<1>4. QED BY <1>3 DEF Min

(* r is s without some occurrences of e.                                   *)
Thinned(r, s, e) ==
  /\ \A x \in ToSet(s) : x # e => x \in ToSet(r)
  /\ \A i, j \in 1 .. Len(r) : i < j =>
       \E k, l \in 1 .. Len(s) : k < l /\ r[i] = s[k] /\ r[j] = s[l]

(* What list.remove does: only one occurrence of e goes, and the others    *)
(* keep their order.                                                       *)
LEMMA RemoveFirstFacts ==
  ASSUME NEW S, NEW s \in Seq(S), NEW e
  PROVE  RemoveFirst(s, e) \in Seq(S) /\ Thinned(RemoveFirst(s, e), s, e)
<1>1. CASE ~\E i \in 1 .. Len(s) : s[i] = e
  BY <1>1 DEF RemoveFirst, Thinned
<1>2. CASE \E i \in 1 .. Len(s) : s[i] = e
  <2> DEFINE I == {i \in 1 .. Len(s) : s[i] = e}
             n == Min(I)
             front == SubSeq(s, 1, n - 1)
             back == SubSeq(s, n + 1, Len(s))
  <2>1. n \in 1 .. Len(s) /\ s[n] = e
    <3>1. I # {} /\ I \in SUBSET Nat
      BY <1>2
    <3>2. QED BY <3>1, MinExists
  <2>2. RemoveFirst(s, e) = front \o back
    <3>1. I # {}
      BY <1>2
    <3>2. SelectInSeq(s, LAMBDA v : v = e) = n
      BY <3>1 DEF SelectInSeq
    <3>3. QED BY <1>2, <3>2 DEF RemoveFirst, RemoveAt
  <2> HIDE DEF n
  <2>3. /\ front \in Seq(S) /\ Len(front) = n - 1
        /\ \A i \in 1 .. n - 1 : front[i] = s[i]
    BY <2>1, SubSeqProperties
  <2>4. /\ back \in Seq(S) /\ Len(back) = Len(s) - n
        /\ \A i \in 1 .. Len(s) - n : back[i] = s[n + i]
    BY <2>1, SubSeqProperties
  <2> DEFINE r == front \o back
  <2> HIDE DEF front, back
  <2>5. /\ r \in Seq(S) /\ Len(r) = Len(s) - 1
        /\ \A i \in 1 .. Len(r) : r[i] = IF i < n THEN s[i] ELSE s[i + 1]
    <3>1. /\ r \in Seq(S) /\ Len(r) = Len(front) + Len(back)
          /\ \A i \in 1 .. Len(front) + Len(back) :
               r[i] = IF i <= Len(front) THEN front[i] ELSE back[i - Len(front)]
      BY <2>3, <2>4, ConcatProperties
    <3> HIDE DEF r
    <3>2. ASSUME NEW i \in 1 .. Len(s) - 1
          PROVE  r[i] = IF i < n THEN s[i] ELSE s[i + 1]
      <4>0. i \in 1 .. Len(front) + Len(back)
        BY <2>1, <2>3, <2>4
      <4>1. CASE i < n
        <5>1. i <= Len(front) /\ i \in 1 .. n - 1
          BY <2>1, <2>3, <4>1
        <5>2. r[i] = front[i] /\ front[i] = s[i]
          BY <2>3, <3>1, <4>0, <5>1
        <5>3. QED BY <4>1, <5>2
      <4>2. CASE n <= i
        <5> DEFINE k == i - Len(front)
        <5>1. /\ ~(i <= Len(front)) /\ ~(i < n)
              /\ k \in 1 .. Len(s) - n /\ n + k = i + 1
          BY <2>1, <2>3, <4>2
        <5>2. r[i] = back[k] /\ back[k] = s[n + k]
          BY <2>4, <3>1, <4>0, <5>1
        <5>3. QED BY <5>1, <5>2
      <4>3. QED BY <2>1, <4>1, <4>2
    <3>3. Len(r) = Len(s) - 1
      BY <2>1, <2>3, <2>4, <3>1
    <3>4. QED BY <3>1, <3>2, <3>3
  <2> HIDE DEF r
  <2>6. ASSUME NEW x \in ToSet(s), x # e PROVE x \in ToSet(r)
    <3>1. PICK i \in 1 .. Len(s) : s[i] = x
      BY DEF ToSet
    <3>2. i # n
      BY <2>1, <2>6, <3>1
    <3>3. CASE i < n
      <4>1. i \in 1 .. Len(r) /\ r[i] = x
        BY <2>1, <2>5, <3>1, <3>3
      <4>2. QED BY <2>5, <4>1 DEF ToSet
    <3>4. CASE n < i
      <4>1. i - 1 \in 1 .. Len(r) /\ r[i - 1] = x
        BY <2>1, <2>5, <3>1, <3>4
      <4>2. QED BY <2>5, <4>1 DEF ToSet
    <3>5. QED BY <2>1, <3>1, <3>2, <3>3, <3>4
  <2>7. ASSUME NEW i \in 1 .. Len(r), NEW j \in 1 .. Len(r), i < j
        PROVE  \E k, l \in 1 .. Len(s) : k < l /\ r[i] = s[k] /\ r[j] = s[l]
    <3> DEFINE k == IF i < n THEN i ELSE i + 1
               l == IF j < n THEN j ELSE j + 1
    <3>1. k \in 1 .. Len(s) /\ l \in 1 .. Len(s) /\ k < l
      BY <2>1, <2>5, <2>7
    <3>2. r[i] = s[k] /\ r[j] = s[l]
      BY <2>5
    <3>3. QED BY <3>1, <3>2
  <2>8. RemoveFirst(s, e) = r
    BY <2>2 DEF r
  <2>9. r \in Seq(S) /\ Thinned(r, s, e)
    BY <2>5, <2>6, <2>7 DEF Thinned
  <2>10. QED BY <2>8, <2>9
<1>3. QED BY <1>1, <1>2

-----------------------------------------------------------------------------
(* A mount was made by this run or an earlier one.                         *)
PastRuns == \A t \in Targets : kmnt[t] # NoMount => kmnt[t].run =< run

(* What a mount loop still has to mount is above nothing mounted so far.   *)
RestIsBelow ==
  mpc = "mount" =>
    /\ ParentsFirst(todo)
    /\ \A i \in 1 .. Len(todo), j \in 1 .. Len(mounted) :
         <<todo[i].target, mounted[j]>> \notin Above

(* init_mount found the workspace clean: what is mounted now is its own,   *)
(* and every entry of its tab is mounted or still to be mounted.           *)
InitProgress ==
  mpc = "mount" /\ call = "init" =>
    /\ \A t \in Targets : kmnt[t] # NoMount => kmnt[t].run = run
    /\ \A k \in 1 .. Len(ChrootTab) :
         \/ kmnt[ChrootTab[k].target] # NoMount
         \/ \E j \in 1 .. Len(todo) : todo[j] = ChrootTab[k]

NoChrootInUndo == mpc = "undo" => ~chroot

IInv ==
  /\ TypeOK
  /\ PastRuns /\ RestIsBelow /\ InitProgress /\ NoChrootInUndo
  /\ NothingForgotten /\ ChrootReady /\ ChildrenFirst

(* The entries of init_mount's tab are for directories of the workspace.   *)
LEMMA ChrootTargets == \A k \in 1 .. Len(ChrootTab) : ChrootTab[k].target \in Targets
<1>1. ASSUME NEW k \in 1 .. Len(ChrootTab) PROVE ChrootTab[k] \in Entry
  BY MountStackAssumption, ElementOfSeq
<1>2. QED BY <1>1 DEF Entry

(* The empty workspace satisfies the invariant.                            *)
LEMMA InitIInv == Init => IInv
<1> SUFFICES ASSUME Init PROVE IInv
  OBVIOUS
<1>1. run \in Runs /\ 1 =< run
  BY MountStackAssumption DEF Init, Runs
<1>2. mounted \in Seq(Targets) /\ queue \in Seq(Targets) /\ todo \in Seq(Entry)
      /\ Len(mounted) = 0
  BY DEF Init
<1>3. TypeOK
  BY <1>1, <1>2 DEF Init, TypeOK
<1>4. ChildrenFirst
  BY <1>2 DEF ChildrenFirst
<1>5. QED
  BY <1>3, <1>4 DEF Init, IInv, PastRuns, RestIsBelow, InitProgress,
     NoChrootInUndo, NothingForgotten, ChrootReady

(* One mount: the loop's next entry goes to the front of ctx.mounted.      *)
LEMMA MountNextStep == ASSUME IInv, MountNext PROVE IInv'
<1> USE MountStackAssumption
<1> DEFINE e == Head(todo)
<1>1. /\ mpc = "mount" /\ todo \in Seq(Entry) /\ todo # <<>>
      /\ kmnt \in [Targets -> Mount \cup {NoMount}] /\ mounted \in Seq(Targets)
      /\ run \in Runs
  BY DEF IInv, TypeOK, MountNext
<1>2. /\ e = todo[1] /\ e \in Entry /\ Tail(todo) \in Seq(Entry)
      /\ Len(todo) \in Nat /\ 1 \in 1 .. Len(todo)
      /\ Len(Tail(todo)) = Len(todo) - 1
      /\ \A i \in 1 .. Len(Tail(todo)) : Tail(todo)[i] = todo[i + 1]
  BY <1>1, HeadTailProperties
<1>3. e.target \in Targets /\ e.dev \in Devs
  BY <1>2 DEF Entry
<1>4. /\ mounted' \in Seq(Targets) /\ Len(mounted') = Len(mounted) + 1
      /\ mounted'[1] = e.target
      /\ \A j \in 2 .. Len(mounted') : j - 1 \in 1 .. Len(mounted) /\ mounted'[j] = mounted[j - 1]
  <2>1. mounted' = <<e.target>> \o mounted
    BY DEF MountNext, Inserted
  <2>2. <<e.target>> \in Seq(Targets) /\ Len(<<e.target>>) = 1
    BY <1>3
  <2>3. /\ mounted' \in Seq(Targets) /\ Len(mounted') = 1 + Len(mounted)
        /\ \A j \in 1 .. 1 + Len(mounted) :
             mounted'[j] = IF j <= 1 THEN <<e.target>>[j] ELSE mounted[j - 1]
    BY <1>1, <2>1, <2>2, ConcatProperties
  <2>4. Len(mounted) \in Nat
    BY <1>1
  <2>5. QED BY <2>3, <2>4
<1>5. /\ kmnt' \in [Targets -> Mount \cup {NoMount}]
      /\ kmnt'[e.target] # NoMount
      /\ \A t \in Targets : \/ kmnt'[t] = kmnt[t]
                            \/ t = e.target /\ kmnt'[t].run = run
      /\ \A t \in Targets : kmnt[t] # NoMount => kmnt'[t] = kmnt[t]
  <2>1. [dev |-> e.dev, run |-> run] \in Mount
    BY <1>1, <1>3 DEF Mount
  <2>2. kmnt' = IF kmnt[e.target] = NoMount
                THEN [kmnt EXCEPT ![e.target] = [dev |-> e.dev, run |-> run]]
                ELSE kmnt
    BY DEF MountNext
  <2>3. QED BY <1>1, <1>3, <2>1, <2>2
<1>6. /\ todo' = Tail(todo)
      /\ UNCHANGED <<holders, run, chroot, mpc, call, result, queue, progress, raising, busy>>
  BY DEF MountNext
<1>7. TypeOK'
  BY <1>2, <1>4, <1>5, <1>6 DEF IInv, TypeOK
<1>8. PastRuns'
  BY <1>1, <1>5, <1>6 DEF IInv, PastRuns, Runs
<1>9. RestIsBelow' /\ ChildrenFirst'
  <2>1. \A i \in 1 .. Len(todo) : i > 1 => <<todo[i].target, e.target>> \notin Above
    BY <1>1, <1>2 DEF IInv, RestIsBelow, ParentsFirst
  <2>2. \A j \in 1 .. Len(mounted) : <<e.target, mounted[j]>> \notin Above
    BY <1>1, <1>2 DEF IInv, RestIsBelow
  <2>3. ParentsFirst(todo')
    BY <1>1, <1>2, <1>6 DEF IInv, RestIsBelow, ParentsFirst
  <2>4. ASSUME NEW i \in 1 .. Len(todo'), NEW j \in 1 .. Len(mounted')
        PROVE  <<todo'[i].target, mounted'[j]>> \notin Above
    <3>1. todo'[i] = todo[i + 1] /\ i + 1 \in 1 .. Len(todo) /\ i + 1 > 1
      BY <1>2, <1>6
    <3>2. CASE j = 1
      BY <1>4, <2>1, <3>1, <3>2
    <3>3. CASE j # 1
      <4>1. j \in 2 .. Len(mounted')
        BY <3>3
      <4>2. j - 1 \in 1 .. Len(mounted) /\ mounted'[j] = mounted[j - 1]
        BY <1>4, <4>1
      <4>3. QED BY <1>1, <3>1, <4>2 DEF IInv, RestIsBelow
    <3>4. QED BY <3>2, <3>3
  <2>5. ASSUME NEW i \in 1 .. Len(mounted'), NEW j \in 1 .. Len(mounted'), i < j
        PROVE  <<mounted'[i], mounted'[j]>> \notin Above
    <3>1. j \in 2 .. Len(mounted')
      BY <2>5
    <3>2. j - 1 \in 1 .. Len(mounted) /\ mounted'[j] = mounted[j - 1]
      BY <1>4, <3>1
    <3>3. CASE i = 1
      BY <1>4, <2>2, <3>2, <3>3
    <3>4. CASE i # 1
      <4>1. i \in 2 .. Len(mounted') /\ i - 1 < j - 1
        BY <2>5, <3>4
      <4>2. i - 1 \in 1 .. Len(mounted) /\ mounted'[i] = mounted[i - 1]
        BY <1>4, <4>1
      <4>3. QED BY <3>2, <4>1, <4>2 DEF IInv, ChildrenFirst
    <3>5. QED BY <3>3, <3>4
  <2>6. QED BY <2>3, <2>4, <2>5 DEF RestIsBelow, ChildrenFirst
<1>10. InitProgress'
  <2> SUFFICES ASSUME call = "init" PROVE InitProgress'
    BY <1>6 DEF InitProgress
  <2>1. \A t \in Targets : kmnt'[t] # NoMount => kmnt'[t].run = run
    BY <1>1, <1>5 DEF IInv, InitProgress
  <2>2. ASSUME NEW k \in 1 .. Len(ChrootTab)
        PROVE  \/ kmnt'[ChrootTab[k].target] # NoMount
               \/ \E j \in 1 .. Len(todo') : todo'[j] = ChrootTab[k]
    <3>0. ChrootTab[k].target \in Targets
      BY ChrootTargets
    <3>1. CASE kmnt[ChrootTab[k].target] # NoMount
      BY <1>5, <3>0, <3>1
    <3>2. CASE \E j \in 1 .. Len(todo) : todo[j] = ChrootTab[k]
      <4>1. PICK j \in 1 .. Len(todo) : todo[j] = ChrootTab[k]
        BY <3>2
      <4>2. CASE j = 1
        BY <1>2, <1>5, <4>1, <4>2
      <4>3. CASE j # 1
        <5>1. j - 1 \in 1 .. Len(todo') /\ (j - 1) + 1 = j
          BY <1>2, <1>6, <4>3
        <5>2. todo'[j - 1] = todo[j]
          BY <1>2, <1>6, <5>1
        <5>3. QED BY <4>1, <5>1, <5>2
      <4>4. QED BY <4>2, <4>3
    <3>3. QED BY <1>1, <3>1, <3>2 DEF IInv, InitProgress
  <2>3. QED BY <1>6, <2>1, <2>2 DEF InitProgress
<1>11. NoChrootInUndo'
  BY <1>1, <1>6 DEF NoChrootInUndo
<1>12. NothingForgotten'
  <2> SUFFICES ASSUME NEW t \in Targets, kmnt'[t] # NoMount, kmnt'[t].run = run
               PROVE  t \in ToSet(mounted')
    BY <1>6 DEF NothingForgotten
  <2>1. CASE t = e.target
    <3>1. 1 \in DOMAIN mounted'
      BY <1>1, <1>4
    <3>2. QED BY <1>4, <2>1, <3>1 DEF ToSet
  <2>2. CASE t # e.target
    <3>1. t \in ToSet(mounted)
      BY <1>5, <2>2 DEF IInv, NothingForgotten
    <3>2. PICK i \in 1 .. Len(mounted) : mounted[i] = t
      BY <1>1, <3>1 DEF ToSet
    <3>3. i + 1 \in 2 .. Len(mounted') /\ (i + 1) - 1 = i
      BY <1>1, <1>4
    <3>4. i + 1 \in DOMAIN mounted' /\ mounted'[i + 1] = t
      BY <1>4, <3>2, <3>3
    <3>5. QED BY <3>4 DEF ToSet
  <2>3. QED BY <2>1, <2>2
<1>13. ChrootReady'
  <2>1. QED BY <1>5, <1>6, ChrootTargets DEF IInv, ChrootReady
<1>14. QED
  BY <1>7, <1>8, <1>9, <1>10, <1>11, <1>12, <1>13 DEF IInv

(* What Return assigns has the type of the loops' variables.               *)
LEMMA ReturnTypes ==
  ASSUME NEW r, Return(r)
  PROVE  /\ mpc' = "idle" /\ result' = r
         /\ todo' \in Seq(Entry) /\ queue' \in Seq(Targets)
         /\ progress' \in BOOLEAN /\ raising' \in BOOLEAN
<1>1. <<>> \in Seq(Entry) /\ <<>> \in Seq(Targets)
  OBVIOUS
<1>2. QED BY <1>1 DEF Return

(* One unmount: what is unmounted is what leaves ctx.mounted.              *)
LEMMA UmountNextStep == ASSUME IInv, UmountNext PROVE IInv'
<1> USE MountStackAssumption
<1> DEFINE t == Head(queue)
<1>1. /\ mpc = "undo" /\ ~chroot /\ queue # <<>> /\ t \in Targets
      /\ Tail(queue) \in Seq(Targets) /\ mounted \in Seq(Targets)
  BY HeadTailProperties DEF IInv, TypeOK, NoChrootInUndo, UmountNext
<1>2. /\ queue' = Tail(queue)
      /\ UNCHANGED <<holders, run, chroot, mpc, call, result, todo, raising>>
      /\ busy' \in {busy, busy \cup {t}}
  BY DEF UmountNext
<1>3. CASE UNCHANGED <<kmnt, mounted, progress>>
  BY <1>1, <1>2, <1>3
  DEF IInv, TypeOK, PastRuns, RestIsBelow, InitProgress, NoChrootInUndo,
      NothingForgotten, ChrootReady, ChildrenFirst
<1>4. CASE /\ kmnt' = [kmnt EXCEPT ![t] = NoMount]
           /\ mounted' = RemoveFirst(mounted, t)
           /\ progress' = TRUE
  <2>1. /\ mounted' \in Seq(Targets)
        /\ \A x \in ToSet(mounted) : x # t => x \in ToSet(mounted')
        /\ \A i, j \in 1 .. Len(mounted') : i < j =>
             \E k, l \in 1 .. Len(mounted) :
               k < l /\ mounted'[i] = mounted[k] /\ mounted'[j] = mounted[l]
    <3> HIDE DEF t
    <3>1. RemoveFirst(mounted, t) \in Seq(Targets) /\ Thinned(RemoveFirst(mounted, t), mounted, t)
      BY <1>1, RemoveFirstFacts, Zenon
    <3>2. mounted' \in Seq(Targets) /\ Thinned(mounted', mounted, t)
      BY <1>4, <3>1
    <3>3. QED BY <3>2 DEF Thinned
  <2>2. TypeOK'
    BY <1>1, <1>2, <1>4, <2>1 DEF IInv, TypeOK
  <2>3. PastRuns' /\ NothingForgotten'
    BY <1>1, <1>2, <1>4, <2>1 DEF IInv, TypeOK, PastRuns, NothingForgotten
  <2>4. ChildrenFirst'
    <3> SUFFICES ASSUME NEW i \in 1 .. Len(mounted'), NEW j \in 1 .. Len(mounted'), i < j
                 PROVE  <<mounted'[i], mounted'[j]>> \notin Above
      BY DEF ChildrenFirst
    <3>1. PICK k \in 1 .. Len(mounted), l \in 1 .. Len(mounted) :
            k < l /\ mounted'[i] = mounted[k] /\ mounted'[j] = mounted[l]
      BY <2>1
    <3>2. <<mounted[k], mounted[l]>> \notin Above
      BY <3>1 DEF IInv, ChildrenFirst
    <3>3. QED BY <3>1, <3>2
  <2>5. RestIsBelow' /\ InitProgress' /\ NoChrootInUndo' /\ ChrootReady'
    BY <1>1, <1>2 DEF RestIsBelow, InitProgress, NoChrootInUndo, ChrootReady
  <2>6. QED BY <2>2, <2>3, <2>4, <2>5 DEF IInv
<1>5. QED BY <1>3, <1>4 DEF UmountNext

(* Entering undo_mounts, or returning from it at once, keeps the invariant.*)
LEMMA EnterUndoStep ==
  ASSUME IInv, NEW e \in BOOLEAN, EnterUndo(e),
         call' \in {"none", "init", "all", "undo"},
         UNCHANGED <<kmnt, holders, run, mounted>>
  PROVE  IInv'
<1>1. TypeOK'
  <2>1. CASE mounted = <<>>
    <3>1. Return(IF e THEN "raise" ELSE "ok") /\ chroot' = chroot /\ busy' = {}
      BY <2>1 DEF EnterUndo
    <3>2. result' \in {"none", "ok", "raise"}
      BY <3>1, ReturnTypes
    <3>3. QED BY <3>1, <3>2, ReturnTypes DEF IInv, TypeOK
  <2>2. CASE mounted # <<>>
    <3>1. <<>> \in Seq(Entry)
      OBVIOUS
    <3>2. QED BY <2>2, <3>1 DEF IInv, TypeOK, EnterUndo
  <2>3. QED BY <2>1, <2>2
<1>2. mpc' # "mount" /\ (chroot' => chroot) /\ (mpc' = "undo" => ~chroot')
  BY DEF EnterUndo, Return
<1>3. QED
  BY <1>1, <1>2 DEF IInv, PastRuns, RestIsBelow, InitProgress, NoChrootInUndo,
     NothingForgotten, ChrootReady, ChildrenFirst

(* The start of a mount loop over a tab that lists parents first; the loop *)
(* of init_mount starts on a clean workspace.                              *)
LEMMA StartLoopStep ==
  ASSUME IInv, NEW tab \in Seq(Entry), ParentsFirst(tab), StartLoop(tab),
         mounted = <<>>, call' \in {"none", "init", "all", "undo"},
         UNCHANGED <<kmnt, holders, run, mounted, chroot, busy>>,
         call' = "init" => ~Dirty /\ tab = ChrootTab
  PROVE  IInv'
<1>1. TypeOK'
  BY DEF IInv, TypeOK, StartLoop
<1>2. Len(mounted') = 0 /\ todo' = tab /\ mpc' = "mount"
  BY DEF StartLoop
<1>3. RestIsBelow'
  BY <1>2 DEF RestIsBelow
<1>4. InitProgress'
  BY <1>2 DEF InitProgress, Dirty
<1>5. QED
  BY <1>1, <1>2, <1>3, <1>4 DEF IInv, PastRuns, NoChrootInUndo,
     NothingForgotten, ChrootReady, ChildrenFirst

(* Back in idle with everything else as it was.                            *)
LEMMA ReturnStep ==
  ASSUME IInv, NEW r \in {"none", "ok", "raise"}, Return(r),
         call' \in {"none", "init", "all", "undo"},
         UNCHANGED <<kmnt, holders, run, mounted, chroot>>,
         busy' \subseteq Targets
  PROVE  IInv'
<1>1. TypeOK' /\ mpc' = "idle"
  BY ReturnTypes DEF IInv, TypeOK
<1>2. QED
  BY <1>1 DEF IInv, PastRuns, RestIsBelow, InitProgress, NoChrootInUndo,
     NothingForgotten, ChrootReady, ChildrenFirst

(* init_mount sets ctx.chroot when its whole tab is mounted.               *)
LEMMA MountDoneStep == ASSUME IInv, MountDone PROVE IInv'
<1>1. TypeOK' /\ mpc' = "idle" /\ UNCHANGED <<kmnt, holders, run, mounted>>
  <2>1. chroot' \in BOOLEAN
    BY Zenon DEF MountDone
  <2>2. Return("ok") /\ UNCHANGED <<kmnt, holders, run, mounted, call, busy>>
    BY DEF MountDone
  <2>3. QED BY <2>1, <2>2, ReturnTypes DEF IInv, TypeOK
<1>2. ChrootReady'
  <2>1. CASE call = "init"
    <3>1. Len(todo) = 0 /\ mpc = "mount"
      BY DEF MountDone
    <3>2. \A k \in 1 .. Len(ChrootTab) :
            /\ kmnt[ChrootTab[k].target] # NoMount
            /\ kmnt[ChrootTab[k].target].run = run
      BY <2>1, <3>1, ChrootTargets DEF IInv, InitProgress
    <3>3. QED BY <1>1, <3>2 DEF ChrootReady
  <2>2. CASE call # "init"
    BY <1>1, <2>2 DEF IInv, MountDone, ChrootReady
  <2>3. QED BY <2>1, <2>2
<1>3. QED
  BY <1>1, <1>2 DEF IInv, PastRuns, RestIsBelow, InitProgress, NoChrootInUndo,
     NothingForgotten, ChildrenFirst

(* A new run forgets nothing of its own: it has not mounted anything yet.  *)
LEMMA RestartStep == ASSUME IInv, Restart PROVE IInv'
<1>1. run \in Nat /\ run' = run + 1 /\ run' \in Runs
  BY MountStackAssumption DEF IInv, TypeOK, Restart, Runs
<1>2. TypeOK' /\ mpc' = "idle" /\ ~chroot' /\ Len(mounted') = 0
  <2>1. /\ Return("none") /\ mounted' = <<>> /\ chroot' = FALSE /\ call' = "none" /\ busy' = {}
        /\ UNCHANGED <<kmnt, holders>>
    BY DEF Restart
  <2>2. mounted' \in Seq(Targets) /\ Len(mounted') = 0
    BY <2>1
  <2>3. QED BY <1>1, <2>1, <2>2, ReturnTypes DEF IInv, TypeOK
<1>3. \A t \in Targets : kmnt'[t] # NoMount =>
        kmnt'[t].run =< run' /\ kmnt'[t].run # run'
  <2> SUFFICES ASSUME NEW t \in Targets, kmnt[t] # NoMount
               PROVE  kmnt[t].run =< run' /\ kmnt[t].run # run'
    BY DEF Restart
  <2>1. kmnt[t].run \in Int /\ kmnt[t].run =< run
    BY MountStackAssumption DEF IInv, TypeOK, PastRuns, Mount, Runs
  <2>2. QED BY <1>1, <2>1
<1>4. QED
  BY <1>2, <1>3 DEF IInv, PastRuns, RestIsBelow, InitProgress, NoChrootInUndo,
     NothingForgotten, ChrootReady, ChildrenFirst

(* Every step keeps the invariant.                                         *)
LEMMA InvStep == ASSUME IInv, [Next]_vars PROVE IInv'
<1> USE MountStackAssumption
<1>1. CASE InitMount
  BY <1>1, StartLoopStep, ReturnStep DEF InitMount, context, IInv, TypeOK
<1>2. CASE MountAll
  BY <1>2, StartLoopStep DEF MountAll, context
<1>3. CASE UndoMounts
  BY <1>3, EnterUndoStep DEF UndoMounts
<1>4. CASE MountNext
  BY <1>4, MountNextStep
<1>5. CASE MountDone
  BY <1>5, MountDoneStep
<1>6. CASE UmountNext
  BY <1>6, UmountNextStep
<1>7. CASE UndoPass
  <2>0. call \in {"none", "init", "all", "undo"} /\ busy \subseteq Targets
    BY DEF IInv, TypeOK
  <2>1. CASE \E r \in {"ok", "raise"} : Return(r)
    BY <1>7, <2>0, <2>1, ReturnStep DEF UndoPass, context
  <2>2. CASE queue' = mounted /\ progress' = FALSE /\ busy' = {} /\ UNCHANGED <<mpc, result, todo, raising>>
    BY <1>7, <2>2 DEF UndoPass, context, IInv, TypeOK, PastRuns, RestIsBelow,
       InitProgress, NoChrootInUndo, NothingForgotten, ChrootReady, ChildrenFirst
  <2>3. QED BY <1>7, <2>1, <2>2 DEF UndoPass
<1>8. CASE MountFail
  <2>0. call \in {"none", "init", "all", "undo"} /\ busy \subseteq Targets
    BY DEF IInv, TypeOK
  <2>1. CASE call = "init"
    BY <1>8, <2>0, <2>1, EnterUndoStep DEF MountFail
  <2>2. CASE call # "init"
    BY <1>8, <2>0, <2>2, ReturnStep DEF MountFail
  <2>3. QED BY <2>1, <2>2
<1>9. ASSUME NEW p \in Holders, Release(p) \/ \E t \in Targets : Use(t, p)
      PROVE  IInv'
  <2>1. holders' \in [Targets -> SUBSET Holders] /\ UNCHANGED <<kmnt, run, context, calls>>
    BY <1>9 DEF IInv, TypeOK, Release, Use
  <2>2. QED
    BY <2>1 DEF context, calls, IInv, TypeOK, PastRuns, RestIsBelow,
       InitProgress, NoChrootInUndo, NothingForgotten, ChrootReady, ChildrenFirst
<1>10. CASE Restart
  BY <1>10, RestartStep
<1>11. CASE UNCHANGED vars
  BY <1>11 DEF vars, IInv, TypeOK, PastRuns, RestIsBelow, InitProgress,
     NoChrootInUndo, NothingForgotten, ChrootReady, ChildrenFirst
<1>12. QED
  BY <1>1, <1>2, <1>3, <1>4, <1>5, <1>6, <1>7, <1>8, <1>9, <1>10, <1>11
  DEF Next, Loop

(* Every reachable state satisfies the invariant.                          *)
THEOREM Invariance == Spec => []IInv
<1>1. Init => IInv
  BY InitIInv
<1>2. IInv /\ [Next]_vars => IInv'
  BY InvStep
<1>3. QED BY <1>1, <1>2, PTL DEF Spec

(* The variables of the mount side keep their types.                       *)
THEOREM Typing == Spec => []TypeOK
<1>1. IInv => TypeOK
  BY DEF IInv
<1>2. QED BY <1>1, Invariance, PTL

(* For any tab and any failures: a mount of this run that the kernel still *)
(* has is in ctx.mounted, where a later undo_mounts finds it.              *)
THEOREM MountsAreTracked == Spec => []NothingForgotten
<1>1. IInv => NothingForgotten
  BY DEF IInv
<1>2. QED BY <1>1, Invariance, PTL

(* For any tab: chroot_run's check of ctx.chroot implies that all of       *)
(* init_mount's file systems are mounted, by this run.                     *)
THEOREM ChrootIsComplete == Spec => []ChrootReady
<1>1. IInv => ChrootReady
  BY DEF IInv
<1>2. QED BY <1>1, Invariance, PTL

(* For any tab that lists parents first: undo_mounts walks ctx.mounted from*)
(* the inside out.                                                         *)
THEOREM UndoOrder == Spec => []ChildrenFirst
<1>1. IInv => ChildrenFirst
  BY DEF IInv
<1>2. QED BY <1>1, Invariance, PTL

-----------------------------------------------------------------------------


InInit == call = "init" /\ mpc \in {"mount", "undo"}

(* While init_mount runs, all mounts are its own.  In its undo_mounts, what *)
(* is mounted is still to be tried in this pass or was kept for a reason.  *)
InitAlone ==
  InInit => /\ \A t \in Targets : kmnt[t] # NoMount => kmnt[t].run = run
            /\ mpc = "undo" =>
                 \A t \in Targets : kmnt[t] # NoMount => t \in ToSet(queue) \/ Kept(t)

(* The rest of the list undo_mounts walks over has children first as well. *)
QueueOrder ==
  \A i, j \in 1 .. Len(queue) : i < j => <<queue[i], queue[j]>> \notin Above

InitInv == IInv /\ InitAlone /\ QueueOrder /\ FailedInitUndone

(* The empty workspace satisfies the strengthening.                        *)
LEMMA InitInitInv == Init => InitInv
  <1>1. Init => Len(queue) = 0
  BY DEF Init
<1>2. QED
  BY <1>1, InitIInv DEF Init, InitInv, InitAlone, InInit, QueueOrder, FailedInitUndone

(* An entry of a sequence is its head or in its tail.                      *)
LEMMA HeadOrTail ==
  ASSUME NEW S, NEW s \in Seq(S), s # <<>>
  PROVE  /\ Head(s) \in S /\ Tail(s) \in Seq(S)
         /\ \A x \in ToSet(s) : x = Head(s) \/ x \in ToSet(Tail(s))
         /\ \A i \in 1 .. Len(Tail(s)) : i + 1 \in 1 .. Len(s) /\ Tail(s)[i] = s[i + 1]
         /\ Head(s) = s[1] /\ 1 \in 1 .. Len(s) /\ Len(s) \in Nat
<1>1. /\ Len(s) \in Nat \ {0} /\ Head(s) = s[1] /\ Head(s) \in S /\ Tail(s) \in Seq(S)
      /\ Len(Tail(s)) = Len(s) - 1
      /\ \A i \in 1 .. Len(Tail(s)) : Tail(s)[i] = s[i + 1]
  BY EmptySeq, LenProperties, HeadTailProperties
<1>2. ASSUME NEW x \in ToSet(s), x # Head(s) PROVE x \in ToSet(Tail(s))
  <2>1. PICK i \in 1 .. Len(s) : s[i] = x
    BY <1>2 DEF ToSet
  <2>2. i - 1 \in 1 .. Len(Tail(s)) /\ (i - 1) + 1 = i
    BY <1>1, <1>2, <2>1
  <2>3. i - 1 \in DOMAIN Tail(s) /\ Tail(s)[i - 1] = x
    BY <1>1, <2>1, <2>2
  <2>4. QED BY <2>3 DEF ToSet
<1>3. QED BY <1>1, <1>2

(* undo_mounts of a failed init_mount: an entry that stays mounted was in  *)
(* use, or stays because of one below it that was tried before.            *)
LEMMA UmountInInit ==
  ASSUME InitInv, InInit, UmountNext
  PROVE  InitAlone'
<1>1. /\ mpc = "undo" /\ queue \in Seq(Targets) /\ queue # <<>> /\ queue' = Tail(queue)
      /\ UNCHANGED <<run, call, mpc>>
      /\ kmnt \in [Targets -> Mount \cup {NoMount}]
  BY DEF UmountNext, InitInv, IInv, TypeOK
<1>2. PICK t \in Targets :
        /\ t = Head(queue) /\ \A x \in ToSet(queue) : x = t \/ x \in ToSet(queue')
        /\ t = queue[1] /\ 1 \in 1 .. Len(queue)
  BY <1>1, HeadOrTail
<1>3. /\ \A s \in Targets : kmnt[s] # NoMount => kmnt[s].run = run
      /\ \A s \in Targets : kmnt[s] # NoMount => s \in ToSet(queue) \/ Kept(s)
  BY <1>1 DEF InitInv, InitAlone, InInit
<1>4. busy \subseteq busy' /\ \A s \in Targets : kmnt'[s] \in {kmnt[s], NoMount}
  BY <1>1 DEF UmountNext
<1>5. \A s \in Targets : Kept(s) => Kept(s)'
  BY <1>4 DEF Kept
<1>6. CASE kmnt[t] = NoMount \/ Unmountable(t)
  <2>1. kmnt'[t] = NoMount
    BY <1>1, <1>2, <1>6 DEF UmountNext
  <2>2. QED BY <1>1, <1>2, <1>3, <1>4, <1>5, <2>1 DEF InitAlone, InInit
<1>7. CASE kmnt[t] # NoMount /\ ~Unmountable(t)
  <2>1. Kept(t)'
    <3>1. busy' = IF holders[t] = {} THEN busy ELSE busy \cup {t}
      BY <1>2, <1>7 DEF UmountNext
    <3>2. CASE holders[t] # {}
      BY <3>1, <3>2 DEF Kept
    <3>3. CASE holders[t] = {}
      <4>1. PICK c \in Targets : <<t, c>> \in Above /\ kmnt[c] # NoMount
        BY <1>7, <3>3 DEF Unmountable
      <4>2. c \notin ToSet(queue)
        <5>1. SUFFICES ASSUME c \in ToSet(queue) PROVE FALSE
          OBVIOUS
        <5>2. PICK j \in 1 .. Len(queue) : queue[j] = c
          BY <1>1, <5>1 DEF ToSet
        <5>3. j # 1
          BY <1>2, <4>1, <5>2, MountStackAssumption
        <5>4. 1 < j
          BY <5>2, <5>3
        <5>5. QED BY <1>2, <4>1, <5>2, <5>4 DEF InitInv, QueueOrder
      <4>3. PICK u \in busy : u = c \/ <<c, u>> \in Above
        BY <1>3, <4>1, <4>2 DEF Kept
      <4>4. u \in Targets
        BY <4>3 DEF InitInv, IInv, TypeOK
      <4>5. <<t, u>> \in Above
        BY <1>2, <4>1, <4>3, <4>4, MountStackAssumption
      <4>6. QED BY <1>4, <4>3, <4>5 DEF Kept
    <3>4. QED BY <3>2, <3>3
  <2>2. QED BY <1>1, <1>2, <1>3, <1>4, <1>5, <2>1 DEF InitAlone, InInit
<1>8. QED BY <1>6, <1>7

(* Every step of the mount side keeps the strengthening.                   *)
LEMMA InitInvStep == ASSUME InitInv, [Next]_vars PROVE InitInv'
<1> USE MountStackAssumption DEF InInit
<1>0. IInv' /\ IInv /\ mounted \in Seq(Targets)
  BY InvStep DEF InitInv, IInv, TypeOK
<1>a. NothingForgotten' /\ NothingForgotten /\ ChildrenFirst
  BY <1>0 DEF IInv
<1>b. \A x \in Targets : x \notin ToSet(<<>>)
  BY DEF ToSet
<1>c. Len(<<>>) = 0
  OBVIOUS
<1>1. CASE InitMount
  <2>1. CASE Dirty
    <3>1. mpc' = "idle" /\ mounted' = <<>> /\ queue' = <<>> /\ UNCHANGED <<kmnt, holders, run>>
      BY <1>1, <2>1 DEF InitMount, Return, context
    <3>2. FailedInitUndone' /\ QueueOrder'
      BY <1>a, <1>b, <1>c, <3>1 DEF NothingForgotten, FailedInitUndone, QueueOrder
    <3>3. QED BY <1>0, <3>1, <3>2 DEF InitInv, InitAlone
  <2>2. CASE ~Dirty
    <3>1. mpc' = "mount" /\ UNCHANGED <<kmnt, run, queue>>
      BY <1>1, <2>2 DEF InitMount, StartLoop
    <3>2. \A t \in Targets : kmnt[t] = NoMount
      BY <2>2 DEF Dirty
    <3>3. QED
      BY <1>0, <3>1, <3>2 DEF InitInv, InitAlone, QueueOrder, FailedInitUndone
  <2>3. QED BY <2>1, <2>2
<1>2. CASE MountAll
  <2>1. call' # "init" /\ queue' = queue
    BY <1>2 DEF MountAll, StartLoop
  <2>2. QED BY <1>0, <2>1 DEF InitInv, InitAlone, QueueOrder, FailedInitUndone
<1>3. CASE UndoMounts
  <2>1. call' # "init" /\ queue' \in {<<>>, mounted}
    BY <1>3 DEF UndoMounts, EnterUndo, Return
  <2>2. QueueOrder'
    BY <1>a, <1>c, <2>1 DEF QueueOrder, ChildrenFirst
  <2>3. QED BY <1>0, <2>1, <2>2 DEF InitInv, InitAlone, FailedInitUndone
<1>4. CASE MountNext
  <2>1. /\ mpc = "mount" /\ mpc' = "mount" /\ UNCHANGED <<run, call, queue>>
        /\ kmnt \in [Targets -> Mount \cup {NoMount}] /\ run \in Runs
        /\ Head(todo) \in Entry
    <3>1. todo \in Seq(Entry) /\ todo # <<>>
      BY <1>0, <1>4 DEF IInv, TypeOK, MountNext
    <3>2. QED BY <1>0, <1>4, <3>1, HeadTailProperties DEF IInv, TypeOK, MountNext
  <2>2. ASSUME NEW t \in Targets
        PROVE  \/ kmnt'[t] = kmnt[t]
               \/ kmnt'[t].run = run
    <3> DEFINE e == Head(todo)
               new == [dev |-> e.dev, run |-> run]
    <3>1. kmnt' = IF kmnt[e.target] = NoMount THEN [kmnt EXCEPT ![e.target] = new] ELSE kmnt
      BY <1>4 DEF MountNext
    <3>2. new.run = run
      OBVIOUS
    <3> HIDE DEF new, e
    <3>3. QED BY <2>1, <3>1, <3>2
  <2>3. InitAlone'
    BY <2>1, <2>2 DEF InitInv, InitAlone
  <2>4. QED BY <1>0, <2>1, <2>3 DEF InitInv, QueueOrder, FailedInitUndone
<1>5. CASE MountDone
  <2>1. mpc' = "idle" /\ result' = "ok" /\ queue' = <<>>
    BY <1>5 DEF MountDone, Return
  <2>2. QED BY <1>0, <1>c, <2>1 DEF InitInv, InitAlone, QueueOrder, FailedInitUndone
<1>6. CASE MountFail
  <2>1. /\ mpc = "mount" /\ UNCHANGED <<kmnt, run, mounted, call>>
        /\ queue' \in {<<>>, mounted}
    BY <1>6 DEF MountFail, EnterUndo, Return
  <2>2. QueueOrder'
    BY <1>a, <1>c, <2>1 DEF QueueOrder, ChildrenFirst
  <2>3. CASE call # "init"
    BY <1>0, <2>1, <2>2, <2>3 DEF InitInv, InitAlone, FailedInitUndone
  <2>4. CASE call = "init" /\ mounted = <<>>
    <3>1. mpc' = "idle"
      BY <1>6, <2>4 DEF MountFail, EnterUndo, Return
    <3>2. FailedInitUndone'
      BY <1>a, <1>b, <2>1, <2>4 DEF NothingForgotten, FailedInitUndone
    <3>3. QED BY <1>0, <2>2, <3>1, <3>2 DEF InitInv, InitAlone
  <2>5. CASE call = "init" /\ mounted # <<>>
    <3>1. mpc' = "undo" /\ queue' = mounted
      BY <1>6, <2>5 DEF MountFail, EnterUndo
    <3>2. \A t \in Targets : kmnt[t] # NoMount => kmnt[t].run = run /\ t \in ToSet(mounted)
      BY <1>a, <2>1, <2>5 DEF InitInv, InitAlone, NothingForgotten
    <3>3. QED
      BY <1>0, <2>1, <2>2, <3>1, <3>2 DEF InitInv, InitAlone, FailedInitUndone
  <2>6. QED BY <2>3, <2>4, <2>5
<1>7. CASE UmountNext
  <2>1. /\ mpc = "undo" /\ mpc' = mpc /\ call' = call
        /\ queue \in Seq(Targets) /\ queue # <<>> /\ queue' = Tail(queue)
    BY <1>0, <1>7 DEF UmountNext, IInv, TypeOK
  <2>2. QueueOrder'
    <3>1. \A i \in 1 .. Len(queue') : i + 1 \in 1 .. Len(queue) /\ queue'[i] = queue[i + 1]
      BY <2>1, HeadOrTail
    <3>2. QED BY <3>1 DEF InitInv, QueueOrder
  <2>3. InitAlone'
    BY <1>7, <2>1, UmountInInit DEF InitAlone
  <2>4. QED BY <1>0, <2>1, <2>2, <2>3 DEF InitInv, FailedInitUndone
<1>8. CASE UndoPass
  <2>1. mpc = "undo" /\ queue = <<>> /\ UNCHANGED <<kmnt, run, mounted, call>>
    BY <1>8 DEF UndoPass, context
  <2>2. CASE queue' = mounted /\ mpc' = mpc
    <3>1. QueueOrder'
      BY <1>a, <2>2 DEF QueueOrder, ChildrenFirst
    <3>2. InitAlone'
      BY <1>a, <2>1, <2>2 DEF InitInv, InitAlone, NothingForgotten
    <3>3. QED BY <1>0, <2>1, <2>2, <3>1, <3>2 DEF InitInv, FailedInitUndone
  <2>3. CASE mpc' = "idle" /\ queue' = <<>> /\ busy' = busy
    <3>1. \A t \in Targets : call = "init" /\ kmnt[t] # NoMount => Kept(t)
      BY <1>b, <2>1 DEF InitInv, InitAlone
    <3>2. FailedInitUndone'
      BY <2>1, <2>3, <3>1 DEF FailedInitUndone, Kept
    <3>3. QED BY <1>0, <1>c, <2>3, <3>2 DEF InitInv, InitAlone, QueueOrder
  <2>4. QED BY <1>8, <2>2, <2>3 DEF UndoPass, Return
<1>9. ASSUME NEW p \in Holders, Release(p) \/ \E t \in Targets : Use(t, p) PROVE InitInv'
  <2>1. UNCHANGED <<kmnt, run, mounted, mpc, call, result, queue, busy>>
    BY <1>9 DEF Release, Use, context, calls
  <2>2. QED BY <1>0, <2>1 DEF InitInv, InitAlone, QueueOrder, FailedInitUndone, Kept
<1>10. CASE Restart
  <2>1. mpc' = "idle" /\ call' # "init" /\ queue' = <<>>
    BY <1>10 DEF Restart, Return
  <2>2. QED BY <1>0, <1>c, <2>1 DEF InitInv, InitAlone, QueueOrder, FailedInitUndone
<1>11. CASE UNCHANGED vars
  BY <1>0, <1>11 DEF vars, InitInv, InitAlone, QueueOrder, FailedInitUndone, Kept
<1>12. QED
  BY <1>1, <1>2, <1>3, <1>4, <1>5, <1>6, <1>7, <1>8, <1>9, <1>10, <1>11
  DEF Next, Loop

(* For any tab and any failures, runs and holders, who may open a file at  *)
(* any time: what an init_mount that raises leaves of its own mounts was in*)
(* use, or has one below it that was, in the last pass of undo_mounts.     *)
THEOREM FailedInitLeavesWhatIsUsed == Spec => []FailedInitUndone
<1>1. Init => InitInv
  BY InitInitInv
<1>2. InitInv /\ [Next]_vars => InitInv'
  BY InitInvStep
<1>3. InitInv => FailedInitUndone
  BY DEF InitInv
<1>4. QED BY <1>1, <1>2, <1>3, PTL DEF Spec

=============================================================================
