---------------------------- MODULE CGroupProofs ----------------------------
(***************************************************************************)
(* For any number of builders and processes: kill_all leaves nothing of    *)
(* what was ever in the group.  TrackedAreGone is not inductive: it needs  *)
(* to know that the group holds all tracked processes that still run       *)
(* (GroupIsComplete), that a group that does not exist holds none, and that*)
(* the process add_pid moves is the builder's own.                         *)
(***************************************************************************)
EXTENDS CGroup, TLAPS

(* A process leaves the group only by exiting.                             *)
GroupIsComplete == procs = live \cap seen

NoGroupNoMembers == ~valid => procs = {}

ChildIsOwn ==
  \A s \in Sessions : child[s] # None => child[s] \in started /\ owner[child[s]] = s

SpawnedHasChild == \A s \in Sessions : pc[s] = "spawned" => child[s] # None

IInv ==
  /\ TypeOK
  /\ GroupIsComplete
  /\ NoGroupNoMembers
  /\ ChildIsOwn
  /\ SpawnedHasChild
  /\ TrackedAreGone

(* The starting state of a builder satisfies the invariant.                *)
LEMMA InitIInv == Init => IInv
  BY CGroupAssumption
  DEF Init, IInv, TypeOK, GroupIsComplete, NoGroupNoMembers, ChildIsOwn,
      SpawnedHasChild, TrackedAreGone, AfterKill, Signals, Places

(* A step of the builder or of the processes keeps every variable in its   *)
(* type.                                                                   *)
LEMMA TypeStep == ASSUME TypeOK, SpawnedHasChild, ChildIsOwn, [Next]_vars PROVE TypeOK'
<1> USE CGroupAssumption
<1>1. ASSUME NEW s \in Sessions, Create(s) PROVE TypeOK'
  BY <1>1 DEF TypeOK, Create, Goto, world, locals, Places
<1>2. ASSUME NEW s \in Sessions, NEW p \in Procs, Popen(s, p) PROVE TypeOK'
  <2>1. Start(p, s, FALSE)
    BY <1>2 DEF Popen
  <2>2. /\ procs' \subseteq live' /\ live' \subseteq started'
        /\ started' \subseteq Procs /\ seen' \subseteq started'
        /\ owner' \in [Procs -> Sessions \cup {None}]
        /\ signal' \in [Procs -> Signals]
    BY <2>1 DEF Start, TypeOK
  <2>3. QED BY <1>2, <2>2 DEF TypeOK, Popen, Goto, Places
<1>3. ASSUME NEW s \in Sessions, AddPid(s) PROVE TypeOK'
  BY <1>3 DEF TypeOK, AddPid, Goto, world, locals, Places
<1>4. ASSUME NEW s \in Sessions, Wait(s) PROVE TypeOK'
  BY <1>4 DEF TypeOK, Wait, Goto, world, Places
<1>5. ASSUME NEW s \in Sessions, Abandon(s) PROVE TypeOK'
  BY <1>5 DEF TypeOK, Abandon, Goto, world, Places
<1>6. ASSUME NEW s \in Sessions, KillAll(s) PROVE TypeOK'
  BY <1>6 DEF TypeOK, KillAll, Goto, world, Places
<1>7. ASSUME NEW s \in Sessions, SendSignals(s) PROVE TypeOK'
  BY <1>7 DEF TypeOK, SendSignals, Goto, locals, Places, Signals
<1>8. ASSUME NEW s \in Sessions, Check(s) PROVE TypeOK'
  <2>1. pc' \in [Sessions -> Places]
    BY <1>8 DEF TypeOK, Check, Goto, Places
  <2>2. sig' \in [Sessions -> {"TERM", "KILL"}] /\ pids' \in [Sessions -> SUBSET Procs]
    BY <1>8 DEF TypeOK, Check
  <2>3. QED BY <1>8, <2>1, <2>2 DEF TypeOK, Check, world
<1>9. ASSUME NEW s \in Sessions, Destroy(s) PROVE TypeOK'
  <2>1. pc' \in [Sessions -> Places]
    BY <1>9 DEF TypeOK, Destroy, Goto, Places
  <2>2. QED BY <1>9, <2>1 DEF TypeOK, Destroy, world, locals
<1>10. ASSUME NEW p \in Procs, NEW q \in Procs, Fork(p, q) PROVE TypeOK'
  <2>1. Start(q, owner[p], p \in procs) /\ owner[p] \in Sessions \cup {None}
    BY <1>10 DEF Fork, TypeOK
  <2>2. /\ procs' \subseteq live' /\ live' \subseteq started'
        /\ started' \subseteq Procs /\ seen' \subseteq started'
        /\ owner' \in [Procs -> Sessions \cup {None}]
        /\ signal' \in [Procs -> Signals]
    BY <2>1 DEF Start, TypeOK
  <2>3. QED BY <1>10, <2>2 DEF TypeOK, Fork, locals
<1>11. ASSUME NEW p \in Procs, Exit(p) PROVE TypeOK'
  BY <1>11 DEF TypeOK, Exit, locals
<1>12. CASE UNCHANGED vars
  BY <1>12 DEF TypeOK, vars
<1>13. QED
  BY <1>1, <1>2, <1>3, <1>4, <1>5, <1>6, <1>7, <1>8, <1>9, <1>10, <1>11, <1>12
  DEF Next, Builder, Process

-----------------------------------------------------------------------------
(* What a new process q changes: it is in the group exactly if it was      *)
(* started grouped, and everything known about the others stays.           *)
LEMMA StartInv ==
  ASSUME TypeOK, GroupIsComplete, NoGroupNoMembers, ChildIsOwn, UNCHANGED valid,
         NEW q \in Procs, NEW s, NEW grouped, grouped \in BOOLEAN, Start(q, s, grouped),
         grouped => valid
  PROVE  /\ GroupIsComplete' /\ NoGroupNoMembers'
         /\ \A r \in Sessions : child[r] # None =>
              child[r] \in started' /\ owner'[child[r]] = r
         /\ q \in started' /\ owner'[q] = s
         /\ live' \cap seen' = IF grouped THEN (live \cap seen) \cup {q} ELSE live \cap seen
         /\ \A p \in live \cap seen : owner'[p] = owner[p]
  BY DEF TypeOK, GroupIsComplete, NoGroupNoMembers, ChildIsOwn, Start

(* Every step keeps the strengthening.                                     *)
LEMMA InvStep == ASSUME IInv, [Next]_vars PROVE IInv'
<1> USE CGroupAssumption DEF IInv
<1>0. TypeOK'
  BY TypeStep
<1>1. ASSUME NEW s \in Sessions, Create(s) PROVE IInv'
  BY <1>0, <1>1 DEF Create, Goto, world, locals, TypeOK, GroupIsComplete,
     NoGroupNoMembers, ChildIsOwn, SpawnedHasChild, TrackedAreGone, AfterKill
<1>2. ASSUME NEW s \in Sessions, NEW p \in Procs, Popen(s, p) PROVE IInv'
  <2>1. Start(p, s, FALSE) /\ UNCHANGED valid /\ p # None
    BY <1>2 DEF Popen
  <2>2. /\ GroupIsComplete' /\ NoGroupNoMembers'
        /\ \A r \in Sessions : child[r] # None =>
             child[r] \in started' /\ owner'[child[r]] = r
        /\ p \in started' /\ owner'[p] = s
        /\ live' \cap seen' = live \cap seen
        /\ \A q \in live \cap seen : owner'[q] = owner[q]
    BY <2>1, StartInv
  <2>3. ChildIsOwn' /\ SpawnedHasChild'
    BY <1>2, <2>1, <2>2 DEF Popen, Goto, ChildIsOwn, SpawnedHasChild, TypeOK
  <2>4. TrackedAreGone'
    BY <1>2, <2>2 DEF Popen, Goto, TrackedAreGone, AfterKill, TypeOK
  <2>5. QED BY <1>0, <2>2, <2>3, <2>4
<1>3. ASSUME NEW s \in Sessions, AddPid(s) PROVE IInv'
  <2>1. child[s] \in started /\ owner[child[s]] = s /\ pc[s] = "spawned"
    BY <1>3 DEF AddPid, Goto, SpawnedHasChild, ChildIsOwn
  <2>2. GroupIsComplete' /\ NoGroupNoMembers'
    BY <1>3 DEF AddPid, world, GroupIsComplete, NoGroupNoMembers
  <2>3. ChildIsOwn' /\ SpawnedHasChild'
    BY <1>3 DEF AddPid, Goto, world, locals, ChildIsOwn, SpawnedHasChild, TypeOK
  <2>4. TrackedAreGone'
    BY <1>3, <2>1 DEF AddPid, Goto, world, TrackedAreGone, AfterKill, TypeOK
  <2>5. QED BY <1>0, <2>2, <2>3, <2>4
<1>4. ASSUME NEW s \in Sessions, Wait(s) \/ Abandon(s) PROVE IInv'
  BY <1>0, <1>4 DEF Wait, Abandon, Goto, world, TypeOK, GroupIsComplete,
     NoGroupNoMembers, ChildIsOwn, SpawnedHasChild, TrackedAreGone, AfterKill
<1>5. ASSUME NEW s \in Sessions, KillAll(s) PROVE IInv'
  <2>1. GroupIsComplete' /\ NoGroupNoMembers' /\ ChildIsOwn' /\ SpawnedHasChild'
    BY <1>5 DEF KillAll, Goto, world, GroupIsComplete, NoGroupNoMembers,
       ChildIsOwn, SpawnedHasChild, TypeOK
  <2>2. CASE valid
    BY <1>0, <1>5, <2>1, <2>2 DEF KillAll, Goto, world, TrackedAreGone, AfterKill, TypeOK
  <2>3. CASE ~valid
    \* an absent group has no members, and it holds all that is tracked
    <3>1. live \cap seen = {}
      BY <2>3 DEF NoGroupNoMembers, GroupIsComplete
    <3>2. QED BY <1>0, <1>5, <2>1, <3>1 DEF KillAll, world, TrackedAreGone
  <2>4. QED BY <2>2, <2>3
<1>6. ASSUME NEW s \in Sessions, SendSignals(s) PROVE IInv'
  BY <1>0, <1>6 DEF SendSignals, Goto, locals, TypeOK, GroupIsComplete,
     NoGroupNoMembers, ChildIsOwn, SpawnedHasChild, TrackedAreGone, AfterKill
<1>7. ASSUME NEW s \in Sessions, Check(s) PROVE IInv'
  <2>1. GroupIsComplete' /\ NoGroupNoMembers' /\ ChildIsOwn' /\ SpawnedHasChild'
    BY <1>7 DEF Check, Goto, world, GroupIsComplete, NoGroupNoMembers,
       ChildIsOwn, SpawnedHasChild, TypeOK
  <2>2. CASE procs = {}
    BY <1>0, <1>7, <2>1, <2>2 DEF Check, world, TrackedAreGone, GroupIsComplete
  <2>3. CASE procs # {}
    <3>1. pc'[s] \in {"raised", "signal"} /\ \A r \in Sessions \ {s} : pc'[r] = pc[r]
      BY <1>7, <2>3 DEF Check, Goto, TypeOK
    <3>2. UNCHANGED <<live, seen, owner>>
      BY <1>7 DEF Check, world
    <3>3. ASSUME NEW r \in Sessions, pc'[r] \in AfterKill PROVE pc[r] \in AfterKill
      BY <3>1, <3>3 DEF AfterKill
    <3>4. QED BY <1>0, <2>1, <3>2, <3>3 DEF TrackedAreGone
  <2>4. QED BY <2>2, <2>3
<1>8. ASSUME NEW s \in Sessions, Destroy(s) PROVE IInv'
  BY <1>0, <1>8 DEF Destroy, Goto, world, locals, TypeOK, GroupIsComplete,
     NoGroupNoMembers, ChildIsOwn, SpawnedHasChild, TrackedAreGone, AfterKill
<1>9. ASSUME NEW p \in Procs, NEW q \in Procs, Fork(p, q) PROVE IInv'
  <2> DEFINE grouped == p \in procs
  <2>1. /\ Start(q, owner[p], grouped) /\ UNCHANGED <<valid, pc, locals>>
        /\ grouped \in BOOLEAN /\ (grouped => valid) /\ p \in live
    BY <1>9 DEF Fork, NoGroupNoMembers
  <2>2. grouped => p \in live \cap seen
    BY DEF GroupIsComplete
  <2> HIDE DEF grouped
  <2>3. /\ GroupIsComplete' /\ NoGroupNoMembers'
        /\ \A r \in Sessions : child[r] # None =>
             child[r] \in started' /\ owner'[child[r]] = r
        /\ owner'[q] = owner[p]
        /\ live' \cap seen' = IF grouped THEN (live \cap seen) \cup {q} ELSE live \cap seen
        /\ \A r \in live \cap seen : owner'[r] = owner[r]
    BY <2>1, StartInv
  <2>4. ChildIsOwn' /\ SpawnedHasChild'
    BY <2>1, <2>3 DEF locals, ChildIsOwn, SpawnedHasChild
  <2>5. TrackedAreGone'
    \* a process that forks into the group is a tracked one itself
    BY <2>1, <2>2, <2>3 DEF TrackedAreGone
  <2>6. QED BY <1>0, <2>3, <2>4, <2>5
<1>10. ASSUME NEW p \in Procs, Exit(p) PROVE IInv'
  BY <1>0, <1>10 DEF Exit, locals, GroupIsComplete, NoGroupNoMembers,
     ChildIsOwn, SpawnedHasChild, TrackedAreGone, AfterKill
<1>11. CASE UNCHANGED vars
  BY <1>0, <1>11 DEF vars, GroupIsComplete, NoGroupNoMembers, ChildIsOwn,
     SpawnedHasChild, TrackedAreGone, AfterKill
<1>12. QED
  BY <1>1, <1>2, <1>3, <1>4, <1>5, <1>6, <1>7, <1>8, <1>9, <1>10, <1>11
  DEF Next, Builder, Process

(* Every reachable state satisfies the strengthening.                      *)
THEOREM Invariance == Spec => []IInv
<1>1. Init => IInv
  BY InitIInv
<1>2. IInv /\ [Next]_vars => IInv'
  BY InvStep
<1>3. QED BY <1>1, <1>2, PTL DEF Spec

(* The variables of the process side keep their types, for any number of   *)
(* builders and processes.                                                 *)
THEOREM Typing == Spec => []TypeOK
<1>1. IInv => TypeOK
  BY DEF IInv
<1>2. QED BY <1>1, Invariance, PTL

(* Once kill_all has returned, nothing that was ever in the group is left  *)
(* of this builder: what build_rootfs relies on before it unmounts.        *)
THEOREM KillAllIsThorough == Spec => []TrackedAreGone
<1>1. IInv => TrackedAreGone
  BY DEF IInv
<1>2. QED BY <1>1, Invariance, PTL

-----------------------------------------------------------------------------
(* With one builder, what is waited for stays in the group.                *)
LEMMA WaitedStep ==
  ASSUME \A s, t \in Sessions : s = t, IInv, WaitedIsTracked, [Next]_vars
  PROVE  WaitedIsTracked'
<1> USE DEF WaitedIsTracked
<1>1. ASSUME NEW s \in Sessions, Create(s) PROVE WaitedIsTracked'
  \* the group appears while its only builder waits for nothing
  BY <1>1 DEF IInv, TypeOK, Create, Goto, world, locals
<1>2. ASSUME NEW s \in Sessions, NEW p \in Procs, Popen(s, p) PROVE WaitedIsTracked'
  BY <1>2 DEF IInv, TypeOK, Popen, Goto
<1>3. ASSUME NEW s \in Sessions, AddPid(s) PROVE WaitedIsTracked'
  BY <1>3 DEF IInv, TypeOK, AddPid, Goto, world, locals
<1>4. ASSUME NEW s \in Sessions,
             Wait(s) \/ Abandon(s) \/ KillAll(s) \/ Destroy(s)
      PROVE  WaitedIsTracked'
  BY <1>4 DEF IInv, TypeOK, Wait, Abandon, KillAll, Destroy, Goto, world, locals
<1>5. ASSUME NEW s \in Sessions, SendSignals(s) \/ Check(s) PROVE WaitedIsTracked'
  BY <1>5 DEF IInv, TypeOK, SendSignals, Check, Goto, world, locals
<1>6. ASSUME NEW p \in Procs, NEW q \in Procs, Fork(p, q) PROVE WaitedIsTracked'
  \* the new process is nobody's child yet
  BY <1>6, CGroupAssumption DEF IInv, ChildIsOwn, TypeOK, Fork, Start, locals
<1>7. ASSUME NEW p \in Procs, Exit(p) PROVE WaitedIsTracked'
  BY <1>7 DEF Exit, locals
<1>8. CASE UNCHANGED vars
  BY <1>8 DEF vars
<1>9. QED
  BY <1>1, <1>2, <1>3, <1>4, <1>5, <1>6, <1>7, <1>8 DEF Next, Builder, Process

(* A command that is waited for is in the group if there is one, when the  *)
(* builder is alone on its host: what the command forks is tracked, too.   *)
(* Two builders share the group, and one may create it while the other     *)
(* already waits.                                                          *)
THEOREM WaitIsTracked ==
  ASSUME \A s, t \in Sessions : s = t
  PROVE  Spec => []WaitedIsTracked
<1>1. Init => WaitedIsTracked
  BY DEF Init, WaitedIsTracked
<1>2. IInv /\ WaitedIsTracked /\ [Next]_vars => WaitedIsTracked'
  BY WaitedStep
<1>3. QED BY <1>1, <1>2, Invariance, PTL DEF Spec
=============================================================================
