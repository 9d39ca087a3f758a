--------------------------- MODULE BootstrapProofs ---------------------------
(***************************************************************************)
(* The build as a whole: both finally clauses undo mounts when no tracked  *)
(* process holds one, and a build keeps the promise of BuildRun.  The      *)
(* invariants of the process side and of the mount side are lifted from    *)
(* CGroupProofs and MountStackProofs; what is new relates the phases to    *)
(* both sides.                                                             *)
(***************************************************************************)
EXTENDS Bootstrap, SequenceTheorems, TLAPS

CP == INSTANCE CGroupProofs WITH Sessions <- {builder}, KillTime <- 8, Timeout <- 10
MP == INSTANCE MountStackProofs WITH Holders <- Procs

(* A step of the process side keeps its invariant.                         *)
LEMMA ProcessStep ==
  ASSUME CP!IInv, CG!Next \/ UNCHANGED process
  PROVE  CP!IInv'
<1>1. CP!Next \/ UNCHANGED CP!vars
  BY DEF process, CP!vars, CP!world, CP!locals, CG!world, CG!locals,
     CG!Next, CG!Builder, CG!Process, CG!Goto, CG!Start, CG!Create, CG!Popen, CG!AddPid,
     CG!Wait, CG!Abandon, CG!KillAll, CG!SendSignals, CG!Check, CG!Destroy, CG!Fork, CG!Exit,
     CP!Next, CP!Builder, CP!Process, CP!Goto, CP!Start, CP!Create, CP!Popen, CP!AddPid,
     CP!Wait, CP!Abandon, CP!KillAll, CP!SendSignals, CP!Check, CP!Destroy, CP!Fork, CP!Exit
<1>2. QED BY <1>1, CP!InvStep, BootstrapAssumption

(* A step of the mount side keeps its invariant.                           *)
LEMMA MountStep ==
  ASSUME MP!IInv, MS!Next \/ UNCHANGED mounting
  PROVE  MP!IInv'
<1>1. MP!Next \/ UNCHANGED MP!vars
  BY DEF mounting, MP!vars, MP!context, MP!calls, MS!context, MS!calls,
     MS!Next, MS!Loop, MS!InitMount, MS!MountAll, MS!UndoMounts, MS!EnterUndo, MS!StartLoop,
     MS!Return, MS!Dirty, MS!Inserted, MS!MountNext, MS!MountDone, MS!MountFail, MS!Unmountable,
     MS!UmountNext, MS!UndoPass, MS!Use, MS!Release, MS!Restart,
     MP!Next, MP!Loop, MP!InitMount, MP!MountAll, MP!UndoMounts, MP!EnterUndo, MP!StartLoop,
     MP!Return, MP!Dirty, MP!Inserted, MP!MountNext, MP!MountDone, MP!MountFail, MP!Unmountable,
     MP!UmountNext, MP!UndoPass, MP!Use, MP!Release, MP!Restart,
     MS!RemoveFirst, MS!RemoveAt, MS!SelectInSeq, MS!Min, MP!RemoveFirst, MP!RemoveAt, MP!SelectInSeq, MP!Min
<1>2. QED BY <1>1, MP!InvStep, BootstrapAssumption DEF MP!Entry, MP!Runs, MP!Mount, MP!ParentsFirst

-----------------------------------------------------------------------------
(* Every process was started by this builder's commands.                   *)
OwnersKnown == \A p \in started : owner[p] = builder

(* Only a process that lives has files open.                               *)
HoldersLive == \A t \in Targets : holders[t] \subseteq live

(* Where kill_all and the group are while mounts are undone, and after.    *)
PhasePlaces ==
  /\ phase = "undo" => pc[builder] = "killed"
  /\ phase = "cleanup-destroyed" /\ pc[builder] # "failed" =>
       pc[builder] = "destroyed" /\ ~valid
  /\ phase = "cleanup-undo" => pc[builder] = "destroyed" /\ ~valid
  /\ phase = "list" => ~valid

(* Where the mount side is in the phases of the second try block.          *)
PhaseMounts ==
  /\ phase \notin {"init", "undo", "mount-all", "cleanup-undo"} /\ outcome = "running" => mpc = "idle"
  /\ phase = "mount-all" =>
       /\ call = "all" /\ mpc # "undo"
       /\ mpc = "mount" => todo # <<>> \/ mounted # <<>>
       /\ mpc = "idle" /\ result = "ok" => mounted # <<>>
  /\ phase \in {"copy", "cleanup", "cleanup-killing", "cleanup-destroyed"} /\ ~exc => mounted # <<>>
  /\ phase = "cleanup-undo" =>
       /\ mpc # "mount"
       /\ ~exc /\ mpc = "idle" /\ result = "ok" => ~MS!Dirty
  /\ phase = "list" => ~MS!Dirty

(* Devices were bound by this run or an earlier one.                       *)
BoundByRuns == \A b \in bound : b[2] \in Nat /\ b[2] =< run

DetachedAtEnd == phase = "list" => \A b \in bound : b[2] # run

ProcessInv == CP!IInv /\ OwnersKnown
MountInv == MP!IInv /\ HoldersLive /\ BoundByRuns
IInv == ProcessInv /\ MountInv /\ PhasePlaces
PromiseInv == IInv /\ PhaseMounts /\ DetachedAtEnd

(* A step of build_rootfs, of a command or of the world is one of the      *)
(* process side, or none for it; a restart ends the builder's variables.   *)
LEMMA ProcessSteps ==
  ASSUME [Next]_vars, ~Restart
  PROVE  CG!Next \/ UNCHANGED process
<1> USE DEF CG!Next, CG!Builder, CG!Process, Quiet
<1>1. CASE BuildRootfs
  BY <1>1 DEF BuildRootfs, CreateContext, RemoveWorkspace, EnterRootfs, CallInitMount,
     InitMountEnds, BuildDone, CallKillAll, CallUndoMounts, UndoMountsEnds, EnterImage, BindLoop,
     CallMountAll, MountAllEnds, CopyDone, CallDestroy, CleanupUndo, CleanupDetach, Finish,
     CommandSteps, KillAllSteps, MountSteps
<1>2. CASE Raise \/ MountFails
  BY <1>2 DEF Raise, MountFails
<1>3. ASSUME NEW p \in Procs, RunCommand(p) \/ Exit(p) PROVE CG!Next
  BY <1>3 DEF RunCommand, Exit
<1>4. ASSUME NEW p \in Procs, NEW q \in Procs, Fork(p, q) PROVE CG!Next
  BY <1>4 DEF Fork
<1>5. ASSUME NEW p \in Procs, NEW t \in Targets, Use(t, p) PROVE UNCHANGED process
  BY <1>5 DEF Use
<1>6. CASE UNCHANGED vars
  BY <1>6 DEF vars
<1>7. QED BY <1>1, <1>2, <1>3, <1>4, <1>5, <1>6 DEF Next

(* Each step of the build is one step of the mount side, or none for it.   *)
LEMMA MountSideSteps ==
  ASSUME [Next]_vars
  PROVE  MS!Next \/ UNCHANGED mounting
<1> USE DEF MS!Next, Quiet
<1>1. CASE BuildRootfs
  BY <1>1 DEF BuildRootfs, CreateContext, RemoveWorkspace, EnterRootfs, CallInitMount,
     InitMountEnds, BuildDone, CallKillAll, CallUndoMounts, UndoMountsEnds, EnterImage, BindLoop,
     CallMountAll, MountAllEnds, CopyDone, CallDestroy, CleanupUndo, CleanupDetach, Finish,
     CommandSteps, KillAllSteps, MountSteps
<1>2. CASE Raise \/ MountFails
  BY <1>2 DEF Raise, MountFails
<1>3. ASSUME NEW p \in Procs, RunCommand(p) \/ Exit(p) PROVE MS!Next \/ UNCHANGED mounting
  BY <1>3 DEF RunCommand, Exit
<1>4. ASSUME NEW p \in Procs, NEW q \in Procs, Fork(p, q) PROVE UNCHANGED mounting
  BY <1>4 DEF Fork
<1>5. ASSUME NEW p \in Procs, NEW t \in Targets, Use(t, p) PROVE MS!Next
  BY <1>5 DEF Use
<1>6. CASE UNCHANGED vars \/ Restart
  BY <1>6 DEF vars, Restart
<1>7. QED BY <1>1, <1>2, <1>3, <1>4, <1>5, <1>6 DEF Next

(* The process side of the invariant, over restarts too.                   *)
LEMMA ProcessInvStep == ASSUME ProcessInv, [Next]_vars PROVE ProcessInv'
<1>1. /\ started \subseteq Procs /\ live \subseteq started
      /\ owner \in [Procs -> {builder} \cup {None}] /\ pc \in [{builder} -> CP!Places]
      /\ child \in [{builder} -> Procs \cup {None}]
  BY DEF ProcessInv, CP!IInv, CP!TypeOK
<1>2. CASE Restart
  <2>1. /\ pc' = [pc EXCEPT ![builder] = "start"] /\ child' = [child EXCEPT ![builder] = None]
        /\ UNCHANGED <<valid, procs, live, started, owner, seen, signal, pids, remain, sig>>
    BY <1>2 DEF Restart
  <2>2. CP!TypeOK'
    BY <1>1, <2>1 DEF ProcessInv, CP!IInv, CP!TypeOK, CP!Places
  <2>3. CP!IInv'
    BY <1>1, <2>1, <2>2
    DEF ProcessInv, CP!IInv, CP!GroupIsComplete, CP!NoGroupNoMembers, CP!ChildIsOwn,
        CP!SpawnedHasChild, CP!TrackedAreGone, CP!AfterKill
  <2>4. QED BY <2>1, <2>3 DEF ProcessInv, OwnersKnown
<1>3. CASE ~Restart
  <2>1. CG!Next \/ UNCHANGED process
    BY <1>3, ProcessSteps
  <2>2. CP!IInv'
    BY <2>1, ProcessStep DEF ProcessInv
  <2>3. CASE UNCHANGED <<started, owner>>
    BY <2>2, <2>3 DEF ProcessInv, OwnersKnown
  <2>4. ASSUME NEW p \in Procs, CG!Popen(builder, p) PROVE OwnersKnown'
    BY <1>1, <2>4 DEF ProcessInv, OwnersKnown, CG!Popen, CG!Start
  <2>5. ASSUME NEW p \in Procs, NEW q \in Procs, CG!Fork(p, q) PROVE OwnersKnown'
    \* a child belongs to the builder of its parent
    BY <1>1, <2>5 DEF ProcessInv, OwnersKnown, CG!Fork, CG!Start
  <2>6. \/ UNCHANGED <<started, owner>>
        \/ \E p \in Procs : CG!Popen(builder, p)
        \/ \E p, q \in Procs : CG!Fork(p, q)
    BY <2>1 DEF process, CG!Next, CG!Builder, CG!Process, CG!Create, CG!AddPid, CG!Wait, CG!Abandon,
       CG!KillAll, CG!SendSignals, CG!Check, CG!Destroy, CG!Exit, CG!world, CG!locals
  <2>7. QED BY <2>2, <2>3, <2>4, <2>5, <2>6 DEF ProcessInv
<1>4. QED BY <1>2, <1>3

(* The mount side: a process closes its files when it exits.               *)
LEMMA MountInvStep == ASSUME ProcessInv, MountInv, [Next]_vars PROVE MountInv'
<1>1. MP!IInv'
  BY MountSideSteps, MountStep DEF MountInv
<1>2. /\ holders \in [Targets -> SUBSET Procs] /\ run \in Nat
  BY BootstrapAssumption DEF MountInv, MP!IInv, MP!TypeOK, MP!Runs
<1>3. HoldersLive'
  <2>1. ASSUME NEW p \in Procs, Exit(p) PROVE HoldersLive'
    BY <1>2, <2>1 DEF Exit, CG!Exit, MS!Release, MountInv, HoldersLive
  <2>2. ASSUME NEW p \in Procs, NEW t \in Targets, Use(t, p) PROVE HoldersLive'
    BY <1>2, <2>2 DEF Use, MS!Use, process, MountInv, HoldersLive
  <2>3. \/ holders' = holders /\ live \subseteq live'
        \/ \E p \in Procs : Exit(p)
        \/ \E p \in Procs, t \in Targets : Use(t, p)
    <3>1. CASE BuildRootfs \/ Raise \/ MountFails \/ Restart \/ UNCHANGED vars
      BY <3>1 DEF BuildRootfs, CreateContext, RemoveWorkspace, EnterRootfs, CallInitMount,
         InitMountEnds, BuildDone, CallKillAll, CallUndoMounts, UndoMountsEnds, EnterImage, BindLoop,
         CallMountAll, MountAllEnds, CopyDone, CallDestroy, CleanupUndo, CleanupDetach, Finish,
         CommandSteps, KillAllSteps, MountSteps, Raise, MountFails, Restart, vars, Quiet, process,
         mounting, CG!Create, CG!AddPid, CG!Wait, CG!Abandon, CG!KillAll, CG!SendSignals, CG!Check,
         CG!Destroy, CG!world, CG!locals, MS!InitMount, MS!MountAll, MS!UndoMounts, MS!Loop,
         MS!MountNext, MS!MountDone, MS!MountFail, MS!UmountNext, MS!UndoPass, MS!Restart
    <3>2. ASSUME NEW p \in Procs, RunCommand(p) PROVE holders' = holders /\ live \subseteq live'
      BY <3>2 DEF RunCommand, mounting, CG!Popen, CG!Start
    <3>3. ASSUME NEW p \in Procs, NEW q \in Procs, Fork(p, q)
          PROVE  holders' = holders /\ live \subseteq live'
      BY <3>3 DEF Fork, mounting, CG!Fork, CG!Start
    <3>4. QED BY <3>1, <3>2, <3>3 DEF Next
  <2>4. QED BY <2>1, <2>2, <2>3 DEF MountInv, HoldersLive
<1>4. BoundByRuns'
  <2>1. \/ bound' \subseteq bound /\ run' \in {run, run + 1}
        \/ bound' \subseteq bound \cup {<<d, run>> : d \in LoopDevs} /\ run' = run
    <3>1. CASE Restart
      BY <3>1 DEF Restart, MS!Restart
    <3>2. CASE \E d \in LoopDevs : BindLoop(d)
      BY <3>2 DEF BindLoop, Quiet, mounting
    <3>3. CASE ~Restart /\ ~\E d \in LoopDevs : BindLoop(d)
      <4>1. bound' \subseteq bound
        BY <3>3 DEF Next, BuildRootfs, CreateContext, RemoveWorkspace, EnterRootfs, CallInitMount,
         InitMountEnds, BuildDone, CallKillAll, CallUndoMounts, UndoMountsEnds, EnterImage,
         CallMountAll, MountAllEnds, CopyDone, CallDestroy, CleanupUndo, CleanupDetach, Finish,
         CommandSteps, KillAllSteps, MountSteps, Raise, MountFails, RunCommand, Exit, Fork, Use,
         vars, own
      <4>2. run' = run
        BY <3>3 DEF Next, BuildRootfs, CreateContext, RemoveWorkspace, EnterRootfs, CallInitMount,
         InitMountEnds, BuildDone, CallKillAll, CallUndoMounts, UndoMountsEnds, EnterImage,
         CallMountAll, MountAllEnds, CopyDone, CallDestroy, CleanupUndo, CleanupDetach, Finish,
         CommandSteps, KillAllSteps, MountSteps, Raise, MountFails, RunCommand, Exit, Fork, Use,
         vars, mounting, Quiet, MS!InitMount, MS!MountAll, MS!UndoMounts, MS!Loop,
         MS!MountNext, MS!MountDone, MS!MountFail, MS!UmountNext, MS!UndoPass, MS!Release, MS!Use
      <4>3. QED BY <4>1, <4>2
    <3>4. QED BY <3>1, <3>2, <3>3
  <2>2. QED BY <1>2, <2>1 DEF MountInv, BoundByRuns
<1>5. QED BY <1>1, <1>3, <1>4 DEF MountInv

(* The steps of build_rootfs by what they do to the phase.                 *)
Entering ==   \* the way into the phases that the invariant is about
  CallUndoMounts \/ CallMountAll \/ MountAllEnds \/ CopyDone \/ CallDestroy \/ CleanupUndo
    \/ CleanupDetach

Passing ==    \* a new phase before that, or the end
  \/ CreateContext \/ RemoveWorkspace \/ EnterRootfs \/ CallInitMount \/ InitMountEnds
  \/ BuildDone \/ UndoMountsEnds \/ EnterImage \/ Finish

Staying ==    \* the phase stays
  \/ \E d \in LoopDevs : BindLoop(d)
  \/ CommandSteps \/ KillAllSteps \/ MountSteps \/ MountFails
  \/ \E p \in Procs : RunCommand(p) \/ Exit(p)
  \/ \E p, q \in Procs : Fork(p, q)
  \/ \E p \in Procs, t \in Targets : Use(t, p)
  \/ UNCHANGED vars

(* Every step is of one of six kinds, for the case splits below.           *)
LEMMA Kinds ==
  ASSUME [Next]_vars
  PROVE  Entering \/ Passing \/ Staying \/ CallKillAll \/ Raise \/ Restart
  BY DEF Next, BuildRootfs, Entering, Passing, Staying

(* The phases agree with the process side.                                 *)
LEMMA PlacesStep == ASSUME IInv, [Next]_vars PROVE PhasePlaces'
<1> USE DEF PhasePlaces, Step
<1>0. PhasePlaces /\ pc \in [{builder} -> CP!Places]
  BY DEF IInv, ProcessInv, CP!IInv, CP!TypeOK
<1>1. CASE Entering
  <2>1. CASE CallDestroy
    <3>1. phase' = "cleanup-destroyed" /\ valid' = (valid /\ procs # {})
          /\ pc'[builder] = IF valid /\ procs # {} THEN "failed" ELSE "destroyed"
      BY <1>0, <2>1 DEF CallDestroy, CG!Destroy, CG!Goto
    <3>2. QED BY <3>1
  <2>2. CASE CallUndoMounts
    BY <2>2 DEF CallUndoMounts, process
  <2>3. CASE CallMountAll \/ MountAllEnds \/ CopyDone
    BY <2>3 DEF CallMountAll, MountAllEnds, CopyDone
  <2>4. CASE CleanupUndo \/ CleanupDetach
    BY <1>0, <2>4 DEF CleanupUndo, CleanupDetach, process, Quiet
  <2>5. QED BY <1>1, <2>1, <2>2, <2>3, <2>4 DEF Entering
<1>2. CASE Passing
  BY <1>2 DEF Passing, CreateContext, RemoveWorkspace, EnterRootfs, CallInitMount,
     InitMountEnds, BuildDone, UndoMountsEnds, EnterImage, Finish
<1>3. CASE Staying
  <2>1. phase' = phase
    BY <1>3 DEF Staying, BindLoop, CommandSteps, KillAllSteps, MountSteps, MountFails, RunCommand,
       Exit, Fork, Use, vars, own
  <2>2. \/ valid' = valid /\ pc' = pc
        \/ valid' = valid /\ pc[builder] \in {"spawned", "wait", "signal", "check"}
        \/ valid' = valid /\ phase \in Working
    BY <1>3 DEF Staying, BindLoop, CommandSteps, KillAllSteps, MountSteps, MountFails, RunCommand,
       Exit, Fork, Use, vars, Quiet, process, CG!AddPid, CG!Wait, CG!SendSignals, CG!Check,
       CG!Popen, CG!Exit, CG!Fork, CG!Goto
  <2>3. CASE valid' = valid /\ pc' = pc
    BY <1>0, <2>1, <2>3
  <2>4. CASE valid' = valid /\ pc[builder] \in {"spawned", "wait", "signal", "check"}
    \* neither a command nor kill_all is on its way while mounts are undone; a failed
    \* rmdir leaves the phase "cleanup-destroyed" for good
    BY <1>0, <2>1, <2>4
  <2>5. CASE valid' = valid /\ phase \in Working
    BY <1>0, <2>1, <2>5 DEF Working
  <2>6. QED BY <2>2, <2>3, <2>4, <2>5
<1>4. CASE CallKillAll
  BY <1>4 DEF CallKillAll
<1>5. CASE Raise
  BY <1>5 DEF Raise
<1>6. CASE Restart
  BY <1>6 DEF Restart
<1>7. QED BY <1>1, <1>2, <1>3, <1>4, <1>5, <1>6, Kinds

(* Every step keeps the invariants of both sides.                          *)
LEMMA InvStep == ASSUME IInv, [Next]_vars PROVE IInv'
  BY ProcessInvStep, MountInvStep, PlacesStep DEF IInv

(* The first run starts in a workspace that satisfies them.                *)
LEMMA InitIInv == Init => IInv
<1> SUFFICES ASSUME Init PROVE IInv
  OBVIOUS
<1>1. CP!IInv
  <2>1. CP!Init
    BY DEF Init, CG!Init, CP!Init
  <2>2. QED BY <2>1, CP!InitIInv, BootstrapAssumption
<1>2. MP!IInv
  <2>1. MP!Init
    BY DEF Init, MS!Init, MP!Init
  <2>2. QED
    BY <2>1, MP!InitIInv, BootstrapAssumption DEF MP!Entry, MP!Runs, MP!Mount, MP!ParentsFirst
<1>3. OwnersKnown /\ HoldersLive /\ BoundByRuns
  BY DEF Init, CG!Init, MS!Init, OwnersKnown, HoldersLive, BoundByRuns
<1>4. PhasePlaces
  BY DEF Init, PhasePlaces
<1>5. QED BY <1>1, <1>2, <1>3, <1>4 DEF IInv, ProcessInv, MountInv

(* Every reachable state satisfies the invariants of both sides.           *)
THEOREM Invariance == Spec => []IInv
<1>1. Init => IInv
  BY InitIInv
<1>2. IInv /\ [Next]_vars => IInv'
  BY InvStep
<1>3. QED BY <1>1, <1>2, PTL DEF Spec

(* While either finally clause undoes mounts, no process that was ever in  *)
(* the group holds one: kill_all comes first, and it is thorough.          *)
THEOREM UndoIsUndisturbed == Spec => []UndoneWithoutProcesses
<1>1. ASSUME IInv PROVE UndoneWithoutProcesses
  <2>1. SUFFICES ASSUME phase \in {"undo", "cleanup-undo"}, NEW t \in Targets,
                        NEW p \in holders[t], p \in seen
                 PROVE  FALSE
    BY DEF UndoneWithoutProcesses
  <2>2. p \in live /\ live \subseteq started
    BY <1>1, <2>1 DEF IInv, MountInv, HoldersLive, ProcessInv, CP!IInv, CP!TypeOK
  <2>3. owner[p] = builder
    BY <1>1, <2>2 DEF IInv, ProcessInv, OwnersKnown
  <2>4. pc[builder] \in CP!AfterKill
    BY <1>1, <2>1 DEF IInv, PhasePlaces, CP!AfterKill
  <2>5. QED BY <1>1, <2>1, <2>2, <2>3, <2>4 DEF IInv, ProcessInv, CP!IInv, CP!TrackedAreGone
<1>2. QED BY <1>1, Invariance, PTL

-----------------------------------------------------------------------------
(* The phases agree with the mount side.                                   *)
LEMMA MountsStep ==
  ASSUME MTab # <<>>, IInv, PhaseMounts, [Next]_vars
  PROVE  PhaseMounts'
<1> USE DEF PhaseMounts, Step
<1>0. /\ mounted \in Seq(Targets) /\ mpc \in {"idle", "mount", "undo"}
      /\ todo \in Seq(MP!Entry)
  BY DEF IInv, MountInv, MP!IInv, MP!TypeOK
<1>1. CASE Entering
  <2>1. CASE CallUndoMounts
    BY <2>1 DEF CallUndoMounts
  <2>2. CASE CallMountAll
    BY <2>2 DEF CallMountAll, MS!MountAll, MS!StartLoop
  <2>3. CASE MountAllEnds
    BY <2>3 DEF MountAllEnds, Idle, Quiet, mounting
  <2>4. CASE CopyDone
    BY <2>4 DEF CopyDone, Idle, Quiet, mounting
  <2>5. CASE CallDestroy
    BY <2>5 DEF CallDestroy, Idle, mounting
  <2>6. CASE CleanupUndo
    \* something is mounted, so that undo_mounts starts its loop
    BY <2>6 DEF CleanupUndo, MS!UndoMounts, MS!EnterUndo, MS!Return
  <2>7. CASE CleanupDetach
    BY <2>7 DEF CleanupDetach, Quiet, mounting, MS!Dirty
  <2>8. QED BY <1>1, <2>1, <2>2, <2>3, <2>4, <2>5, <2>6, <2>7 DEF Entering
<1>2. CASE Passing
  <2>1. CASE CreateContext \/ RemoveWorkspace \/ EnterRootfs
    BY <2>1 DEF CreateContext, RemoveWorkspace, EnterRootfs, Idle, Quiet, mounting
  <2>2. CASE CallInitMount \/ InitMountEnds \/ BuildDone \/ UndoMountsEnds
    BY <2>2 DEF CallInitMount, InitMountEnds, BuildDone, UndoMountsEnds, Idle, Quiet, mounting
  <2>3. CASE EnterImage \/ Finish
    BY <2>3 DEF EnterImage, Finish, Idle, Quiet, mounting
  <2>4. QED BY <1>2, <2>1, <2>2, <2>3 DEF Passing
<1>3. CASE Staying
  <2>1. phase' = phase /\ exc' = exc /\ outcome' = outcome
    BY <1>3 DEF Staying, BindLoop, CommandSteps, KillAllSteps, MountSteps, MountFails, RunCommand,
       Exit, Fork, Use, vars, own
  <2>2. CASE UNCHANGED <<kmnt, mounted, mpc, call, result, todo>>
    BY <2>1, <2>2 DEF MS!Dirty
  <2>3. CASE MountFails
    BY <2>1, <2>3 DEF MountFails, MS!MountFail, MS!EnterUndo, MS!Return
  <2>4. CASE MountSteps /\ MS!MountNext
    <3>1. mounted' # <<>> /\ UNCHANGED <<mpc, call, result>> /\ mpc = "mount"
      <4>1. todo # <<>> /\ mounted' = <<Head(todo).target>> \o mounted /\ mpc = "mount"
            /\ UNCHANGED <<mpc, call, result>>
        BY <2>4 DEF MS!MountNext, MS!Inserted
      <4>2. Head(todo).target \in Targets
        <5>1. Head(todo) \in MP!Entry
          BY <1>0, <4>1
        <5>2. QED BY <5>1 DEF MP!Entry
      <4>3. QED BY <1>0, <4>1, <4>2
    <3>2. outcome = "running"
      BY <2>4 DEF MountSteps
    <3>3. QED BY <2>1, <3>1, <3>2
  <2>5. CASE MountSteps /\ MS!MountDone
    BY <2>1, <2>5 DEF MountSteps, MS!MountDone, MS!Return
  <2>6. CASE MountSteps /\ MS!UmountNext
    BY <2>1, <2>6 DEF MountSteps, MS!UmountNext
  <2>7. CASE MountSteps /\ MS!UndoPass
    \* its last pass looks for mounts once more
    BY <2>1, <2>7 DEF MountSteps, MS!UndoPass, MS!Return, MS!Dirty, MS!context
  <2>8. \/ UNCHANGED <<kmnt, mounted, mpc, call, result, todo>>
        \/ MountFails \/ MountSteps
    BY <1>3 DEF Staying, BindLoop, CommandSteps, KillAllSteps, RunCommand, Exit, Fork, Use, vars,
       Quiet, mounting, MS!Release, MS!Use, MS!context, MS!calls
  <2>9. QED BY <2>2, <2>3, <2>4, <2>5, <2>6, <2>7, <2>8 DEF MountSteps, MS!Loop
<1>4. CASE CallKillAll
  BY <1>4 DEF CallKillAll, Idle, mounting
<1>5. CASE Raise
  BY <1>5 DEF Raise, mounting
<1>6. CASE Restart
  BY <1>6 DEF Restart, MS!Restart, MS!Return
<1>7. QED BY <1>1, <1>2, <1>3, <1>4, <1>5, <1>6, Kinds

(* The loop devices of a run that succeeds are given back.                 *)
LEMMA DetachStep == ASSUME IInv, DetachedAtEnd, [Next]_vars PROVE DetachedAtEnd'
<1> USE DEF DetachedAtEnd, Step
<1>1. CASE Entering
  <2>1. CASE CleanupDetach
    BY <2>1 DEF CleanupDetach, Quiet, mounting
  <2>2. CASE ~CleanupDetach
    BY <1>1, <2>2 DEF Entering, CallUndoMounts, CallMountAll, MountAllEnds, CopyDone, CallDestroy,
       CleanupUndo
  <2>3. QED BY <2>1, <2>2
<1>2. CASE Passing
  BY <1>2 DEF Passing, CreateContext, RemoveWorkspace, EnterRootfs, CallInitMount,
     InitMountEnds, BuildDone, UndoMountsEnds, EnterImage, Finish
<1>3. CASE Staying
  <2>1. phase' = phase /\ (bound' = bound \/ phase = "image") /\ run' = run
    BY <1>3 DEF Staying, BindLoop, CommandSteps, KillAllSteps, MountSteps, MountFails, RunCommand,
       Exit, Fork, Use, vars, own, Quiet, mounting, MS!Loop, MS!MountNext, MS!MountDone,
       MS!UmountNext, MS!UndoPass, MS!MountFail, MS!Release, MS!Use
  <2>2. QED BY <2>1
<1>4. CASE CallKillAll \/ Raise \/ Restart
  BY <1>4 DEF CallKillAll, Raise, Restart
<1>5. QED BY <1>1, <1>2, <1>3, <1>4, Kinds

Resources == {"mounts", "own loops", "processes", "group"}

(* What a step has to leave alone for the build to take nothing new.       *)
LEMMA NothingTaken ==
  ASSUME kmnt' = kmnt, procs' # {} => procs # {}, valid' => valid,
         (\E b \in bound' : b[2] = run') => \E b \in bound : b[2] = run
  PROVE  held' \in SUBSET held
<1>1. MS!Dirty' => MS!Dirty
  BY DEF MS!Dirty
<1>2. QED BY <1>1 DEF held

(* Each step of the build is one of BuildRun, or changes nothing of it.    *)
LEMMA RefinementStep ==
  ASSUME PromiseInv, [Next]_vars
  PROVE  [BR!Next]_(BR!rvars)
<1> USE DEF Step
<1>1. held' \in SUBSET Resources
  BY DEF held, Resources
<1>2. CASE Finish
  <2>1. phase = "list" /\ outcome = "running" /\ outcome' = "ok" /\ Quiet /\ bound' = bound
    BY <1>2 DEF Finish
  <2>2. /\ ~MS!Dirty /\ \A b \in bound : b[2] # run
        /\ ~valid /\ procs = {}
    BY <2>1 DEF PromiseInv, PhaseMounts, DetachedAtEnd, IInv, PhasePlaces, ProcessInv, CP!IInv,
       CP!NoGroupNoMembers
  <2>3. held = {}
    BY <2>2 DEF held
  <2>4. held' = held
    <3>1. /\ valid' = valid /\ procs' = procs /\ kmnt' = kmnt /\ run' = run
      BY <2>1 DEF Quiet, process, mounting
    <3>2. held' \in SUBSET held
      BY <2>1, <3>1, NothingTaken
    <3>3. QED BY <2>3, <3>2
  <2>5. BR!Succeed
    BY <2>1, <2>3, <2>4 DEF BR!Succeed
  <2>6. QED BY <2>5 DEF BR!Next
<1>3. CASE Restart
  <2>1. /\ outcome' = "running" /\ kmnt' = kmnt /\ procs' = procs /\ valid' = valid
        /\ bound' = bound /\ run' = run + 1
    BY <1>3 DEF Restart, MS!Restart
  <2>2. run \in Nat /\ \A b \in bound : b[2] \in Nat /\ b[2] =< run
    BY BootstrapAssumption
    DEF PromiseInv, IInv, MountInv, BoundByRuns, MP!IInv, MP!TypeOK, MP!Runs
  <2>3. \A b \in bound' : b[2] # run'
    BY <2>1, <2>2
  <2>4. held' \in SUBSET held
    BY <2>1, <2>3, NothingTaken
  <2>5. QED BY <2>1, <2>4 DEF BR!Next, BR!Rerun
<1>4. CASE outcome = "running" /\ outcome' = "running"
  <2>1. held' \in SUBSET Resources /\ UNCHANGED outcome
    BY <1>1, <1>4
  <2>2. QED BY <1>4, <2>1 DEF BR!Next, BR!Change, Resources
<1>5. CASE outcome = "running" /\ outcome' # "running" /\ ~Finish
  <2>1. RemoveWorkspace \/ UndoMountsEnds \/ CleanupUndo \/ CleanupDetach \/ Raise
    BY <1>5 DEF Next, BuildRootfs, CreateContext, EnterRootfs, CallInitMount,
       InitMountEnds, BuildDone, CallKillAll, CallUndoMounts, EnterImage, BindLoop,
       CallMountAll, MountAllEnds, CopyDone, CallDestroy, CommandSteps, KillAllSteps, MountSteps,
       MountFails, RunCommand, Exit, Fork, Use, Restart, vars, own
  <2>2. outcome' = "failed" /\ kmnt' = kmnt /\ run' = run /\ bound' \subseteq bound
    BY <1>5, <2>1 DEF RemoveWorkspace, UndoMountsEnds, CleanupUndo, CleanupDetach, Raise, Quiet,
       mounting
  <2>3. procs' = procs /\ valid' = valid
    BY <2>1 DEF RemoveWorkspace, UndoMountsEnds, CleanupUndo, CleanupDetach, Raise, Quiet,
       process, CG!Abandon
  <2>4. held' \in SUBSET held
    BY <2>2, <2>3, NothingTaken
  <2>5. QED BY <1>5, <2>2, <2>4 DEF BR!Next, BR!Fail
<1>6. CASE outcome # "running" /\ ~Restart
  \* what is left of a build may fork, exit and open files, but it takes nothing new
  <2>1. \/ UNCHANGED vars
        \/ \E p \in Procs : Exit(p)
        \/ \E p, q \in Procs : Fork(p, q)
        \/ \E p \in Procs, t \in Targets : Use(t, p)
    BY <1>6 DEF Next, BuildRootfs, CreateContext, RemoveWorkspace, EnterRootfs, CallInitMount,
       InitMountEnds, BuildDone, CallKillAll, CallUndoMounts, UndoMountsEnds, EnterImage, BindLoop,
       CallMountAll, MountAllEnds, CopyDone, CallDestroy, CleanupUndo, CleanupDetach, Finish,
       CommandSteps, KillAllSteps, MountSteps, MountFails, RunCommand, Raise, Idle
  <2>2. /\ outcome' = outcome /\ kmnt' = kmnt /\ run' = run /\ bound' = bound
        /\ valid' = valid /\ (procs' # {} => procs # {})
    <3>1. ASSUME NEW p \in Procs, NEW q \in Procs, Fork(p, q)
          PROVE  /\ UNCHANGED <<outcome, kmnt, run, bound, valid>>
                 /\ procs' # {} => procs # {}
      BY <3>1 DEF Fork, CG!Fork, CG!Start, mounting, own
    <3>2. CASE UNCHANGED vars \/ \E p \in Procs : Exit(p)
      BY <3>2 DEF vars, process, mounting, own, Exit, CG!Exit, MS!Release
    <3>3. CASE \E p \in Procs, t \in Targets : Use(t, p)
      BY <3>3 DEF Use, MS!Use, process, own
    <3>4. QED BY <2>1, <3>1, <3>2, <3>3
  <2>3. held' \in SUBSET held
    BY <2>2, NothingTaken
  <2>4. QED BY <2>2, <2>3 DEF BR!Next, BR!GoAway
<1>7. QED BY <1>2, <1>3, <1>4, <1>5, <1>6

(* With a file system to copy to, a build that reports success leaves no   *)
(* mount, whoever made it, no process of its group, no group and no loop   *)
(* device that it has bound itself: Bootstrap implements BuildRun.  Devices *)
(* that killed runs have bound stay as they are.  With an empty tab the    *)
(* promise does not hold: undo_mounts does not look for mounts when it has *)
(* made none.                                                              *)
THEOREM PromiseIsKept ==
  ASSUME MTab # <<>>
  PROVE  Spec => KeepsPromise
<1>1. Init => PromiseInv
  <2>1. ASSUME Init PROVE PhaseMounts /\ DetachedAtEnd
    BY <2>1 DEF Init, MS!Init, PhaseMounts, DetachedAtEnd
  <2>2. QED BY <2>1, InitIInv DEF PromiseInv
<1>2. PromiseInv /\ [Next]_vars => PromiseInv'
  BY InvStep, MountsStep, DetachStep DEF PromiseInv
<1>3. Init => BR!Init
  BY DEF Init, BR!Init, held
<1>4. PromiseInv /\ [Next]_vars => [BR!Next]_(BR!rvars)
  BY RefinementStep
<1>5. QED BY <1>1, <1>2, <1>3, <1>4, PTL DEF Spec, KeepsPromise, BR!Spec

-----------------------------------------------------------------------------
(* What is still to be mounted from a loop device is on a device this run  *)
(* has bound; an undo_mounts that cleanup takes for successful has left    *)
(* nothing in ctx.mounted.                                                 *)
MountsAreBound ==
  /\ mpc = "mount" =>
       \A i \in 1 .. Len(todo) : todo[i].dev \in LoopDevs => <<todo[i].dev, run>> \in bound
  /\ phase = "cleanup-undo" =>
       mpc \in {"idle", "undo"} /\ (mpc = "idle" /\ result = "ok" => mounted = <<>>)

DetachInv == IInv /\ MountsAreBound /\ DetachedUnmounted

(* A step that mounts nothing and detaches nothing keeps all of that.      *)
LEMMA DetachKept ==
  ASSUME DetachInv, \A t \in Targets : kmnt'[t] \in {kmnt[t], NoMount}, bound \subseteq bound'
  PROVE  DetachedUnmounted'
BY DEF DetachInv, DetachedUnmounted

(* What the mount loops do to it.                                          *)
LEMMA LoopDetachStep ==
  ASSUME DetachInv, MountSteps \/ MountFails
  PROVE  MountsAreBound' /\ DetachedUnmounted'
<1>0. /\ kmnt \in [Targets -> MP!Mount \cup {NoMount}] /\ todo \in Seq(MP!Entry) /\ run \in MP!Runs
      /\ NoMount \notin MP!Mount
  BY BootstrapAssumption DEF DetachInv, IInv, MountInv, MP!IInv, MP!TypeOK, MP!Mount, MP!Runs
<1>1. /\ phase' = phase /\ bound' = bound
  BY DEF MountSteps, MountFails, own
<1>2. CASE MS!MountNext
  <2>1. /\ mpc = "mount" /\ mpc' = "mount" /\ todo # <<>> /\ todo' = Tail(todo) /\ run' = run
        /\ kmnt' \in {kmnt, [kmnt EXCEPT ![Head(todo).target] = [dev |-> Head(todo).dev, run |-> run]]}
    BY <1>2 DEF MS!MountNext
  <2>2. Head(todo) = todo[1] /\ 1 \in 1 .. Len(todo) /\ Head(todo) \in MP!Entry
        /\ \A i \in 1 .. Len(todo') : todo'[i] = todo[i + 1] /\ i + 1 \in 1 .. Len(todo)
    BY <1>0, <2>1
  <2>3. Head(todo).dev \in LoopDevs => <<Head(todo).dev, run>> \in bound
    BY <2>1, <2>2 DEF DetachInv, MountsAreBound
  <2>4. ASSUME kmnt' = kmnt PROVE DetachedUnmounted'
    BY <1>1, <2>4, DetachKept
  <2>5. ASSUME kmnt' = [kmnt EXCEPT ![Head(todo).target] = [dev |-> Head(todo).dev, run |-> run]]
        PROVE  DetachedUnmounted'
    <3>1. ASSUME NEW t \in Targets, kmnt'[t] # NoMount, kmnt'[t].dev \in LoopDevs
          PROVE  <<kmnt'[t].dev, kmnt'[t].run>> \in bound'
      <4>1. CASE t = Head(todo).target
        <5>1. kmnt'[t] = [dev |-> Head(todo).dev, run |-> run]
          BY <1>0, <2>5, <4>1
        <5>2. QED BY <1>1, <2>3, <3>1, <5>1
      <4>2. CASE t # Head(todo).target
        <5>1. kmnt'[t] = kmnt[t]
          BY <1>0, <2>5, <4>2
        <5>2. QED BY <1>1, <3>1, <5>1 DEF DetachInv, DetachedUnmounted
      <4>3. QED BY <4>1, <4>2
    <3>2. QED BY <3>1 DEF DetachedUnmounted
  <2>6. DetachedUnmounted'
    BY <2>1, <2>4, <2>5
  <2>7. QED BY <1>1, <2>1, <2>2, <2>6 DEF DetachInv, MountsAreBound
<1>3. CASE MS!MountDone \/ MS!MountFail
  <2>1. mpc = "mount" /\ mpc' # "mount" /\ kmnt' = kmnt
    BY <1>3 DEF MS!MountDone, MS!MountFail, MS!Return, MS!EnterUndo
  <2>2. QED BY <1>1, <2>1, DetachKept DEF DetachInv, MountsAreBound
<1>4. CASE MS!UmountNext
  <2>1. mpc = "undo" /\ mpc' = "undo" /\ \A t \in Targets : kmnt'[t] \in {kmnt[t], NoMount}
    BY <1>0, <1>4 DEF MS!UmountNext
  <2>2. QED BY <1>1, <2>1, DetachKept DEF MountsAreBound
<1>5. CASE MS!UndoPass
  <2>1. /\ mpc' \in {"idle", "undo"} /\ kmnt' = kmnt /\ mounted' = mounted
        /\ mpc' = "idle" /\ result' = "ok" => mounted = <<>>
    BY <1>5 DEF MS!UndoPass, MS!Return, MS!context
  <2>2. QED BY <1>1, <2>1, DetachKept DEF MountsAreBound
<1>6. QED BY <1>2, <1>3, <1>4, <1>5 DEF MountSteps, MountFails, MS!Loop

(* Every other step.                                                       *)
LEMMA DetachInvStep ==
  ASSUME \A k \in 1 .. Len(ChrootTab) : ChrootTab[k].dev \notin LoopDevs,
         DetachInv, [Next]_vars
  PROVE  DetachInv'
<1> USE DEF Step
<1>0. IInv'
  BY InvStep DEF DetachInv
<1>1. CASE MountSteps \/ MountFails
  BY <1>0, <1>1, LoopDetachStep DEF DetachInv
<1>2. ASSUME UNCHANGED <<kmnt, run, mounted, mpc, result, todo>>, bound \subseteq bound',
             phase' = "cleanup-undo" => phase = "cleanup-undo"
      PROVE  DetachInv'
  BY <1>0, <1>2, DetachKept DEF DetachInv, MountsAreBound
<1>3. CASE Passing /\ ~CallInitMount
  BY <1>2, <1>3 DEF Passing, CreateContext, RemoveWorkspace, EnterRootfs, InitMountEnds,
     BuildDone, UndoMountsEnds, EnterImage, Finish, Quiet, mounting
<1>4. CASE Staying /\ ~(MountSteps \/ MountFails)
  BY <1>2, <1>4 DEF Staying, BindLoop, CommandSteps, KillAllSteps, RunCommand,
     Exit, Fork, Use, vars, own, Quiet, mounting, MS!Release, MS!Use, MS!context, MS!calls
<1>5. CASE MountAllEnds \/ CopyDone \/ CallDestroy \/ CallKillAll \/ Raise
  BY <1>2, <1>5 DEF MountAllEnds, CopyDone, CallDestroy, CallKillAll, Raise, Quiet, mounting
<1>6. CASE CallInitMount
  <2>1. /\ phase' = "init" /\ UNCHANGED <<kmnt, bound>>
        /\ mpc' = "mount" => todo' = ChrootTab
    BY <1>6 DEF CallInitMount, MS!InitMount, MS!StartLoop, MS!Return
  <2>2. QED BY <1>0, <2>1, DetachKept DEF DetachInv, MountsAreBound
<1>7. CASE CallMountAll
  <2>1. /\ phase' = "mount-all" /\ UNCHANGED <<kmnt, bound, run>>
        /\ todo' = MTab /\ \A d \in LoopDevs : <<d, run>> \in bound
    BY <1>7 DEF CallMountAll, MS!MountAll, MS!StartLoop
  <2>2. QED BY <1>0, <2>1, DetachKept DEF DetachInv, MountsAreBound
<1>8. CASE CallUndoMounts
  <2>1. phase' = "undo" /\ UNCHANGED <<kmnt, bound>> /\ mpc' \in {"idle", "undo"}
    BY <1>8 DEF CallUndoMounts, MS!UndoMounts, MS!EnterUndo, MS!Return
  <2>2. QED BY <1>0, <2>1, DetachKept DEF DetachInv, MountsAreBound
<1>9. CASE CleanupUndo
  <2>1. UNCHANGED <<kmnt, bound>> /\ mpc' \in {"idle", "undo"}
        /\ (phase' = "cleanup-undo" /\ mpc' = "idle" => mounted' = <<>>)
    BY <1>9 DEF CleanupUndo, mounting, MS!UndoMounts, MS!EnterUndo, MS!Return
  <2>2. QED BY <1>0, <2>1, DetachKept DEF DetachInv, MountsAreBound
<1>10. CASE CleanupDetach
  <2>1. /\ phase = "cleanup-undo" /\ mpc = "idle" /\ mpc' = mpc /\ phase' # "cleanup-undo"
        /\ kmnt' = kmnt /\ bound' = IF result = "ok" THEN {b \in bound : b[2] # run} ELSE bound
    BY <1>10 DEF CleanupDetach, Quiet, mounting
  <2>2. CASE result = "ok"
    <3>1. mounted = <<>>
      BY <2>1, <2>2 DEF DetachInv, MountsAreBound
    <3>2. \A t \in Targets : kmnt[t] # NoMount => kmnt[t].run # run
      <4>1. MP!NothingForgotten
        BY DEF DetachInv, IInv, MountInv, MP!IInv
      <4>2. MP!ToSet(mounted) = {}
        BY <3>1 DEF MP!ToSet
      <4>3. QED BY <4>1, <4>2 DEF MP!NothingForgotten
    <3>3. DetachedUnmounted'
      BY <2>1, <2>2, <3>2 DEF DetachInv, DetachedUnmounted
    <3>4. QED BY <1>0, <2>1, <3>3 DEF DetachInv, MountsAreBound
  <2>3. CASE result # "ok"
    BY <1>0, <2>1, <2>3, DetachKept DEF DetachInv, MountsAreBound
  <2>4. QED BY <2>2, <2>3
<1>11. CASE Restart
  <2>1. phase' = "create" /\ UNCHANGED <<kmnt, bound>> /\ mpc' = "idle"
    BY <1>11 DEF Restart, MS!Restart, MS!Return
  <2>2. QED BY <1>0, <2>1, DetachKept DEF DetachInv, MountsAreBound
<1>12. QED
  BY <1>1, <1>3, <1>4, <1>5, <1>6, <1>7, <1>8, <1>9, <1>10, <1>11, Kinds DEF DetachInv, Entering

(* Where no chroot mount is on a loop device of the tab: a loop device that*)
(* cleanup has detached is not mounted any more, whichever way the run went*)
(* and whatever earlier runs have left mounted.                            *)
THEOREM DetachedDevicesAreFree ==
  ASSUME \A k \in 1 .. Len(ChrootTab) : ChrootTab[k].dev \notin LoopDevs
  PROVE  Spec => []DetachedUnmounted
<1>1. Init => DetachInv
  BY InitIInv DEF Init, MS!Init, DetachInv, MountsAreBound, DetachedUnmounted
<1>2. DetachInv /\ [Next]_vars => DetachInv'
  BY DetachInvStep
<1>3. DetachInv => DetachedUnmounted
  BY DEF DetachInv
<1>4. QED BY <1>1, <1>2, <1>3, PTL DEF Spec

-----------------------------------------------------------------------------
(* Outside repack mode, what a run copies goes to the file systems it has  *)
(* mounted itself.                                                         *)

OwnOnly == \A t \in Targets : kmnt[t] # NoMount => kmnt[t].run = run
NothingMounted == \A t \in Targets : kmnt[t] = NoMount

(* mount_all has mounted the first entries of the tab, each where its      *)
(* directory was no mount point before, and the others are still to come.  *)
TabProgress ==
  /\ mpc \in {"idle", "mount"} /\ call = "all"
  /\ mpc = "mount" =>
       /\ Len(todo) =< Len(MTab)
       /\ \A k \in 1 .. Len(todo) : todo[k] = MTab[Len(MTab) - Len(todo) + k]
       /\ \A k \in 1 .. Len(MTab) :
            /\ k =< Len(MTab) - Len(todo) =>
                 kmnt[MTab[k].target] = [dev |-> MTab[k].dev, run |-> run]
            /\ k > Len(MTab) - Len(todo) => kmnt[MTab[k].target] = NoMount
  /\ mpc = "idle" /\ result = "ok" =>
       \A k \in 1 .. Len(MTab) : kmnt[MTab[k].target] = [dev |-> MTab[k].dev, run |-> run]

(* The mount loops run in their phases only; an undo_mounts that has       *)
(* succeeded has left nothing in ctx.mounted.                              *)
LoopPhases ==
  /\ phase \notin {"init", "undo", "mount-all", "cleanup-undo"} => mpc = "idle"
  /\ phase = "undo" => mpc # "mount" /\ (mpc = "idle" /\ result = "ok" => mounted = <<>>)

(* From init_mount, which finds the workspace clean, to the copy.          *)
FreshPhases ==
  /\ phase = "init" /\ (mpc # "idle" \/ result = "ok") => OwnOnly
  /\ phase = "build" => OwnOnly
  /\ phase \in {"finally", "killing", "undo"} /\ ~exc => OwnOnly
  /\ phase \in {"post", "image"} => NothingMounted
  /\ phase = "mount-all" => TabProgress
  /\ phase = "copy" => CopyReachesThisBuild

FreshInv == IInv /\ LoopPhases /\ (mode # "repack" => FreshPhases)

(* mounts keep their run                                                   *)
LEMMA OwnOnlyKept ==
  ASSUME OwnOnly, run' = run,
         \A t \in Targets : kmnt'[t] \in {kmnt[t], NoMount} \/ kmnt'[t].run = run
  PROVE  OwnOnly'
BY DEF OwnOnly

(* The entries of mount_all's tab are for directories of the workspace.    *)
LEMMA TabTargets == \A k \in 1 .. Len(MTab) : MTab[k].target \in Targets
<1>1. ASSUME NEW k \in 1 .. Len(MTab) PROVE MTab[k] \in MP!Entry
  BY BootstrapAssumption, ElementOfSeq DEF MP!Entry
<1>2. QED BY <1>1 DEF MP!Entry

(* One turn of mount_all's loop.                                           *)
LEMMA TabStep ==
  ASSUME \A j, k \in 1 .. Len(MTab) : MTab[j].target = MTab[k].target => j = k,
         MP!IInv, TabProgress, MS!MountNext
  PROVE  TabProgress'
<1> DEFINE done == Len(MTab) - Len(todo)
           e == Head(todo)
           Mounted(k) == [dev |-> MTab[k].dev, run |-> run]
<1>0. /\ kmnt \in [Targets -> MP!Mount \cup {NoMount}] /\ todo \in Seq(MP!Entry)
      /\ MTab \in Seq(MP!Entry)
  BY BootstrapAssumption DEF MP!IInv, MP!TypeOK, MP!Entry
<1>1. /\ mpc = "mount" /\ mpc' = mpc /\ call' = call /\ todo # <<>> /\ todo' = Tail(todo) /\ run' = run
      /\ kmnt' = IF kmnt[e.target] = NoMount
                 THEN [kmnt EXCEPT ![e.target] = [dev |-> e.dev, run |-> run]] ELSE kmnt
  BY DEF MS!MountNext
<1>2. /\ Len(todo) \in Nat /\ Len(MTab) \in Nat /\ Len(todo) >= 1 /\ Len(todo') = Len(todo) - 1
      /\ e = todo[1] /\ \A k \in 1 .. Len(todo') : todo'[k] = todo[k + 1]
  BY <1>0, <1>1
<1>3. /\ Len(todo) =< Len(MTab)
      /\ \A k \in 1 .. Len(todo) : todo[k] = MTab[done + k]
      /\ \A k \in 1 .. Len(MTab) : k =< done => kmnt[MTab[k].target] = Mounted(k)
      /\ \A k \in 1 .. Len(MTab) : k > done => kmnt[MTab[k].target] = NoMount
  BY <1>1 DEF TabProgress
<1>4. done + 1 \in 1 .. Len(MTab) /\ e = MTab[done + 1] /\ kmnt[e.target] = NoMount
  BY <1>2, <1>3
<1>5. \A k \in 1 .. Len(MTab) : MTab[k].target \in Targets
  BY TabTargets
<1>6. kmnt' = [kmnt EXCEPT ![e.target] = Mounted(done + 1)]
  BY <1>1, <1>4
<1>7. ASSUME NEW k \in 1 .. Len(MTab)
      PROVE  /\ k =< done + 1 => kmnt'[MTab[k].target] = Mounted(k)
             /\ k > done + 1 => kmnt'[MTab[k].target] = NoMount
  <2>1. CASE k = done + 1
    <3>1. kmnt'[MTab[k].target] = Mounted(done + 1)
      BY <1>0, <1>4, <1>5, <1>6, <2>1
    <3>2. QED BY <1>2, <2>1, <3>1
  <2>2. CASE k # done + 1
    <3>1. MTab[k].target # e.target
      BY <1>4, <2>2
    <3>2. kmnt'[MTab[k].target] = kmnt[MTab[k].target]
      BY <1>0, <1>5, <1>6, <3>1
    <3>3. k \in Int /\ done \in Int
      BY <1>2
    <3> HIDE DEF done
    <3>4. (k =< done + 1 => k =< done) /\ (k > done + 1 => k > done)
      BY <2>2, <3>3
    <3>5. QED BY <1>3, <3>2, <3>4 DEF done
  <2>3. QED BY <2>1, <2>2
<1>8. Len(MTab) - Len(todo') = done + 1
  BY <1>2
<1>9. \A k \in 1 .. Len(todo') : todo'[k] = MTab[Len(MTab) - Len(todo') + k]
  <2>1. ASSUME NEW k \in 1 .. Len(todo') PROVE todo'[k] = MTab[done + 1 + k]
    <3>1. k + 1 \in 1 .. Len(todo) /\ done + (k + 1) = done + 1 + k
      BY <1>2
    <3>2. QED BY <1>2, <1>3, <3>1
  <2>2. QED BY <1>8, <2>1
<1>10. Len(todo') =< Len(MTab)
  BY <1>2, <1>3
<1> HIDE DEF done, e
<1>11. QED
  BY <1>1, <1>7, <1>8, <1>9, <1>10 DEF TabProgress

(* The mount loops.                                                        *)
LEMMA LoopFreshStep ==
  ASSUME \A j, k \in 1 .. Len(MTab) : MTab[j].target = MTab[k].target => j = k,
         FreshInv, MountSteps \/ MountFails
  PROVE  LoopPhases' /\ (mode' # "repack" => FreshPhases')
<1>0. /\ phase' = phase /\ mode' = mode /\ exc' = exc /\ run' = run
      /\ MP!IInv
      /\ kmnt \in [Targets -> MP!Mount \cup {NoMount}]
      /\ MS!Loop \/ MS!MountFail
  <2>1. MS!Loop \/ MS!MountFail
    BY DEF MountSteps, MountFails
  <2>2. run' = run
    BY <2>1 DEF MS!Loop, MS!MountNext, MS!MountDone, MS!MountFail, MS!UmountNext, MS!UndoPass
  <2>3. phase' = phase /\ mode' = mode /\ exc' = exc
    BY DEF MountSteps, MountFails, own
  <2>4. MP!IInv
    BY DEF FreshInv, IInv, MountInv
  <2>5. QED BY <2>1, <2>2, <2>3, <2>4 DEF MP!IInv, MP!TypeOK
<1>1. mpc # "idle" /\ phase \in {"init", "undo", "mount-all", "cleanup-undo"}
  BY <1>0 DEF FreshInv, LoopPhases, MS!Loop, MS!MountNext, MS!MountDone, MS!MountFail,
     MS!UmountNext, MS!UndoPass
<1>2. \A t \in Targets : kmnt'[t] \in {kmnt[t], NoMount} \/ kmnt'[t].run = run
  <2>1. CASE MS!MountNext \/ MS!UmountNext
    BY <1>0, <2>1 DEF MS!MountNext, MS!UmountNext
  <2>2. CASE MS!MountDone \/ MS!MountFail \/ MS!UndoPass
    BY <2>2 DEF MS!MountDone, MS!MountFail, MS!UndoPass
  <2>3. QED BY <1>0, <2>1, <2>2 DEF MS!Loop
<1>3. LoopPhases'
  <2>1. phase = "undo" => mpc = "undo"
    BY <1>0, <1>1 DEF FreshInv, LoopPhases, MP!IInv, MP!TypeOK
  <2>2. mpc = "undo" => mpc' # "mount" /\ (mpc' = "idle" /\ result' = "ok" => mounted' = <<>>)
    BY <1>0 DEF MS!Loop, MS!MountNext, MS!MountDone, MS!MountFail, MS!UmountNext, MS!UndoPass,
       MS!Return, MS!context
  <2>3. QED BY <1>0, <1>1, <2>1, <2>2 DEF LoopPhases
<1>4. ASSUME mode # "repack" PROVE FreshPhases'
  <2>0. FreshPhases
    BY <1>4 DEF FreshInv
  <2>1. CASE phase # "mount-all"
    <3>1. phase = "init" \/ (phase = "undo" /\ ~exc) => OwnOnly'
      BY <1>0, <1>1, <1>2, <2>0, OwnOnlyKept DEF FreshPhases
    <3>2. QED BY <1>0, <1>1, <2>1, <3>1 DEF FreshPhases
  <2>2. CASE phase = "mount-all"
    <3>1. TabProgress /\ mpc = "mount" /\ call = "all"
      BY <1>1, <2>0, <2>2 DEF FreshPhases, TabProgress
    <3>2. CASE MS!MountNext
      BY <1>0, <2>2, <3>1, <3>2, TabStep DEF FreshPhases
    <3>3. CASE MS!MountDone
      <4>1. mpc' = "idle" /\ todo = <<>> /\ kmnt' = kmnt /\ call' = call
        BY <3>3 DEF MS!MountDone, MS!Return
      <4>2. Len(MTab) - Len(todo) = Len(MTab) /\ Len(MTab) \in Nat
        BY <4>1, BootstrapAssumption
      <4>3. \A k \in 1 .. Len(MTab) : kmnt[MTab[k].target] = [dev |-> MTab[k].dev, run |-> run]
        BY <3>1, <4>2 DEF TabProgress
      <4>4. TabProgress'
        BY <1>0, <3>1, <4>1, <4>3 DEF TabProgress
      <4>5. QED BY <1>0, <2>2, <4>4 DEF FreshPhases
    <3>4. CASE MS!MountFail
      <4>1. mpc' = "idle" /\ result' = "raise" /\ call' = call
        BY <3>1, <3>4 DEF MS!MountFail, MS!Return
      <4>2. TabProgress'
        BY <3>1, <4>1 DEF TabProgress
      <4>3. QED BY <1>0, <2>2, <4>2 DEF FreshPhases
    <3>5. QED BY <1>0, <3>1, <3>2, <3>3, <3>4 DEF MS!Loop, MS!UmountNext, MS!UndoPass
  <2>3. QED BY <2>1, <2>2
<1>5. QED BY <1>0, <1>3, <1>4

(* The steps between the phases.                                           *)
LEMMA FreshStep ==
  ASSUME \A j, k \in 1 .. Len(MTab) : MTab[j].target = MTab[k].target => j = k,
         FreshInv, [Next]_vars
  PROVE  FreshInv'
<1> USE DEF Step
<1>0. IInv' /\ LoopPhases /\ (mode # "repack" => FreshPhases)
  BY InvStep DEF FreshInv
<1>1. CASE MountSteps \/ MountFails
  BY <1>0, <1>1, LoopFreshStep DEF FreshInv
<1>2. ASSUME UNCHANGED <<kmnt, run, mounted, mpc, call, result, todo, mode>>,
             phase' # "undo" \/ phase' = phase,
             phase' \in {"init", "undo", "mount-all", "cleanup-undo"} \/ mpc = "idle",
             mode # "repack" => FreshPhases'
      PROVE  FreshInv'
  BY <1>0, <1>2 DEF FreshInv, LoopPhases
<1>3. CASE Staying /\ ~(MountSteps \/ MountFails)
  <2>1. UNCHANGED <<kmnt, run, mounted, mpc, call, result, todo, mode, phase, exc>>
    BY <1>3 DEF Staying, BindLoop, CommandSteps, KillAllSteps, RunCommand, Exit, Fork, Use, vars,
       own, Quiet, mounting, MS!Release, MS!Use, MS!context, MS!calls
  <2>2. mode # "repack" => FreshPhases'
    BY <1>0, <2>1 DEF FreshPhases, OwnOnly, NothingMounted, TabProgress, CopyReachesThisBuild
  <2>3. QED BY <1>0, <1>2, <2>1, <2>2 DEF LoopPhases
<1>4. CASE CreateContext \/ RemoveWorkspace \/ EnterRootfs \/ CopyDone \/ CallDestroy \/ Finish
  <2>1. /\ UNCHANGED <<kmnt, run, mounted, mpc, call, result, todo, mode>>
        /\ phase' \notin {"init", "build", "finally", "killing", "undo", "image", "mount-all", "copy",
                          "cleanup-undo"}
        /\ phase \notin {"init", "undo", "mount-all", "cleanup-undo"}
        /\ phase' = "post" => mode = "repack"
    BY <1>4 DEF CreateContext, RemoveWorkspace, EnterRootfs, CopyDone, CallDestroy, Finish, Quiet,
       mounting
  <2>2. mode # "repack" => FreshPhases'
    BY <2>1 DEF FreshPhases
  <2>3. QED BY <1>0, <1>2, <2>1, <2>2 DEF LoopPhases
<1>5. CASE CallInitMount
  <2>1. /\ phase' = "init" /\ mode' = mode /\ run' = run /\ kmnt' = kmnt
        /\ \/ mpc' = "idle" /\ result' = "raise"
           \/ NothingMounted
    BY <1>5 DEF CallInitMount, MS!InitMount, MS!Return, MS!Dirty, NothingMounted
  <2>2. NothingMounted => OwnOnly'
    BY <2>1 DEF NothingMounted, OwnOnly
  <2>3. QED BY <1>0, <2>1, <2>2 DEF FreshInv, LoopPhases, FreshPhases
<1>6. CASE InitMountEnds \/ BuildDone \/ CallKillAll \/ Raise
  <2>1. /\ UNCHANGED <<kmnt, run, mounted, mpc, call, result, todo, mode>> /\ mpc = "idle"
        /\ phase' \in {"build", "finally", "killing", "cleanup", "cleanup-killing", "end"}
        /\ phase' = "build" => phase = "init" /\ result = "ok"
        /\ phase' \in {"finally", "killing"} /\ ~exc' =>
             phase = "build" \/ (phase = "finally" /\ ~exc)
    <3>1. CASE InitMountEnds \/ BuildDone
      BY <3>1 DEF InitMountEnds, BuildDone, Quiet, mounting, Idle
    <3>2. CASE CallKillAll
      BY <3>2 DEF CallKillAll, mounting, Idle
    <3>3. CASE Raise
      BY <3>3 DEF Raise, mounting
    <3>4. QED BY <1>6, <3>1, <3>2, <3>3
  <2>2. mode # "repack" => FreshPhases'
    BY <1>0, <2>1 DEF FreshPhases, OwnOnly
  <2>3. QED BY <1>2, <2>1, <2>2
<1>7. CASE CallUndoMounts
  <2>1. /\ phase = "killing" /\ phase' = "undo" /\ UNCHANGED <<kmnt, run, mounted, mode, exc>>
        /\ mpc' \in {"idle", "undo"} /\ (mpc' = "idle" => mounted = <<>>)
    BY <1>7 DEF CallUndoMounts, MS!UndoMounts, MS!EnterUndo, MS!Return
  <2>2. mode # "repack" => FreshPhases'
    BY <1>0, <2>1 DEF FreshPhases, OwnOnly
  <2>3. QED BY <1>0, <2>1, <2>2 DEF FreshInv, LoopPhases
<1>8. CASE UndoMountsEnds
  <2>1. /\ UNCHANGED <<kmnt, run, mounted, mpc, call, result, todo, mode>> /\ mpc = "idle"
        /\ phase = "undo" /\ phase' \in {"end", "post"}
        /\ phase' = "post" => ~exc /\ result = "ok"
    BY <1>8 DEF UndoMountsEnds, Quiet, mounting, Idle
  <2>2. ASSUME phase' = "post", mode # "repack" PROVE NothingMounted'
    <3>1. OwnOnly /\ mounted = <<>>
      BY <1>0, <2>1, <2>2 DEF LoopPhases, FreshPhases
    <3>2. MP!NothingForgotten
      BY DEF FreshInv, IInv, MountInv, MP!IInv
    <3>3. MP!ToSet(mounted) = {}
      BY <3>1 DEF MP!ToSet
    <3>4. QED BY <2>1, <3>1, <3>2, <3>3 DEF MP!NothingForgotten, OwnOnly, NothingMounted
  <2>3. mode # "repack" => FreshPhases'
    BY <2>1, <2>2 DEF FreshPhases
  <2>4. QED BY <1>2, <2>1, <2>3
<1>9. CASE EnterImage
  <2>1. /\ UNCHANGED <<kmnt, run, mounted, mpc, call, result, todo, mode>> /\ mpc = "idle"
        /\ phase = "post" /\ phase' = "image"
    BY <1>9 DEF EnterImage, Quiet, mounting, Idle
  <2>2. mode # "repack" => FreshPhases'
    BY <1>0, <2>1 DEF FreshPhases, NothingMounted
  <2>3. QED BY <1>2, <2>1, <2>2
<1>10. CASE CallMountAll
  <2>1. /\ phase = "image" /\ phase' = "mount-all" /\ UNCHANGED <<kmnt, run, mode>>
        /\ mpc' = "mount" /\ call' = "all" /\ todo' = MTab
    BY <1>10 DEF CallMountAll, MS!MountAll, MS!StartLoop
  <2>2. ASSUME NothingMounted PROVE TabProgress'
    <3>1. Len(MTab) \in Nat /\ \A k \in 1 .. Len(MTab) : MTab[k].target \in Targets
      BY TabTargets, BootstrapAssumption
    <3>2. Len(MTab) - Len(todo') = 0
      BY <2>1, <3>1
    <3>3. \A k \in 1 .. Len(MTab) : kmnt'[MTab[k].target] = NoMount /\ k > 0 /\ ~(k =< 0)
      BY <2>1, <2>2, <3>1 DEF NothingMounted
    <3>4. \A k \in 1 .. Len(todo') : todo'[k] = MTab[0 + k]
      BY <2>1, <3>1
    <3>5. QED BY <2>1, <3>1, <3>2, <3>3, <3>4 DEF TabProgress
  <2>3. mode # "repack" => FreshPhases'
    BY <1>0, <2>1, <2>2 DEF FreshPhases
  <2>4. QED BY <1>0, <2>1, <2>3 DEF FreshInv, LoopPhases
<1>11. CASE MountAllEnds
  <2>1. /\ UNCHANGED <<kmnt, run, mounted, mpc, call, result, todo, mode>> /\ mpc = "idle"
        /\ phase = "mount-all" /\ phase' \in {"copy", "cleanup"}
        /\ phase' = "copy" => result = "ok"
    BY <1>11 DEF MountAllEnds, Quiet, mounting, Idle
  <2>2. mode # "repack" => FreshPhases'
    BY <1>0, <2>1 DEF FreshPhases, TabProgress, CopyReachesThisBuild
  <2>3. QED BY <1>2, <2>1, <2>2
<1>12. CASE CleanupUndo \/ CleanupDetach \/ Restart
  <2>1. /\ phase' \in {"create", "cleanup-undo", "list", "end"}
        /\ phase' # "cleanup-undo" => mpc' = "idle"
    BY <1>12 DEF CleanupUndo, CleanupDetach, Restart, MS!Restart, MS!Return, Quiet, mounting
  <2>2. QED BY <1>0, <2>1 DEF FreshInv, LoopPhases, FreshPhases
<1>13. QED
  BY <1>1, <1>3, <1>4, <1>5, <1>6, <1>7, <1>8, <1>9, <1>10, <1>11, <1>12, Kinds
  DEF Entering, Passing

(* Without --repack, rsync copies to file systems that this run mounted,   *)
(* those the tab names, however earlier runs were killed, when the tab     *)
(* names no directory twice.                                               *)
THEOREM CopyIsFresh ==
  ASSUME \A j, k \in 1 .. Len(MTab) : MTab[j].target = MTab[k].target => j = k
  PROVE  Spec => []FreshCopyReachesThisBuild
<1>1. Init => FreshInv
  BY InitIInv DEF Init, MS!Init, FreshInv, LoopPhases, FreshPhases
<1>2. FreshInv /\ [Next]_vars => FreshInv'
  BY FreshStep
<1>3. FreshInv => FreshCopyReachesThisBuild
  BY DEF FreshInv, FreshPhases, FreshCopyReachesThisBuild, CopyReachesThisBuild
<1>4. QED BY <1>1, <1>2, <1>3, PTL DEF Spec
=============================================================================
