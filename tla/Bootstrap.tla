----------------------------- MODULE Bootstrap ------------------------------
(***************************************************************************)
(* build_rootfs of builder/build/bootstrap.py: the order of a build's      *)
(* phases, its two try/finally blocks, and the clean and repack modes.  It *)
(* drives the process side (CGroup) and the mount side (MountStack), which *)
(* share the processes: whoever runs may hold files open on a mount.       *)
(*                                                                         *)
(* A run may be killed at any point; the next run of the same workspace    *)
(* then finds what the kernel still has: mounts, processes, the group, and *)
(* the loop devices.  The builder's own variables start afresh.            *)
(***************************************************************************)
EXTENDS Naturals, SequencesExt

CONSTANTS
  builder,                                  \* the builder's session
  Procs, Stubborn, Faults,                  \* see CGroup
  Targets, Devs, Above, ChrootTab, MTab,    \* see MountStack
  MaxRuns,                                  \* bound: runs on this workspace
  Modes,                                    \* of "plain", "clean", "repack"
  None, NoMount

(* The assumptions of CGroup and MountStack, for the arguments given below. *)
ASSUME BootstrapAssumption ==
  /\ Stubborn \subseteq Procs /\ Faults \subseteq {"mkdir", "exception"}
  /\ None \notin Procs \cup {builder}
  /\ Above \subseteq Targets \X Targets /\ \A t \in Targets : <<t, t>> \notin Above
  /\ \A p, t, c \in Targets : {<<p, t>>, <<t, c>>} \subseteq Above => <<p, c>> \in Above
  /\ \A tab \in {ChrootTab, MTab} :
       /\ tab \in Seq([target : Targets, dev : Devs])
       /\ \A i, j \in 1 .. Len(tab) : i < j => <<tab[j].target, tab[i].target>> \notin Above
  /\ MaxRuns \in Nat \ {0}
  /\ NoMount \notin [dev : Devs, run : 1 .. MaxRuns]

VARIABLES
  valid, procs, live, started, owner, seen, signal, pc, child, pids, remain, sig,
  kmnt, holders, run, mounted, chroot, mpc, call, result, todo, queue, progress,
  raising, busy,
  mode,      \* --clean and --repack; main() refuses both together
  phase,     \* where build_rootfs is
  exc,       \* an exception is on its way through a finally block
  bound,     \* loop devices in use: <<device, run that bound it>>
  outcome    \* "running", "ok", "failed"

process == <<valid, procs, live, started, owner, seen, signal,
             pc, child, pids, remain, sig>>
mounting == <<kmnt, holders, run, mounted, chroot, mpc, call, result,
              todo, queue, progress, raising, busy>>

CG == INSTANCE CGroup WITH Sessions <- {builder}, KillTime <- 8, Timeout <- 10
MS == INSTANCE MountStack WITH Holders <- Procs

own == <<mode, phase, exc, bound, outcome>>
vars == <<process, mounting, own>>

Init ==
  /\ CG!Init /\ MS!Init
  /\ mode \in Modes
  /\ phase = "create" /\ exc = FALSE /\ bound = {} /\ outcome = "running"

(* No command is being run and no component function is active.            *)
Idle == outcome = "running" /\ mpc = "idle" /\ pc[builder] \in {"run", "killed"}

Step(from, to) == phase = from /\ phase' = to

(* The phases in which commands run: hooks, pacman, mkinitcpio, mkfs, rsync *)
Working == {"clean", "start", "pre-init", "build", "post", "image", "copy", "list"}

LoopDevs == {MTab[k].dev : k \in 1 .. Len(MTab)}

Quiet == UNCHANGED <<process, mounting>>

(***************************************************************************)
(* main() and the phases before the first try block.                       *)
(***************************************************************************)
CreateContext ==
  /\ Step("create", IF mode = "clean" THEN "clean" ELSE "start")
  /\ outcome = "running" /\ CG!Create(builder)
  /\ UNCHANGED <<mounting, mode, exc, bound, outcome>>

(* remove_workspace; an exception here or in the hooks around it ends the  *)
(* program without any cleanup.                                            *)
RemoveWorkspace ==
  /\ Idle
  /\ IF MS!Dirty
     THEN Step("clean", "end") /\ outcome' = "failed"
     ELSE Step("clean", "start") /\ UNCHANGED outcome
  /\ Quiet /\ UNCHANGED <<mode, exc, bound>>

EnterRootfs ==
  /\ Idle
  /\ Step("start", IF mode = "repack" THEN "post" ELSE "pre-init")
  /\ Quiet /\ UNCHANGED <<mode, exc, bound, outcome>>

(***************************************************************************)
(* The first try block and its finally clause.                             *)
(***************************************************************************)
CallInitMount ==
  /\ Idle /\ Step("pre-init", "init")
  /\ MS!InitMount
  /\ UNCHANGED <<process, mode, exc, bound, outcome>>

(* MUTANT of InitMountEnds: the exception of init_mount is swallowed.      *)
InitMountIgnored ==
  /\ Idle /\ Step("init", "build")
  /\ Quiet /\ UNCHANGED <<mode, exc, bound, outcome>>

InitMountEnds ==
  /\ Idle /\ Step("init", IF result = "ok" THEN "build" ELSE "finally")
  /\ exc' = (result # "ok")
  /\ Quiet /\ UNCHANGED <<mode, bound, outcome>>

BuildDone ==
  /\ Idle /\ Step("build", "finally")
  /\ Quiet /\ UNCHANGED <<mode, exc, bound, outcome>>

CallKillAll ==
  /\ Idle
  /\ Step("finally", "killing") \/ Step("cleanup", "cleanup-killing")
  /\ CG!KillAll(builder)
  /\ UNCHANGED <<mounting, mode, exc, bound, outcome>>

(* MUTANT of CallUndoMounts: the finally clause undoes the mounts first.   *)
UndoMountsFirst ==
  /\ Idle /\ Step("finally", "undo")
  /\ MS!UndoMounts
  /\ UNCHANGED <<process, mode, exc, bound, outcome>>

CallUndoMounts ==
  /\ Idle /\ pc[builder] = "killed"
  /\ Step("killing", "undo")
  /\ MS!UndoMounts
  /\ UNCHANGED <<process, mode, exc, bound, outcome>>

(* The exception of the try block, or that of undo_mounts, ends the program *)
(* here: there is no context.cleanup() on this way out.                    *)
UndoMountsEnds ==
  /\ Idle
  /\ IF exc \/ result # "ok"
     THEN Step("undo", "end") /\ outcome' = "failed"
     ELSE Step("undo", "post") /\ UNCHANGED outcome
  /\ Quiet /\ UNCHANGED <<mode, exc, bound>>

(***************************************************************************)
(* The second try block: images, mount_all, copying.                       *)
(***************************************************************************)
EnterImage ==   \* run_hooks and reload_passwd between the two blocks are over
  /\ Idle /\ Step("post", "image")
  /\ Quiet /\ UNCHANGED <<mode, exc, bound, outcome>>

(* proc_image binds the images' loop devices one after the other (see      *)
(* ImageBuild).                                                            *)
BindLoop(d) ==
  /\ Idle /\ phase = "image" /\ <<d, run>> \notin bound
  /\ bound' = bound \cup {<<d, run>>}
  /\ Quiet /\ UNCHANGED <<mode, phase, exc, outcome>>

CallMountAll ==
  /\ Idle /\ Step("image", "mount-all")
  /\ \A d \in LoopDevs : <<d, run>> \in bound
  /\ MS!MountAll
  /\ UNCHANGED <<process, mode, exc, bound, outcome>>

MountAllEnds ==
  /\ Idle /\ Step("mount-all", IF result = "ok" THEN "copy" ELSE "cleanup")
  /\ exc' = (result # "ok")
  /\ Quiet /\ UNCHANGED <<mode, bound, outcome>>

(* proc_image_post copies the root file system with rsync, one command for *)
(* each file system.                                                       *)
CopyDone ==
  /\ Idle /\ Step("copy", "cleanup")
  /\ Quiet /\ UNCHANGED <<mode, exc, bound, outcome>>

(***************************************************************************)
(* ArchBuilderContext.cleanup, and the end.                                *)
(***************************************************************************)
CallDestroy ==
  /\ Idle /\ pc[builder] = "killed"
  /\ Step("cleanup-killing", "cleanup-destroyed")
  /\ CG!Destroy(builder)
  /\ UNCHANGED <<mounting, mode, exc, bound, outcome>>

(* rmdir failed (the exception skips the rest of cleanup), or undo_mounts. *)
CleanupUndo ==
  /\ outcome = "running" /\ phase = "cleanup-destroyed" /\ mpc = "idle"
  /\ IF pc[builder] = "failed"
     THEN phase' = "end" /\ outcome' = "failed" /\ UNCHANGED mounting
     ELSE phase' = "cleanup-undo" /\ MS!UndoMounts /\ UNCHANGED outcome
  /\ UNCHANGED <<process, mode, exc, bound>>

(* MUTANT of CleanupDetach: devices are detached whatever undo_mounts did. *)
DetachAnyway ==
  /\ outcome = "running" /\ phase = "cleanup-undo" /\ mpc = "idle"
  /\ bound' = {b \in bound : b[2] # run}
  /\ phase' = "end" /\ outcome' = "failed"
  /\ Quiet /\ UNCHANGED <<mode, exc>>

(* MUTANT of CleanupDetach: an exception of undo_mounts is swallowed.      *)
DetachForgives ==
  /\ outcome = "running" /\ phase = "cleanup-undo" /\ mpc = "idle"
  /\ bound' = {b \in bound : b[2] # run}
  /\ IF exc THEN phase' = "end" /\ outcome' = "failed"
     ELSE phase' = "list" /\ UNCHANGED outcome
  /\ Quiet /\ UNCHANGED <<mode, exc>>

(* When undo_mounts has raised the loop devices stay bound.                *)
CleanupDetach ==
  /\ outcome = "running" /\ phase = "cleanup-undo" /\ mpc = "idle"
  /\ bound' = IF result = "ok" THEN {b \in bound : b[2] # run} ELSE bound
  /\ IF result # "ok" \/ exc
     THEN phase' = "end" /\ outcome' = "failed"
     ELSE phase' = "list" /\ UNCHANGED outcome
  /\ Quiet /\ UNCHANGED <<mode, exc>>

(* After the last command, the listing of the output folder.               *)
Finish ==
  /\ outcome = "running" /\ pc[builder] \in {"run", "destroyed"}
  /\ Step("list", "end") /\ outcome' = "ok"
  /\ Quiet /\ UNCHANGED <<mode, exc, bound>>

(***************************************************************************)
(* Commands, failures, and the rest of the world.                          *)
(***************************************************************************)
RunCommand(p) ==
  /\ outcome = "running" /\ mpc = "idle" /\ phase \in Working
  /\ CG!Popen(builder, p)
  /\ UNCHANGED <<mounting, own>>

CommandSteps ==
  /\ outcome = "running"
  /\ CG!AddPid(builder) \/ CG!Wait(builder)
  /\ UNCHANGED <<mounting, own>>

KillAllSteps ==
  /\ outcome = "running"
  /\ CG!SendSignals(builder) \/ CG!Check(builder)
  /\ UNCHANGED <<mounting, own>>

MountSteps ==
  /\ outcome = "running"
  /\ MS!Loop
  /\ UNCHANGED <<process, own>>

MountFails ==
  /\ "exception" \in Faults
  /\ outcome = "running" /\ MS!MountFail
  /\ UNCHANGED <<process, own>>

(* An exception in the builder, between two commands or while one runs.    *)
Raise ==
  /\ "exception" \in Faults
  /\ outcome = "running" /\ mpc = "idle" /\ phase \in Working
  /\ \/ pc[builder] \in {"run", "killed", "destroyed"} /\ UNCHANGED process
     \/ CG!Abandon(builder)
  /\ exc' = TRUE
  /\ IF phase \in {"pre-init", "build"}
     THEN phase' = "finally" /\ UNCHANGED outcome
     ELSE IF phase \in {"image", "copy"}
     THEN phase' = "cleanup" /\ UNCHANGED outcome
     ELSE phase' = "end" /\ outcome' = "failed"
  /\ UNCHANGED <<mounting, mode, bound>>

Exit(p) ==
  /\ CG!Exit(p)
  /\ MS!Release(p)
  /\ UNCHANGED own

Die(p) == CG!Dying(p) /\ Exit(p)

Fork(p, q) == CG!Fork(p, q) /\ UNCHANGED <<mounting, own>>

Use(t, p) ==
  /\ p \in live
  /\ MS!Use(t, p)
  /\ UNCHANGED <<process, own>>

(* A new run, after the end of the last one or after SIGKILL.              *)
Restart ==
  /\ MS!Restart
  /\ pc' = [pc EXCEPT ![builder] = "start"]
  /\ child' = [child EXCEPT ![builder] = None]
  /\ UNCHANGED <<valid, procs, live, started, owner, seen, signal, pids, remain, sig>>
  /\ mode' \in Modes
  /\ phase' = "create" /\ exc' = FALSE /\ outcome' = "running"
  /\ UNCHANGED bound

BuildRootfs ==
  \/ CreateContext \/ RemoveWorkspace \/ EnterRootfs
  \/ CallInitMount \/ InitMountEnds \/ BuildDone
  \/ CallKillAll \/ CallUndoMounts \/ UndoMountsEnds
  \/ EnterImage \/ (\E d \in LoopDevs : BindLoop(d)) \/ CallMountAll \/ MountAllEnds \/ CopyDone
  \/ CallDestroy \/ CleanupUndo \/ CleanupDetach \/ Finish
  \/ CommandSteps \/ KillAllSteps \/ MountSteps

Next ==
  \/ BuildRootfs
  \/ Raise \/ MountFails
  \/ \E p \in Procs : RunCommand(p) \/ Exit(p)
  \/ \E p, q \in Procs : Fork(p, q)
  \/ \E p \in Procs, t \in Targets : Use(t, p)
  \/ Restart

Spec == Init /\ [][Next]_vars

(* build_rootfs is sequential code, every command ends some time, and a    *)
(* process that got a deadly signal dies.                                  *)
FairSpec ==
  /\ Spec
  /\ WF_vars(BuildRootfs)
  /\ \A p \in Procs : WF_vars(Die(p)) /\ WF_vars(child[builder] = p /\ Exit(p))

-----------------------------------------------------------------------------
(* Both finally clauses call kill_all before undo_mounts: while mounts are *)
(* undone, no tracked process is there to keep one of them busy.           *)
UndoneWithoutProcesses ==
  outcome = "running" /\ phase \in {"undo", "cleanup-undo"} =>
    \A t \in Targets : holders[t] \cap seen = {}

(* "Mount all filesystems in fstab for build" (build/fstab.py:26): when the *)
(* images are filled, what rsync is given as destination is a file system  *)
(* of this run, and the one the tab names for that directory.              *)
CopyReachesThisBuild ==
  phase = "copy" =>
    \A k \in 1 .. Len(MTab) :
      kmnt[MTab[k].target] = [dev |-> MTab[k].dev, run |-> run]

(* Without --repack, init_mount stops every run that finds mounts of an    *)
(* earlier one, those of its images included, before anything is copied.   *)
FreshCopyReachesThisBuild == mode # "repack" => CopyReachesThisBuild

(* The loop devices cleanup detaches are not mounted any more, so that the *)
(* kernel really gives them back.                                          *)
DetachedUnmounted ==
  \A t \in Targets : kmnt[t] # NoMount /\ kmnt[t].dev \in LoopDevs =>
    <<kmnt[t].dev, kmnt[t].run>> \in bound

(* A build promises what BuildRun says: when it reports success, no mount  *)
(* under the workspace, no process in the group and no group is left,      *)
(* neither of this run nor of one that was killed before; and no loop      *)
(* device that this run has bound.  The devices of killed runs stay bound: *)
(* ctx.loops died with them, and cleanup detaches only what is in its own. *)
held ==
  {k \in {"mounts", "own loops", "processes", "group"} :
     \/ k = "mounts" /\ MS!Dirty
     \/ k = "own loops" /\ \E b \in bound : b[2] = run
     \/ k = "processes" /\ procs # {}
     \/ k = "group" /\ valid}

BR == INSTANCE BuildRun WITH Kinds <- {"mounts", "own loops", "processes", "group"}

KeepsPromise == BR!Spec

(* Every run ends, if each command ends some time and what kill_all signals *)
(* dies of it (no process is stubborn): kill_all's rounds and undo_mounts' *)
(* passes do not keep a finally clause waiting, whoever forks in between   *)
(* and whatever stays in use.                                              *)
RunEnds == outcome = "running" ~> outcome # "running"
=============================================================================
