----------------------------- MODULE MountStack -----------------------------
(***************************************************************************)
(* The mounts under a workspace: MountPoint and MountTab of                *)
(* builder/lib/mount.py, ArchBuilderContext.mounted, init_mount and        *)
(* undo_mounts of builder/build/mount.py, mount_all of                     *)
(* builder/build/fstab.py.                                                 *)
(*                                                                         *)
(* kmnt is the kernel's side (/proc/mounts restricted to the workspace), it*)
(* outlives the builder; mounted and chroot are the builder's side, they   *)
(* die with it.  A process with an open file on a mount keeps the kernel   *)
(* from unmounting it.  One builder works on a workspace at a time; its    *)
(* runs are numbered.                                                      *)
(***************************************************************************)
EXTENDS Naturals, SequencesExt

CONSTANTS
  Targets,     \* directories under the workspace that get mounted on
  Devs,        \* what gets mounted: virtual file systems, loop devices
  Above,       \* pairs <<p, t>>: directory p is a strict parent of t
  ChrootTab,   \* init_mount's root_mount calls, in their order
  MTab,        \* ctx.mtab after resort(), sources mapped through ctx.fsmap
  Holders,     \* processes that may hold files open
  MaxRuns,     \* bound: runs of the builder on this workspace
  NoMount      \* nothing is mounted

Entry == [target : Targets, dev : Devs]
Runs == 1 .. MaxRuns
Mount == [dev : Devs, run : Runs]

(* No entry of tab is mounted after an entry it contains: resort() sorts   *)
(* by the depth of the target, init_mount lists dev before dev/pts.        *)
ParentsFirst(tab) ==
  \A i, j \in 1 .. Len(tab) : i < j => <<tab[j].target, tab[i].target>> \notin Above

ASSUME MountStackAssumption ==
  /\ Above \subseteq Targets \X Targets
  /\ \A t \in Targets : <<t, t>> \notin Above
  /\ \A p, t, c \in Targets : {<<p, t>>, <<t, c>>} \subseteq Above => <<p, c>> \in Above
  /\ ChrootTab \in Seq(Entry) /\ ParentsFirst(ChrootTab)
  /\ MTab \in Seq(Entry) /\ ParentsFirst(MTab)
  /\ MaxRuns \in Nat \ {0}
  /\ NoMount \notin Mount

VARIABLES
  kmnt,      \* [Targets -> what the kernel has mounted there]
  holders,   \* [Targets -> processes with open files on that mount]
  run,       \* number of the current run of the builder
  mounted,   \* ctx.mounted, as the targets of its entries
  chroot,    \* ctx.chroot
  mpc,       \* "idle", in a "mount" loop, in an "undo" loop
  call,      \* the function that was called last
  result,    \* "none" until the call has ended, then "ok" or "raise"
  todo,      \* entries the mount loop still has to mount
  queue,     \* undo_mounts: rest of the copy of ctx.mounted it walks over
  progress,  \* undo_mounts: unmounted > 0
  raising,   \* undo_mounts was called while an exception is handled
  busy       \* history: mounts that were in use when the last pass of
             \* undo_mounts came to them

context == <<mounted, chroot>>
calls == <<mpc, call, result, todo, queue, progress, raising, busy>>
vars == <<kmnt, holders, run, mounted, chroot, mpc, call, result,
          todo, queue, progress, raising, busy>>

Dirty == \E t \in Targets : kmnt[t] # NoMount     \* any(mnts.find_folder(work))

Init ==
  /\ kmnt = [t \in Targets |-> NoMount]
  /\ holders = [t \in Targets |-> {}]
  /\ run = 1
  /\ mounted = <<>> /\ chroot = FALSE
  /\ mpc = "idle" /\ call = "none" /\ result = "none"
  /\ todo = <<>> /\ queue = <<>> /\ progress = FALSE /\ raising = FALSE
  /\ busy = {}

Return(r) ==
  /\ mpc' = "idle" /\ result' = r
  /\ todo' = <<>> /\ queue' = <<>> /\ progress' = FALSE /\ raising' = FALSE

(* MUTANT of EnterUndo: ctx.chroot stays set.                              *)
EnterUndoInChroot(exc) ==
  /\ IF mounted = <<>> THEN Return(IF exc THEN "raise" ELSE "ok")
     ELSE /\ mpc' = "undo" /\ result' = "none"
          /\ queue' = mounted /\ progress' = FALSE /\ raising' = exc
          /\ todo' = <<>>
  /\ busy' = {}
  /\ UNCHANGED chroot

(* undo_mounts from its first line on; exc: an exception is on its way.    *)
EnterUndo(exc) ==
  /\ busy' = {}
  /\ IF mounted = <<>>
     THEN /\ Return(IF exc THEN "raise" ELSE "ok")
          /\ UNCHANGED chroot
     ELSE /\ chroot' = FALSE
          /\ mpc' = "undo" /\ result' = "none"
          /\ queue' = mounted /\ progress' = FALSE /\ raising' = exc
          /\ todo' = <<>>

(***************************************************************************)
(* The calls.                                                              *)
(***************************************************************************)
StartLoop(tab) ==
  /\ mpc' = "mount" /\ result' = "none"
  /\ todo' = tab /\ UNCHANGED <<queue, progress, raising>>

(* init_mount raises when anything is mounted under the workspace already; *)
(* undo_mounts then has nothing to do.                                     *)
InitMount ==
  /\ mpc = "idle" /\ mounted = <<>>
  /\ call' = "init"
  /\ IF Dirty THEN Return("raise") ELSE StartLoop(ChrootTab)
  /\ UNCHANGED <<kmnt, holders, run, context, busy>>

MountAll ==
  /\ mpc = "idle" /\ mounted = <<>>
  /\ call' = "all"
  /\ StartLoop(MTab)
  /\ UNCHANGED <<kmnt, holders, run, context, busy>>

UndoMounts ==
  /\ mpc = "idle"
  /\ call' = "undo"
  /\ EnterUndo(FALSE)
  /\ UNCHANGED <<kmnt, holders, run, mounted>>

(***************************************************************************)
(* The loops.                                                              *)
(***************************************************************************)
(* MUTANT of Inserted: mounted.append(mnt).                                *)
Appended(t) == mounted \o <<t>>

(* MUTANT of Inserted: what is kept of a mount that was there already is   *)
(* the empty result of mount().                                            *)
ResultInserted(t) == <<IF kmnt[t] = NoMount THEN t ELSE NoMount>> \o mounted

(* mounted.insert(0, mnt)                                                  *)
Inserted(t) == <<t>> \o mounted

(* One iteration of a mount loop; MountPoint.mount mounts nothing on a     *)
(* directory that is a mount point already.                                *)
MountNext ==
  /\ mpc = "mount" /\ todo # <<>>
  /\ LET e == Head(todo)
     IN  /\ kmnt' = IF kmnt[e.target] = NoMount
                    THEN [kmnt EXCEPT ![e.target] = [dev |-> e.dev, run |-> run]]
                    ELSE kmnt
         /\ mounted' = Inserted(e.target)
  /\ todo' = Tail(todo)
  /\ UNCHANGED <<holders, run, chroot, mpc, call, result, queue, progress, raising, busy>>

MountDone ==
  /\ mpc = "mount" /\ todo = <<>>
  /\ chroot' = (chroot \/ call = "init")
  /\ Return("ok")
  /\ UNCHANGED <<kmnt, holders, run, mounted, call, busy>>

(* MUTANT of MountFail: init_mount leaves its mounts to somebody else.     *)
MountFailOnly ==
  /\ mpc = "mount" /\ (todo # <<>> \/ call = "init")
  /\ Return("raise")
  /\ UNCHANGED <<kmnt, holders, run, context, call, busy>>

(* mount(2), mkdir, the mapping of a source or one of init_mount's symlinks *)
(* fails: init_mount undoes what it did, mount_all leaves that to cleanup.  *)
MountFail ==
  /\ mpc = "mount" /\ (todo # <<>> \/ call = "init")
  /\ IF call = "init" THEN EnterUndo(TRUE) ELSE Return("raise") /\ UNCHANGED <<chroot, busy>>
  /\ UNCHANGED <<kmnt, holders, run, mounted, call>>

(* The kernel unmounts what nobody uses and nothing else is mounted in.    *)
Unmountable(t) ==
  /\ holders[t] = {}
  /\ \A c \in Targets : <<t, c>> \in Above => kmnt[c] = NoMount

(* MUTANT of UmountNext: the entry is dropped though it is still mounted.  *)
UmountNextForgets ==
  /\ mpc = "undo" /\ queue # <<>>
  /\ LET t == Head(queue)
     IN  /\ kmnt' = IF Unmountable(t) THEN [kmnt EXCEPT ![t] = NoMount] ELSE kmnt
         /\ mounted' = RemoveFirst(mounted, t)
  /\ progress' = TRUE /\ queue' = Tail(queue)
  /\ UNCHANGED <<holders, run, chroot, mpc, call, result, todo, raising, busy>>

(* One iteration of undo_mounts' for loop; MountPoint.umount does nothing  *)
(* when the directory is no mount point.                                   *)
UmountNext ==
  /\ mpc = "undo" /\ queue # <<>>
  /\ LET t == Head(queue)
     IN  IF kmnt[t] = NoMount \/ Unmountable(t)
         THEN /\ kmnt' = [kmnt EXCEPT ![t] = NoMount]
              /\ mounted' = RemoveFirst(mounted, t)
              /\ progress' = TRUE /\ busy' = busy
         ELSE /\ busy' = IF holders[t] = {} THEN busy ELSE busy \cup {t}
              /\ UNCHANGED <<kmnt, mounted, progress>>
  /\ queue' = Tail(queue)
  /\ UNCHANGED <<holders, run, chroot, mpc, call, result, todo, raising>>

(* MUTANT of UndoPass: unmounted is set to 0 once, not in every pass.      *)
UndoPassKeepsProgress ==
  /\ mpc = "undo" /\ queue = <<>>
  /\ IF mounted = <<>> THEN Return(IF raising \/ Dirty THEN "raise" ELSE "ok")
     ELSE IF ~progress THEN Return("raise")
     ELSE queue' = mounted /\ UNCHANGED <<mpc, result, todo, progress, raising>>
  /\ UNCHANGED <<kmnt, holders, run, context, call, busy>>

(* The end of a pass: done, given up, or another pass.                     *)
UndoPass ==
  /\ mpc = "undo" /\ queue = <<>>
  /\ IF mounted = <<>> THEN Return(IF raising \/ Dirty THEN "raise" ELSE "ok") /\ busy' = busy
     ELSE IF ~progress THEN Return("raise") /\ busy' = busy
     ELSE /\ queue' = mounted /\ progress' = FALSE /\ busy' = {}
          /\ UNCHANGED <<mpc, result, todo, raising>>
  /\ UNCHANGED <<kmnt, holders, run, context, call>>

(***************************************************************************)
(* The processes, and the end of a run (return, exception or SIGKILL).     *)
(***************************************************************************)
(* Any process opens a file on a mount at any time, in the middle of a loop *)
(* as well: a command, what it left behind, or a program of the host (an   *)
(* indexer, a shell that was left in the workspace).                       *)
Use(t, p) ==
  /\ kmnt[t] # NoMount
  /\ holders' = [holders EXCEPT ![t] = @ \cup {p}]
  /\ UNCHANGED <<kmnt, run, context, calls>>

Release(p) ==
  /\ holders' = [t \in Targets |-> holders[t] \ {p}]
  /\ UNCHANGED <<kmnt, run, context, calls>>

Restart ==
  /\ run < MaxRuns /\ run' = run + 1
  /\ mounted' = <<>> /\ chroot' = FALSE
  /\ call' = "none" /\ Return("none") /\ busy' = {}
  /\ UNCHANGED <<kmnt, holders>>

Loop == MountNext \/ MountDone \/ UmountNext \/ UndoPass

Next ==
  \/ InitMount \/ MountAll \/ UndoMounts
  \/ Loop \/ MountFail
  \/ \E p \in Holders : Release(p) \/ \E t \in Targets : Use(t, p)
  \/ Restart

Spec == Init /\ [][Next]_vars

(* The builder is sequential code without waits: a loop it is in goes on.  *)
FairSpec == Spec /\ WF_vars(Loop)

-----------------------------------------------------------------------------
TypeOK ==
  /\ kmnt \in [Targets -> Mount \cup {NoMount}]
  /\ holders \in [Targets -> SUBSET Holders]
  /\ run \in Runs
  /\ mounted \in Seq(Targets)
  /\ chroot \in BOOLEAN
  /\ mpc \in {"idle", "mount", "undo"}
  /\ call \in {"none", "init", "all", "undo"}
  /\ result \in {"none", "ok", "raise"}
  /\ todo \in Seq(Entry)
  /\ queue \in Seq(Targets)
  /\ progress \in BOOLEAN
  /\ raising \in BOOLEAN
  /\ busy \subseteq Targets

(* Whatever this run has mounted is in ctx.mounted until it is unmounted:  *)
(* no failure in a mount or undo loop makes the builder forget a mount.    *)
NothingForgotten ==
  \A t \in Targets :
    kmnt[t] # NoMount /\ kmnt[t].run = run => t \in ToSet(mounted)

(* chroot_run's check (build/filesystem.py) is worth something: while      *)
(* ctx.chroot is set, every file system of init_mount is in place, mounted *)
(* by this run.                                                            *)
ChrootReady ==
  chroot => \A i \in 1 .. Len(ChrootTab) :
              LET m == kmnt[ChrootTab[i].target]
              IN  m # NoMount /\ m.run = run

(* A failed init_mount leaves nothing behind that it could have undone:    *)
(* a mount of its own that is still there when it has raised was in use, or*)
(* has one below it that was, when the last pass of undo_mounts came to it,*)
(* though other passes did unmount something and what is in use changes at *)
(* any time.                                                               *)
Kept(t) == \E u \in busy : u = t \/ <<t, u>> \in Above

FailedInitUndone ==
  mpc = "idle" /\ call = "init" /\ result = "raise" =>
    \A t \in Targets : kmnt[t] # NoMount /\ kmnt[t].run = run => Kept(t)

(* undo_mounts meets a mount before the mount it is mounted in, so that one*)
(* pass is enough when nothing is held.                                    *)
ChildrenFirst ==
  \A i, j \in 1 .. Len(mounted) : i < j => <<mounted[i], mounted[j]>> \notin Above

(* undo_mounts (and the mount loops) end, whatever is held.                *)
LoopsEnd == mpc # "idle" ~> mpc = "idle"
=============================================================================
