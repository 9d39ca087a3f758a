------------------------------- MODULE CGroup -------------------------------
(***************************************************************************)
(* builder/lib/cgroup.py and the process part of builder/lib/context.py:   *)
(* a builder process starts commands one at a time (run_external), moves   *)
(* each into the control group "arch-image-builder" after it has started,  *)
(* waits for it, and at the end of a build phase signals whatever the      *)
(* group still holds until it is empty (kill_all).                         *)
(*                                                                         *)
(* The commands are not passive: they fork daemons (gpg-agent, dirmngr),   *)
(* exit when they like, and a child inherits the group of its parent at    *)
(* the moment of the fork.  The group's name is a constant of the program, *)
(* so builders that run at the same time share one group.                  *)
(***************************************************************************)
EXTENDS Naturals, FiniteSets

CONSTANTS
  Sessions,   \* builder processes (instances of ArchBuilderContext)
  Procs,      \* the pids that commands and their daemons may get
  Stubborn,   \* processes that ignore SIGTERM
  KillTime,   \* kill_all(kill=8): rounds before SIGKILL
  Timeout,    \* kill_all(timeout=10): rounds before TimeoutError
  Faults,     \* what may go wrong: "mkdir" fails, an "exception" in a run
  None        \* no process / no session

ASSUME CGroupAssumption ==
  /\ Stubborn \subseteq Procs
  /\ KillTime \in Nat
  /\ Timeout \in Nat
  /\ Faults \subseteq {"mkdir", "exception"}
  /\ None \notin Procs \cup Sessions

VARIABLES
  valid,      \* CGroup.valid: the group's directory exists
  procs,      \* the group's cgroup.procs
  live,       \* processes that run
  started,    \* pids in use or used before (no pid is used twice)
  owner,      \* [Procs -> session whose command tree the process is in]
  seen,       \* history: processes that were in the group at some time
  signal,     \* [Procs -> strongest signal that was sent to it]
  pc,         \* [Sessions -> where the builder is]
  child,      \* [Sessions -> run_external's proc]
  pids,       \* [Sessions -> kill_all's local pids]
  remain,     \* [Sessions -> kill_all's local remain]
  sig         \* [Sessions -> kill_all's local sig]

world == <<live, started, owner, signal>>
locals == <<child, pids, remain, sig>>
vars == <<valid, procs, live, started, owner, seen, signal,
          pc, child, pids, remain, sig>>

Signals == {"none", "TERM", "KILL"}
Places == {"start", "run", "spawned", "wait", "signal", "check",
           "killed", "raised", "destroyed", "failed"}

(* Where a builder may be when kill_all has just returned and nothing was  *)
(* started since.                                                          *)
AfterKill == {"killed", "destroyed"}

Init ==
  /\ valid \in BOOLEAN            \* a group may be left by an earlier build
  /\ procs = {} /\ live = {} /\ started = {} /\ seen = {}
  /\ owner = [p \in Procs |-> None]
  /\ signal = [p \in Procs |-> "none"]
  /\ pc = [s \in Sessions |-> "start"]
  /\ child = [s \in Sessions |-> None]
  /\ pids = [s \in Sessions |-> {}]
  /\ remain = [s \in Sessions |-> 0]
  /\ sig = [s \in Sessions |-> "TERM"]

(***************************************************************************)
(* The builder.                                                            *)
(***************************************************************************)
Goto(s, from, to) == pc[s] \in from /\ pc' = [pc EXCEPT ![s] = to]

(* ArchBuilderContext.__init__: create() returns at once if the group is   *)
(* there; a failing mkdir is logged and the build goes on without a group. *)
Create(s) ==
  /\ Goto(s, {"start"}, "run")
  /\ valid' \in IF "mkdir" \in Faults THEN {TRUE, valid} ELSE {TRUE}
  /\ UNCHANGED <<procs, world, seen, locals>>

(* A new process p in the command tree of session s; the group of a fork   *)
(* is the group of the process that forks.                                 *)
Start(p, s, grouped) ==
  /\ p \notin started
  /\ started' = started \cup {p}
  /\ live' = live \cup {p}
  /\ owner' = [owner EXCEPT ![p] = s]
  /\ procs' = IF grouped THEN procs \cup {p} ELSE procs
  /\ seen' = IF grouped THEN seen \cup {p} ELSE seen
  /\ UNCHANGED signal

(* run_external up to Popen: the command runs, outside the group.  The last *)
(* command of a build is started when the group has been removed.          *)
Popen(s, p) ==
  /\ Goto(s, {"run", "killed", "destroyed"}, "spawned")
  /\ Start(p, s, FALSE)
  /\ child' = [child EXCEPT ![s] = p]
  /\ UNCHANGED <<valid, pids, remain, sig>>

(* MUTANT of AddPid: a command that has exited already is moved, too.      *)
AddPidUnchecked(s) ==
  /\ Goto(s, {"spawned"}, "wait")
  /\ procs' = (IF valid THEN procs \cup {child[s]} ELSE procs) /\ seen' = seen \cup procs'
  /\ UNCHANGED <<valid, world, locals>>

(* MUTANT of AddPid: add_pid only after proc.wait(), when it has no effect. *)
AddPidLate(s) ==
  /\ Goto(s, {"spawned"}, "wait")
  /\ UNCHANGED <<valid, procs, world, seen, locals>>

(* cgroup.add_pid(proc.pid): nothing without a group; a process that has   *)
(* exited already is a zombie, which the kernel does not move.             *)
AddPid(s) ==
  /\ Goto(s, {"spawned"}, "wait")
  /\ LET moved == IF valid THEN {child[s]} \cap live ELSE {}
     IN  procs' = procs \cup moved /\ seen' = seen \cup moved
  /\ UNCHANGED <<valid, world, locals>>

(* proc.wait() returns.                                                    *)
Wait(s) ==
  /\ child[s] \notin live
  /\ Goto(s, {"wait"}, "run")
  /\ child' = [child EXCEPT ![s] = None]
  /\ UNCHANGED <<valid, procs, world, seen, pids, remain, sig>>

(* An exception leaves run_external before its command has ended (Ctrl-C,  *)
(* a failing write to stdin): the command goes on, nobody waits for it.    *)
Abandon(s) ==
  /\ "exception" \in Faults
  /\ Goto(s, {"spawned", "wait"}, "run")
  /\ child' = [child EXCEPT ![s] = None]
  /\ UNCHANGED <<valid, procs, world, seen, pids, remain, sig>>

(* kill_all is entered: it returns at once without a group, else it lists  *)
(* the group for the first time.                                           *)
KillAll(s) ==
  /\ Goto(s, {"run", "killed"}, IF valid THEN "signal" ELSE "killed")
  /\ pids' = [pids EXCEPT ![s] = procs]
  /\ remain' = [remain EXCEPT ![s] = 0]
  /\ sig' = [sig EXCEPT ![s] = "TERM"]
  /\ UNCHANGED <<valid, procs, world, seen, child>>

(* One round of os.kill over the listed pids; those that have exited since *)
(* are skipped by the except clause.                                       *)
SendSignals(s) ==
  /\ Goto(s, {"signal"}, "check")
  /\ signal' = [p \in Procs |->
                  IF p \in pids[s] \cap live /\ signal[p] # "KILL"
                  THEN sig[s] ELSE signal[p]]
  /\ UNCHANGED <<valid, procs, live, started, owner, seen, locals>>

(* MUTANT of Check: the group is not listed again, the round ends kill_all *)
(* when the processes of the first list are gone.                          *)
CheckFirstList(s) ==
  /\ Goto(s, {"check"}, IF pids[s] \cap live = {} THEN "killed" ELSE "signal")
  /\ UNCHANGED <<valid, procs, world, seen, locals>>

(* MUTANT of Check: the group is listed again for the test only, so that   *)
(* the signals keep going to the first list.                               *)
CheckKeepsList(s) ==
  /\ Goto(s, {"check"}, IF procs = {} THEN "killed" ELSE "signal")
  /\ UNCHANGED <<valid, procs, world, seen, locals>>

(* The rest of the round: list again, return when the group is empty,      *)
(* otherwise escalate, give up or sleep.  Nothing ever adds to remain.     *)
Check(s) ==
  /\ Goto(s, {"check"}, IF procs = {} THEN "killed"
                        ELSE IF remain[s] >= Timeout THEN "raised"
                        ELSE "signal")
  /\ pids' = [pids EXCEPT ![s] = procs]
  /\ sig' = IF procs # {} /\ 0 < KillTime /\ KillTime <= remain[s]
            THEN [sig EXCEPT ![s] = "KILL"] ELSE sig
  /\ UNCHANGED <<valid, procs, world, seen, child, remain>>

(* cgroup.destroy(): rmdir, which the kernel refuses while the group has   *)
(* processes.                                                              *)
Destroy(s) ==
  /\ Goto(s, {"killed"}, IF valid /\ procs # {} THEN "failed" ELSE "destroyed")
  /\ valid' = (valid /\ procs # {})
  /\ UNCHANGED <<procs, world, seen, locals>>

(***************************************************************************)
(* The processes.                                                          *)
(***************************************************************************)
Fork(p, q) ==
  /\ p \in live
  /\ Start(q, owner[p], p \in procs)
  /\ UNCHANGED <<valid, pc, locals>>

Exit(p) ==
  /\ p \in live
  /\ live' = live \ {p}
  /\ procs' = procs \ {p}
  /\ UNCHANGED <<valid, started, owner, seen, signal, pc, locals>>

(* The kernel's part of a signal: the process that got one it cannot or    *)
(* does not ignore exits.                                                  *)
Dying(p) == signal[p] = "KILL" \/ (signal[p] = "TERM" /\ p \notin Stubborn)
Die(p) == Dying(p) /\ Exit(p)

Builder(s) ==
  \/ Create(s)
  \/ \E p \in Procs : Popen(s, p)
  \/ AddPid(s)
  \/ Wait(s)
  \/ Abandon(s)
  \/ KillAll(s)
  \/ SendSignals(s)
  \/ Check(s)
  \/ Destroy(s)

Process(p) == Exit(p) \/ \E q \in Procs : Fork(p, q)

Next == (\E s \in Sessions : Builder(s)) \/ (\E p \in Procs : Process(p))

Spec == Init /\ [][Next]_vars

(* kill_all never blocks, and a process that was sent a deadly signal is   *)
(* scheduled and exits.  Commands need not exit by themselves, and a       *)
(* builder need not start kill_all: only what is under way is fair.        *)
FairSpec ==
  /\ Spec
  /\ \A s \in Sessions : WF_vars(SendSignals(s)) /\ WF_vars(Check(s))
  /\ \A p \in Procs : WF_vars(Die(p))

-----------------------------------------------------------------------------
TypeOK ==
  /\ valid \in BOOLEAN
  /\ procs \subseteq live
  /\ live \subseteq started
  /\ started \subseteq Procs
  /\ seen \subseteq started
  /\ owner \in [Procs -> Sessions \cup {None}]
  /\ signal \in [Procs -> Signals]
  /\ pc \in [Sessions -> Places]
  /\ child \in [Sessions -> Procs \cup {None}]
  /\ pids \in [Sessions -> SUBSET Procs]
  /\ remain \in [Sessions -> Nat]
  /\ sig \in [Sessions -> {"TERM", "KILL"}]

(* What kill_all is relied on for by build_rootfs: once it has returned,   *)
(* every process of this builder that was ever in the group is gone, the   *)
(* daemons that were forked while the group was being emptied included.    *)
TrackedAreGone ==
  \A s \in Sessions : pc[s] \in AfterKill =>
    \A p \in live \cap seen : owner[p] # s

(* A command that is still waited for is in the group, unless the group    *)
(* does not exist: what it forks from then on is tracked too.              *)
WaitedIsTracked ==
  \A s \in Sessions :
    pc[s] = "wait" /\ child[s] \in live /\ valid => child[s] \in procs

(* kill_all ends when no process ignores SIGTERM.                          *)
KillAllReturns ==
  \A s \in Sessions : pc[s] \in {"signal", "check"} ~> pc[s] = "killed"

(* "set to SIGKILL when reached kill time", "timeoutd, throw out"          *)
(* (lib/cgroup.py:84, 88): whatever the processes do, kill_all ends.       *)
KillAllEnds ==
  \A s \in Sessions : pc[s] \in {"signal", "check"} ~> pc[s] \in {"killed", "raised"}

=============================================================================
