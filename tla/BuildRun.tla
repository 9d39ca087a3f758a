------------------------------ MODULE BuildRun ------------------------------
(***************************************************************************)
(* What one build promises to the host it runs on, without saying how: a   *)
(* run takes and gives back resources of several kinds, and it reports     *)
(* success only with nothing left in its hands.  A run that fails, or is   *)
(* killed, may leave things behind; what is left can go away later, but    *)
(* nothing new is taken until the next run starts.                         *)
(* Bootstrap implements it.                                                *)
(***************************************************************************)
CONSTANT Kinds          \* kinds of resources

VARIABLES
  held,                 \* the kinds of which something is taken
  outcome               \* "running", "ok" or "failed"

rvars == <<held, outcome>>

Init == held \in SUBSET Kinds /\ outcome = "running"

Change == outcome = "running" /\ held' \in SUBSET Kinds /\ UNCHANGED outcome

GoAway == held' \in SUBSET held /\ UNCHANGED outcome

Succeed == outcome = "running" /\ held = {} /\ outcome' = "ok" /\ UNCHANGED held

Fail == outcome = "running" /\ outcome' = "failed" /\ held' \in SUBSET held

(* The next run, after the end of this one or in place of one that was     *)
(* killed: what it takes over it has not taken itself.                     *)
Rerun == outcome' = "running" /\ held' \in SUBSET held

Next == Change \/ GoAway \/ Succeed \/ Fail \/ Rerun

Spec == Init /\ [][Next]_rvars
=============================================================================
