------------------------------ MODULE MCCGroup ------------------------------
(* Instances of CGroup for TLC: one or two builders, a handful of pids.    *)
EXTENDS CGroup
=============================================================================
