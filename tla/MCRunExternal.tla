---------------------------- MODULE MCRunExternal ---------------------------
(* Pipes of two units, with arguments and outputs that do and do not fit.  *)
EXTENDS RunExternal
=============================================================================
