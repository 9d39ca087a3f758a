----------------------------- MODULE MCMbrLayout -----------------------------
(* A small disk with blocks of 32 sectors: primary, extended and logical   *)
(* partitions by size, by place, and unaligned.                            *)
EXTENDS MbrLayout

MCRequests ==
    [start : {Absent, 40}, end : {Absent, 90}, size : {Absent, 16, 24},
     aligned : BOOLEAN, extended : BOOLEAN, logical : {"yes", "no", "unset"}]
=============================================================================
