------------------------------ MODULE MbrLayout ------------------------------
(***************************************************************************)
(* An MBR partition table built from a configuration, on the same areas    *)
(* and by the same DiskLayoutBuilder as GptLayout                          *)
(* (builder/disk/layout/mbr).  add_partition never sets part.logical, so   *)
(* every partition of a table that was built is a primary one.             *)
(***************************************************************************)
EXTENDS Areas

CONSTANTS
    Totals,         \* sectors a disk may have, all below 2^32
    Requests,       \* entries of "partitions": the fields given, "aligned",
                    \* extended: the ptype is "extended",
                    \* logical: "yes", "no", or "unset" when the entry does not say
    MaxRequests,    \* bound: partition entries in one configuration
    AlignLba        \* align_lba, a power of two

VARIABLES
    total,          \* total_lba of the device
    partitions,     \* DiskLayoutMBR.partitions; logged is the end LBA the log states
    phase,          \* "adding", then "saved", or "failed" when an exception left build
    given           \* entries of the configuration handled so far

vars == <<total, partitions, phase, given>>

MaxPrimary == 4

-----------------------------------------------------------------------------
(* Where the partitions may lie *)

EndLba(p) == p.size + p.start - 1
ToArea(p) == Area(p.start, EndLba(p), p.size)

UsableArea(aligned) ==
    IF total <= 2 THEN NoArea
    ELSE Between(IF aligned THEN Min({AlignLba, total - 1}) ELSE 1, total - 1)

\* An extended partition takes one sector: the rest is for the logical ones.
Reserved(p) == IF p.extended THEN Area(p.start, p.start, 1) ELSE ToArea(p)
FreeAreas(aligned) ==
    LET free == FoldLeft(Splice, <<UsableArea(aligned)>>,
                         [i \in DOMAIN partitions |-> Reserved(partitions[i])])
    IN  IF UsableArea(aligned) = NoArea THEN <<>>
        ELSE IF aligned THEN AlignAll(free, AlignLba) ELSE free
FindFree(r, aligned) == Find(FreeAreas(aligned), Area(r.start, r.end, r.size))

UsedAreas ==
    LET plain == SelectSeq(partitions, LAMBDA p : ~p.extended)
    IN  Merge([i \in DOMAIN plain |-> ToArea(plain[i])])

\* An entry that does not say is logical when four partitions are there.  A
\* logical one needs an extended partition, but not to lie in it: the test is
\* whether there is a verdict on the first, not what it says.
IsLogical(r) ==
    r.logical = "yes" \/ (r.logical = "unset" /\ Len(partitions) >= MaxPrimary)
Admitted(r) ==
    IF IsLogical(r)
      THEN ~r.extended /\ \E i \in DOMAIN partitions : partitions[i].extended
      ELSE Len(partitions) < MaxPrimary

\* The entry that is made for an area: set_size_lba is given the area's end.
EntryOf(r, a) ==
    [start |-> a.start, size |-> a.end, extended |-> r.extended, logged |-> a.end]

-----------------------------------------------------------------------------
(* DiskLayoutBuilder.build *)

Init ==
    /\ total \in Totals
    /\ partitions = <<>>
    /\ phase = "adding"
    /\ given = 0

Take(r) ==
    /\ phase = "adding"
    /\ given < MaxRequests
    /\ r \in Requests
    /\ given' = given + 1
    /\ UNCHANGED total

\* parse_free_area finds an area and add_partition, which looks it up again,
\* accepts it.  The list is sorted before the new partition is appended.
Place(r) ==
    LET a == FindFree(r, r.aligned) IN
    /\ Take(r)
    /\ IsArea(a) /\ IsArea(FindFree(a, r.aligned)) /\ Admitted(r)
    /\ partitions' = Append(SortSeq(partitions, LAMBDA p, q : p.start < q.start),
                            EntryOf(r, FindFree(a, r.aligned)))
    /\ UNCHANGED phase

\* The second lookup returns None.  An entry with a "type" then fails on the
\* missing partition; one without goes unnoticed.
Drop(r) ==
    LET a == FindFree(r, r.aligned) IN
    /\ Take(r)
    /\ IsArea(a) /\ FindFree(a, r.aligned) = NoArea
    /\ phase' \in {"adding", "failed"}
    /\ UNCHANGED partitions

\* "no free area found", fields that disagree, a splice that raises, or an
\* area for a partition that is not admitted.
Refuse(r) ==
    LET a == FindFree(r, r.aligned) IN
    /\ Take(r)
    /\ ~IsArea(a) \/ (IsArea(FindFree(a, r.aligned)) /\ ~Admitted(r))
    /\ phase' = "failed"
    /\ UNCHANGED partitions

\* create_mbr and write_table refuse before the only write; with no logical
\* partition create_ebr_chains has nothing to write.
SaveRaises ==
    \/ Len(partitions) > MaxPrimary
    \/ \E i \in DOMAIN UsedAreas : IsAreaIn(UsedAreas[i], Between(0, 0))
Save ==
    /\ phase = "adding"
    /\ phase' = IF SaveRaises THEN "failed" ELSE "saved"
    /\ UNCHANGED <<total, partitions, given>>

Next ==
    \/ \E r \in Requests : Place(r)
    \/ \E r \in Requests : Drop(r)
    \/ \E r \in Requests : Refuse(r)
    \/ Save

Spec == Init /\ [][Next]_vars

-----------------------------------------------------------------------------
(* Properties *)

\* The partitions of a saved table end at the sectors their "Added ...
\* partition" messages state, however many were placed and in what order.
EndsAsLogged ==
    phase = "saved" =>
      \A i \in DOMAIN partitions : EndLba(partitions[i]) = partitions[i].logged

=============================================================================
