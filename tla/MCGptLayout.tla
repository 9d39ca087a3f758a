----------------------------- MODULE MCGptLayout -----------------------------
(* Small disks with blocks of 32 sectors and a table of 32 entries.        *)
EXTENDS GptLayout

Disk(total, lba, count) == [total |-> total, entries_lba |-> lba, entries_count |-> count]

\* An ordinary disk, one whose entries are moved, one whose entries do not
\* fill a sector, one too small for a header, and two without usable sectors.
MCDisks == {Disk(160, 2, 32), Disk(160, 20, 32), Disk(160, 2, 3), Disk(100, 2, 32),
            Disk(160, 1, 32), Disk(160, 150, 32)}

Size(n, unit) == [n |-> n, unit |-> unit]
Nothing == <<>>

\* Absent, 16, 40 and 64; absent, 31 and 90; absent, 0, 24 and 64 sectors.
MCStarts == {Nothing, [start_lba |-> 16], [offset |-> Size(40, "s")],
             [start |-> Size(40, "KiB"), offset_lba |-> 64]}
MCEnds == {Nothing, [end_lba |-> 31], [end |-> Size(91, "s")]}
MCSizes == {Nothing, [size_lba |-> 0], [length |-> Size(12000, "B")],
            [size |-> Size(1, "MiB"), length_lba |-> 64]}
MCRequests ==
    {s @@ e @@ z @@ a : s \in MCStarts, e \in MCEnds, z \in MCSizes,
                        a \in {Nothing, [aligned |-> FALSE]}}
=============================================================================
