------------------------------ MODULE GptLayout ------------------------------
(***************************************************************************)
(* A GUID partition table built from a configuration: DiskLayoutBuilder    *)
(* creates the table, adds one partition per entry of "partitions" and     *)
(* saves it (builder/disk/layout).  A request is an entry: a function from *)
(* the keys that are given.  A key that ends in _lba has a number of       *)
(* sectors, "aligned" a Boolean, the others a size [n, unit].              *)
(***************************************************************************)
EXTENDS Areas

CONSTANTS
    Disks,          \* what set_from may leave: [total, entries_lba, entries_count]
    Requests,       \* the partition entries of a configuration
    MaxRequests,    \* bound: partition entries in one configuration
    AlignLba,       \* align_lba: DiskIO.align in sectors
    SectorSize,     \* bytes in a sector
    EntrySize,      \* bytes of an EfiPartEntry
    MinLba          \* create_gpt_head refuses a smaller disk

\* The spellings of the fields of an entry, a later one before an earlier one.
StartKeys == <<"start", "offset", "start_lba", "offset_lba">>
EndKeys == <<"end", "end_lba">>
SizeKeys == <<"size", "length", "size_lba", "length_lba">>
BytesKeys == {"start", "offset", "end", "size", "length"}
LbaKeys == {"start_lba", "offset_lba", "end_lba", "size_lba", "length_lba"}
Units == {"B", "KiB", "MiB", "s"}

\* DiskIO.align is 1 MiB, and a sector is smaller.
ASSUME GptAssumption ==
    /\ Disks \subseteq [total : Nat, entries_lba : Nat, entries_count : Nat]
    /\ \A r \in Requests :
         /\ \A key \in DOMAIN r \cap BytesKeys : r[key].n \in Int /\ r[key].unit \in Units
         /\ \A key \in DOMAIN r \cap LbaKeys : r[key] \in Int
         /\ "aligned" \in DOMAIN r => r.aligned \in BOOLEAN
    /\ MaxRequests \in Nat
    /\ AlignLba \in Nat /\ AlignLba > 1 /\ \E k \in 1 .. 20 : AlignLba = 2 ^ k
    /\ SectorSize \in Nat \ {0} /\ EntrySize \in Nat \ {0}
    /\ MinLba \in Nat

VARIABLES
    disk,           \* the device and the fields of the table
    partitions,     \* DiskLayoutGPT.partitions, each with the request it came from
    phase,          \* "adding", then "saved", or "failed" when an exception left build
    given,          \* entries of the configuration handled so far
    dropped,        \* requests for which add_partition returned None unnoticed
    refused         \* {r} when "no free area found" for r ended the build, else {}

vars == <<disk, partitions, phase, given, dropped, refused>>

-----------------------------------------------------------------------------
(* Where the table and the partitions may lie *)

EntriesSize == disk.entries_count * EntrySize
EntriesSectors == EntriesSize \div SectorSize
BackupEntriesLba == disk.total - EntriesSectors - 1

\* The sectors the five writes of write_header go to.
TableAreas ==
    LET at(lba, sectors) == Fixup(Area(lba, Absent, sectors)) IN
    {at(0, 1), at(1, 1), at(disk.total - 1, 1),
     at(disk.entries_lba, EntriesSectors), at(BackupEntriesLba, EntriesSectors)}

\* MUTANT of UsableArea: the last usable sector is the first of the backup entries.
UsableToBackup(aligned) ==
    LET last == IF aligned THEN RoundDown(BackupEntriesLba, AlignLba) ELSE BackupEntriesLba
        low  == disk.entries_lba + EntriesSectors + 1
    IN  IF disk.entries_lba < 2 \/ disk.entries_count <= 0 THEN NoArea
        ELSE Between(IF aligned THEN RoundUp(low, AlignLba) ELSE low, last)
UsableArea(aligned) ==
    LET last  == IF aligned THEN RoundDown(BackupEntriesLba, AlignLba) ELSE BackupEntriesLba
        first == disk.entries_lba + EntriesSectors + 1
        low   == IF \A i \in DOMAIN partitions : first <= partitions[i].start
                   THEN first ELSE 2
    IN  IF disk.entries_lba < 2 \/ disk.entries_count <= 0 THEN NoArea
        ELSE Between(IF aligned THEN RoundUp(low, AlignLba) ELSE low, last - 1)

ToArea(p) == Area(p.start, p.end, p.end - p.start + 1)
UsedAreas == Merge([i \in DOMAIN partitions |-> ToArea(partitions[i])])

\* the usable area without the partitions, taken out one after the other
Spliced(usable) ==
    LET free[i \in 0 .. Len(partitions)] ==
            IF i = 0 THEN <<usable>> ELSE Splice(free[i - 1], ToArea(partitions[i]))
    IN  free[Len(partitions)]
FreeAreas(aligned) ==
    LET usable == UsableArea(aligned)
    IN  IF usable = NoArea \/ usable.size = 0 THEN <<>>
        ELSE IF usable = Raised THEN RaisedList
        ELSE IF aligned THEN AlignAll(Spliced(usable), AlignLba) ELSE Spliced(usable)

\* MUTANT of FindFree: the lookup does not pass "aligned" on.
FindFreeUnaligned(area, aligned) == Find(FreeAreas(FALSE), area)
FindFree(area, aligned) == Find(FreeAreas(aligned), area)

-----------------------------------------------------------------------------
(* An entry of the configuration *)

\* size_to_bytes: a bare number is bytes, the unit of a text its longest suffix
UnitBytes == [B |-> 1, KiB |-> 1024, MiB |-> 1048576, s |-> SectorSize]
SizeToSectors(v) == (v.n * UnitBytes[v.unit] + SectorSize - 1) \div SectorSize

\* Of the spellings of a field the last one counts.  An "end" is the first byte
\* behind the partition, an "end_lba" its last sector.
ParseArea(r) ==
    LET value(key) ==
            CASE key = "end"       -> SizeToSectors(r[key]) - 1
              [] key \in LbaKeys   -> r[key]
              [] OTHER             -> SizeToSectors(r[key])
        field(keys) ==
            LET found == {i \in 1 .. Len(keys) : keys[i] \in DOMAIN r}
            IN  IF found = {} THEN Absent ELSE value(keys[Max(found)])
    IN  Area(field(StartKeys), field(EndKeys), field(SizeKeys))

IsAligned(r) == "aligned" \in DOMAIN r => r.aligned

\* parse_free_area
FreeFor(r) == FindFree(ParseArea(r), IsAligned(r))

\* resort_partitions: by start, equal ones stay in order
InsertByStart(parts, p) ==
    InsertAt(parts, Cardinality({i \in DOMAIN parts : parts[i].start <= p.start}) + 1, p)
Resorted(parts) ==
    LET done[i \in 0 .. Len(parts)] ==
            IF i = 0 THEN <<>> ELSE InsertByStart(done[i - 1], parts[i])
    IN  done[Len(parts)]

-----------------------------------------------------------------------------
(* DiskLayoutBuilder.build *)

Init ==
    /\ disk \in Disks
    /\ partitions = <<>>
    /\ phase = "adding"
    /\ given = 0
    /\ dropped = {}
    /\ refused = {}

Take(r) ==
    /\ phase = "adding"
    /\ given < MaxRequests
    /\ r \in Requests
    /\ given' = given + 1
    /\ UNCHANGED disk

\* parse_free_area finds an area and add_partition, which looks it up again,
\* accepts it.  The list is sorted before the new partition is appended.
Place(r) ==
    LET a == FreeFor(r) IN
    /\ Take(r)
    /\ IsArea(a) /\ IsArea(FindFree(a, IsAligned(r)))
    /\ LET area == FindFree(a, IsAligned(r))
       IN  partitions' = Append(Resorted(partitions),
                                [start |-> area.start, end |-> area.end, aligned |-> IsAligned(r)])
    /\ UNCHANGED <<phase, dropped, refused>>

\* The second lookup returns None.  An entry with a "type" then fails on the
\* missing partition; one without goes unnoticed.
Drop(r) ==
    LET a == FreeFor(r) IN
    /\ Take(r)
    /\ IsArea(a) /\ FindFree(a, IsAligned(r)) = NoArea
    /\ \/ phase' = "failed" /\ UNCHANGED dropped
       \/ dropped' = dropped \cup {r} /\ UNCHANGED phase
    /\ UNCHANGED <<partitions, refused>>

\* "no free area found"
Refuse(r) ==
    /\ Take(r)
    /\ FreeFor(r) = NoArea
    /\ phase' = "failed"
    /\ refused' = {r}
    /\ UNCHANGED <<partitions, dropped>>

\* An exception: fields that disagree, a splice that raises, or, once there is
\* an area for it, a "ptype" that is not known.
Break(r) ==
    LET a == FreeFor(r) IN
    /\ Take(r)
    /\ a = Raised \/ (IsArea(a) /\ IsArea(FindFree(a, IsAligned(r))))
    /\ phase' = "failed"
    /\ UNCHANGED <<partitions, dropped, refused>>

\* create_gpt_entries, create_gpt_head and write_table refuse before the
\* first write, or write all five tables.
SaveRaises ==
    \/ Len(partitions) > disk.entries_count
    \/ disk.total < MinLba
    \/ EntriesSize % SectorSize # 0
    \/ ~IsArea(UsableArea(TRUE))
    \/ \E t \in TableAreas, i \in DOMAIN UsedAreas : IsAreaIn(UsedAreas[i], t)
Save ==
    /\ phase = "adding"
    /\ phase' = IF SaveRaises THEN "failed" ELSE "saved"
    /\ UNCHANGED <<disk, partitions, given, dropped, refused>>

Next ==
    \/ \E r \in Requests : Place(r)
    \/ \E r \in Requests : Drop(r)
    \/ \E r \in Requests : Refuse(r)
    \/ \E r \in Requests : Break(r)
    \/ Save

Spec == Init /\ [][Next]_vars

-----------------------------------------------------------------------------
(* Properties *)

InUse == UNION {Sectors(partitions[i]) : i \in DOMAIN partitions}
NoneEmpty == \A i \in DOMAIN partitions : Sectors(partitions[i]) # {}

\* No two partitions share a sector, and no sector of a partition is one that
\* write_header writes (write_table itself only refuses a table that lies
\* wholly inside a partition).
NothingOverlaps ==
    \A i \in DOMAIN partitions :
        /\ \A j \in DOMAIN partitions \ {i} :
             Sectors(partitions[i]) \cap Sectors(partitions[j]) = {}
        /\ \A t \in TableAreas : Sectors(partitions[i]) \cap Sectors(t) = {}
        /\ Sectors(partitions[i]) \subseteq 0 .. disk.total - 1

\* The unaligned free areas are the usable sectors no partition holds, as
\* maximal runs in order: splice and merge lose none and leave none in use.
\* (An entry may name an empty area; splice raises for such a partition when
\* the free areas all start behind it.)
FreeIsComplement ==
    LET usable == UsableArea(FALSE)
        free   == FreeAreas(FALSE)
    IN  IsArea(usable) /\ NoneEmpty =>
          /\ UNION {Sectors(free[i]) : i \in DOMAIN free} = Sectors(usable) \ InUse
          /\ \A i \in DOMAIN free : i > 1 => free[i - 1].end + 1 < free[i].start

\* Every aligned partition of a saved table lies between the first and the
\* last usable sector the header states, although the header's range is
\* computed after the partitions were placed.
HeaderCoversPartitions ==
    phase = "saved" =>
      \A i \in DOMAIN partitions :
        partitions[i].aligned => Sectors(partitions[i]) \subseteq Sectors(UsableArea(TRUE))

\* "No free area found" for an aligned entry that gives only a size means that
\* no run of free aligned blocks could hold it, whatever lies in the table.
RoomMeansPlaced ==
    LET usable   == UsableArea(TRUE)
        block(k) == k * AlignLba .. (k + 1) * AlignLba - 1
        Holds(k, size) == UNION {block(i) : i \in k .. k - 1 + RoundUp(size, AlignLba) \div AlignLba}
                            \subseteq Sectors(usable) \ InUse
    IN  \A r \in refused :
          LET a == ParseArea(r) IN
          IsAligned(r) /\ Given(a) = {"size"} /\ a.size > 0 /\ IsArea(usable) =>
            \A k \in 0 .. disk.total \div AlignLba : ~Holds(k, a.size)

\* An entry is dropped unnoticed only when it gives a start or an end alone, or
\* asks for no sectors: the two lookups never disagree about any other.
DropsAreUnderspecified ==
    \A r \in dropped :
        LET a == ParseArea(r) IN Given(a) \in {{"start"}, {"end"}} \/ a.size = 0

=============================================================================
