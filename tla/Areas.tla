-------------------------------- MODULE Areas --------------------------------
(***************************************************************************)
(* Ranges of sectors and the lists the partition tables compute their free *)
(* space with (builder/lib/area.py).  An area has a first sector, a last   *)
(* sector and a size; a field that is not given is Absent.  A Python       *)
(* exception is the value Raised, None is NoArea.                          *)
(***************************************************************************)
EXTENDS Integers, FiniteSets, SequencesExt

Absent == -1
Area(start, end, size) == [start |-> start, end |-> end, size |-> size]

\* None, where an area was looked for, and an exception.
NoArea == Area(Absent, Absent, Absent)
Raised == Area(Absent, Absent, -2)
\* A list operation that raised.
RaisedList == <<Raised>>
IsArea(a) == a \notin {NoArea, Raised}

\* The code masks bits: align is a power of two.
RoundDown(n, align) == (n \div align) * align
RoundUp(n, align) == RoundDown(n + align - 1, align)

-----------------------------------------------------------------------------
(* One area *)

Given(a) == {f \in {"start", "end", "size"} : a[f] >= 0}

\* fixup accepts two fields, or three that agree; an empty area is accepted.
Consistent(a) ==
    /\ Cardinality(Given(a)) >= 2
    /\ {"start", "end"} \subseteq Given(a) =>
         /\ a.start <= a.end + 1
         /\ "size" \in Given(a) => a.size = a.end - a.start + 1

Complete(a) ==
    IF {"start", "end"} \subseteq Given(a) THEN [a EXCEPT !.size = a.end - a.start + 1]
    ELSE IF {"start", "size"} \subseteq Given(a) THEN [a EXCEPT !.end = a.start + a.size - 1]
    ELSE [a EXCEPT !.start = a.end - a.size + 1]

Fixup(a) == IF Consistent(a) THEN Complete(a) ELSE Raised
Between(start, end) == Fixup(Area(start, end, Absent))

Covers(pool, sector) == pool.start <= sector /\ sector <= pool.end
IsAreaIn(pool, a) ==
    Covers(pool, a.start) /\ Covers(pool, a.end) /\ a.size <= pool.size

Sectors(a) == a.start .. a.end

-----------------------------------------------------------------------------
(* A list of areas *)

\* add returns None for an empty area and leaves the list alone.
Add(areas, a) == IF a.size <= 0 THEN areas ELSE Append(areas, a)

Before(a, b) == a.start < b.start \/ (a.start = b.start /\ a.end < b.end)

\* sort: each area in its turn goes behind those that it is not before
Insert(areas, a) ==
    InsertAt(areas, Cardinality({i \in DOMAIN areas : ~Before(a, areas[i])}) + 1, a)
Sorted(areas) ==
    LET done[i \in 0 .. Len(areas)] == IF i = 0 THEN <<>> ELSE Insert(done[i - 1], areas[i])
    IN  done[Len(areas)]

\* The next area, in order, goes when it is empty, and is joined to the last one
\* when they touch.
Join(done, a) ==
    IF a.size <= 0 THEN done
    ELSE IF done # <<>> /\ done[Len(done)].end + 1 >= a.start
      THEN [done EXCEPT ![Len(done)] = Between(@.start, a.end)]
      ELSE Append(done, a)
Joined(order) ==
    LET done[i \in 0 .. Len(order)] == IF i = 0 THEN <<>> ELSE Join(done[i - 1], order[i])
    IN  done[Len(order)]
Merge(areas) == Joined(Sorted(areas))

\* MUTANT of Splice: the first sector of the range stays free.
SpliceKeepsFirst(areas, r) ==
    LET targets == {i \in DOMAIN areas : Covers(areas[i], r.start) /\ Covers(areas[i], r.end)}
        target  == areas[Min(targets)]
    IN  IF targets = {} THEN areas
        ELSE Merge(Add(Add(RemoveAt(areas, Min(targets)), Between(target.start, r.start)),
                       Between(r.end + 1, target.end)))

\* Taking a range out of the list: the range is cut to what the list spans
\* and must then lie in one area.  A range wholly outside raises.
Splice(areas, r) ==
    LET start == IF r.start < Min({a.start : a \in Range(areas)})
                   THEN Min({a.start : a \in Range(areas)}) ELSE r.start
        end   == IF r.end > Max({a.end : a \in Range(areas)})
                   THEN Max({a.end : a \in Range(areas)}) ELSE r.end
        targets == {i \in DOMAIN areas : Covers(areas[i], start) /\ Covers(areas[i], end)}
        target  == areas[Min(targets)]
    IN  IF areas = <<>> \/ areas = RaisedList THEN areas
        ELSE IF start > end + 1 THEN RaisedList
        ELSE IF targets = {} THEN areas
        ELSE Merge(Add(Add(RemoveAt(areas, Min(targets)),
                           Between(target.start, start - 1)),
                       Between(end + 1, target.end)))

\* align removes from the list it walks, so the area that follows a removed
\* one is passed over and keeps its bounds.
Aligned(a, align) ==
    LET start == RoundUp(a.start, align)
        end   == RoundDown(a.end + 1, align) - 1
    IN  Area(start, end, end - start + 1)
AlignStep(align, acc, a) ==
    LET b == Aligned(a, align) IN
    IF acc.passOver THEN [areas |-> Append(acc.areas, a), passOver |-> FALSE]
    ELSE IF b.start >= b.end \/ b.size < align THEN [acc EXCEPT !.passOver = TRUE]
    ELSE [acc EXCEPT !.areas = Append(acc.areas, b)]
AlignAll(areas, align) ==
    LET order == Sorted(areas)
        done[i \in 0 .. Len(order)] ==
            IF i = 0 THEN [areas |-> <<>>, passOver |-> FALSE]
            ELSE AlignStep(align, done[i - 1], order[i])
    IN  IF areas = RaisedList THEN areas ELSE Merge(done[Len(order)].areas)

\* find: a request with two fields names its area, which must be free; any
\* other takes the smallest free area that fits what is given, the first of
\* them in the list, and overwrites the field given.
\* MUTANT of Fits: an area of exactly the size asked for does not fit.
FitsStrictly(free, r) ==
    /\ r.start >= 0 => Covers(free, r.start)
    /\ r.end >= 0 => Covers(free, r.end)
    /\ r.size >= 0 => r.size < free.size
Fits(free, r) ==
    /\ r.start >= 0 => Covers(free, r.start)
    /\ r.end >= 0 => Covers(free, r.end)
    /\ r.size >= 0 => r.size <= free.size
\* the first of the smallest areas among those at the indices
Smallest(areas, use) ==
    areas[Min({i \in use : \A j \in use : areas[i].size <= areas[j].size})]
\* MUTANT of Overwrite: one sector more than the size asked for.
OverwriteOneMore(free, r) ==
    CASE r.start >= 0 -> Area(r.start, Absent, free.size)
      [] r.end >= 0   -> Area(Absent, r.end, free.size)
      [] r.size >= 0  -> Area(free.start, Absent, r.size + 1)
      [] OTHER        -> free
Overwrite(free, r) ==
    CASE r.start >= 0 -> Area(r.start, Absent, free.size)
      [] r.end >= 0   -> Area(Absent, r.end, free.size)
      [] r.size >= 0  -> Area(free.start, Absent, r.size)
      [] OTHER        -> free
Find(areas, r) ==
    LET use == {i \in DOMAIN areas : Fits(areas[i], r)} IN
    IF areas = RaisedList THEN Raised
    ELSE IF Cardinality(Given(r)) >= 2
      THEN IF ~Consistent(r) THEN Raised
           ELSE IF \E i \in DOMAIN areas : IsAreaIn(areas[i], Complete(r))
                  THEN Complete(r) ELSE NoArea
      ELSE IF use = {} THEN NoArea ELSE Fixup(Overwrite(Smallest(areas, use), r))
=============================================================================
