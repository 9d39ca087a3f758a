---------------------------- MODULE PackageWalk ----------------------------
(***************************************************************************)
(* The package names of component/pacman.py: how a name becomes packages   *)
(* (lookup_package), and how download_all walks over the dependencies      *)
(* (lookup_package_depends).  libalpm is what the code uses of it: the     *)
(* packages of a database, the members of a group, a satisfier.            *)
(*                                                                         *)
(* The recursion of lookup_package_depends is the sequence todo of what it *)
(* has still to visit, innermost call first: a name to look up, or a       *)
(* package of the loop over the packages of a name.                        *)
(***************************************************************************)
EXTENDS Naturals, Sequences, FiniteSets, SequencesExt, TLC

CONSTANTS
    AnyDb,        \* the database of a name without DATABASE/
    FileDb,       \* the "database" of a package file, *.pkg.tar.*
    Repos,      \* the databases, a sequence in the order of their priority
    Sync,       \* Sync[r]: the names of the packages of database r
    Depends,    \* Depends[p]: the names package p depends on, a sequence
    Provides,   \* Provides[p]: the names package p provides
    Groups,     \* Groups[p]: the groups of package p
    Files       \* the local package files

Named(r, n) == [db |-> r, name |-> n]
Dbs == Range(Repos)
SyncPkgs == UNION {{Named(r, n) : n \in Sync[r]} : r \in Dbs}
Pkgs == SyncPkgs \cup Files

IsSequence(s) == s \in Seq(Range(s))

ASSUME RepoAssumption ==
    /\ IsSequence(Repos) /\ IsInjective(Repos)
    /\ IsFiniteSet(SyncPkgs) /\ IsFiniteSet(Files)
    /\ AnyDb # FileDb /\ {AnyDb, FileDb} \cap Dbs = {}
    /\ \A f \in Files : f.db = FileDb
    /\ DOMAIN Depends = Pkgs /\ DOMAIN Provides = Pkgs /\ DOMAIN Groups = Pkgs
    /\ \A p \in Pkgs : IsSequence(Depends[p]) /\ \A d \in Range(Depends[p]) : d.db = AnyDb

\* the elements of s that are in T, in their order
Those(s, T) ==
    LET kept[i \in 0..Len(s)] ==
            IF i = 0 THEN <<>> ELSE IF s[i] \in T THEN Append(kept[i - 1], s[i]) ELSE kept[i - 1]
    IN  kept[Len(s)]

\* db.get_pkg(name), and the same of every database in turn
GetPkg(r, n) == IF n \in Sync[r] THEN <<Named(r, n)>> ELSE <<>>
InEveryDb(n) ==
    LET pkgs[i \in 0..Len(Repos)] == IF i = 0 THEN <<>> ELSE pkgs[i - 1] \o GetPkg(Repos[i], n)
    IN  pkgs[Len(Repos)]

\* find_grp_pkgs: the members of a group, a name only from its first database
Members(g) ==
    LET first(n) == Head(InEveryDb(n))
    IN  SetToSeq({p \in SyncPkgs : g \in Groups[p] /\ p = first(p.name)})

\* find_satisfier of one database: the package of that name, or a provider
Satisfiers(r, n) ==
    IF n \in Sync[r] THEN {Named(r, n)}
    ELSE {p \in SyncPkgs : p.db = r /\ n \in Provides[p]}
Satisfying(n) ==
    LET dbs == Those(Repos, {r \in Dbs : Satisfiers(r, n) # {}})
    IN  IF dbs = <<>> THEN <<>> ELSE <<CHOOSE p \in Satisfiers(Head(dbs), n) : TRUE>>

(***************************************************************************)
(* lookup_package: a file is itself, DATABASE/PACKAGE is looked for in its *)
(* database, a bare name is a group and a package of any database; what is *)
(* not found so is looked for among the provided names, remembered in      *)
(* package_map.  An empty result is the ValueError of the code.            *)
(***************************************************************************)
Direct(t) ==
    IF t.db = AnyDb THEN Members(t.name) \o InEveryDb(t.name)
    ELSE IF t.db \in Dbs THEN GetPkg(t.db, t.name)
    ELSE <<>>

Remember(map, n, p) == [m \in DOMAIN map \cup {n} |-> IF m = n THEN p ELSE map[m]]

Lookup(t, map) ==
    IF t.db = FileDb THEN [pkgs |-> <<t>>, map |-> map]
    ELSE IF Direct(t) # <<>> THEN [pkgs |-> Direct(t), map |-> map]
    ELSE IF t.db \notin Dbs \cup {AnyDb} THEN [pkgs |-> <<>>, map |-> map]
    ELSE IF t.name \in DOMAIN map THEN [pkgs |-> <<map[t.name]>>, map |-> map]
    ELSE LET s == Satisfying(t.name)
         IN  [pkgs |-> s, map |-> IF s = <<>> THEN map ELSE Remember(map, t.name, s[1])]

\* what a call still has to visit
Visit(kind, s) == [i \in DOMAIN s |-> [kind |-> kind, of |-> s[i]]]

\* one entry of a call, or one turn of its loop
VisitName(t, walk) ==
    LET rest == Tail(walk.todo)
        found == Lookup(t, walk.map)
    IN  IF t.db \notin {AnyDb, FileDb} /\ t \in Range(walk.tree)
        THEN [walk EXCEPT !.todo = rest]
        ELSE [walk EXCEPT !.todo = Visit("package", found.pkgs) \o rest, !.map = found.map]

\* MUTANT of VisitPackage: a known package ends the call instead of the turn
VisitPackageReturn(p, walk) ==
    LET rest == Tail(walk.todo)
        isTurn(i) == \A j \in 1..i : rest[j].kind = "package"
        turns == Cardinality({i \in DOMAIN rest : isTurn(i)})
    IN  IF p \in Range(walk.tree)
        THEN [walk EXCEPT !.todo = SubSeq(rest, turns + 1, Len(rest))]
        ELSE [walk EXCEPT !.todo = Visit("name", Depends[p]) \o rest, !.tree = Append(@, p)]

VisitPackage(p, walk) ==
    LET rest == Tail(walk.todo)
    IN  IF p \in Range(walk.tree) THEN [walk EXCEPT !.todo = rest]
        ELSE [walk EXCEPT !.todo = Visit("name", Depends[p]) \o rest, !.tree = Append(@, p)]

WalkStep(walk) ==
    LET next == Head(walk.todo)
    IN  IF next.kind = "name" THEN VisitName(next.of, walk) ELSE VisitPackage(next.of, walk)

StartWalk(names, map) == [todo |-> Visit("name", names), tree |-> <<>>, map |-> map]

\* install and download: of names that differ only in their database the first stays
FirstOfName(s) ==
    LET kept[i \in 0..Len(s)] ==
            IF i = 0 THEN <<>>
            ELSE IF \A j \in 1..(i - 1) : s[j].name # s[i].name THEN Append(kept[i - 1], s[i])
            ELSE kept[i - 1]
    IN  kept[Len(s)]

\* MUTANT of Chunk: the last package of a chunk is left out
ChunkShort(tree, i, once) ==
    LET last == Min({i + once - 2, Len(tree)})
    IN  FirstOfName(Those(SubSeq(tree, i, last), SyncPkgs))

\* download_all: at most PkgOnce packages for each call of download
Chunk(tree, i, once) ==
    LET last == Min({i + once - 1, Len(tree)})
    IN  FirstOfName(Those(SubSeq(tree, i, last), SyncPkgs))

-----------------------------------------------------------------------------
(* What the walk is for, said without a walk.                              *)

\* the packages a name stands for when nothing is remembered
Meant(t) == Range(Lookup(t, <<>>).pkgs)

\* a set of packages that needs no package outside, and the smallest one with
\* the packages of the names
IsClosed(S) == \A p \in S : \A d \in Range(Depends[p]) : Meant(d) \subseteq S
ClosedSets == {S \in SUBSET Pkgs : IsClosed(S)}
Needed(names) ==
    {p \in Pkgs : \A S \in ClosedSets : (\A t \in Range(names) : Meant(t) \subseteq S) => p \in S}

\* the package pacman itself takes for a name: of the first database that has
\* it by name, else the first that provides it
Taken(t) ==
    IF t.db # AnyDb THEN {t}
    ELSE IF InEveryDb(t.name) # <<>> THEN {Head(InEveryDb(t.name))}
    ELSE IF Members(t.name) # <<>> THEN Range(Members(t.name))
    ELSE Range(Satisfying(t.name))

Satisfied(t, S) == \E p \in S : t.name = p.name \/ t.name \in Provides[p]

\* what pacman installs for the names: they, and what they need that is not there
Transaction(names, installed) ==
    LET asked == UNION {Taken(t) : t \in Range(names)}
        missing(S) == {d \in UNION {Range(Depends[p]) : p \in S} : ~Satisfied(d, installed \cup asked)}
        within[i \in 0..Cardinality(Pkgs)] ==
            IF i = 0 THEN asked
            ELSE LET known == within[i - 1]
                 IN  known \cup UNION {Taken(d) : d \in missing(known)}
    IN  within[Cardinality(Pkgs)]

=============================================================================
