------------------------------- MODULE Pacman -------------------------------
(***************************************************************************)
(* The packages of the root file system: component/pacman.py and           *)
(* build/pacman.py in the order of build_rootfs, over several runs of the  *)
(* builder in one workspace.  A run starts from what the earlier ones left *)
(* there: the keyring, the package cache and the installed packages.       *)
(*                                                                         *)
(* Everything outside may fail: gpg (PacmanKey), an update of a database,  *)
(* a download, which may have fetched some of its packages, pacman itself. *)
(* A run that raises and a run that is killed stop at the same place, with *)
(* the same things in the workspace.                                       *)
(***************************************************************************)
EXTENDS PackageWalk, PacmanKey

CONSTANTS
    RepoEntries,    \* pacman.repo: for each entry, a function from the keys it gives
    FileName,       \* FileName[p]: the archive of a package, the same for equal versions
    KeyringOf,      \* KeyringOf[n]: the keyring in the packages called n, an n that ends in -keyring
    Trust, Install, Uninstall, Replaces,    \* pacman.trust, .install, .uninstall, .replaces
    RetryCount,     \* ctx.retry_count
    PkgOnce,        \* the pkg_once of download_all
    MaxRuns         \* bound: runs of the builder in this workspace

-----------------------------------------------------------------------------
(* init_repos.  A URL is a model value; a mirrorlist is "remote" (a URL),  *)
(* "default", "path" (an absolute one), "ours" or "others" (a list of      *)
(* distributions with or without ours), or "unknown".                      *)

\* An entry that init_repos takes.  It reads the key "server" in both spellings,
\* so one that gives "servers" alone raises.
IsValid(e) ==
    /\ "name" \in DOMAIN e /\ e.name # "local"
    /\ "publickey" \in DOMAIN e => "keyid" \in DOMAIN e
    /\ "server" \in DOMAIN e

PacmanRepo(e) ==
    LET given(key, default) == IF key \in DOMAIN e THEN e[key] ELSE default
    IN  [name |-> e.name, priority |-> given("priority", 10000),
         mirrorlist |-> given("mirrorlist", "none"),
         publickey |-> "publickey" \in DOMAIN e, keyid |-> given("keyid", "none")]

\* add_repo: the list is sorted by priority after each append, equal ones stay in order
AddRepo(repos, repo) ==
    LET before == {i \in DOMAIN repos : repos[i].priority <= repo.priority}
    IN  InsertAt(repos, Cardinality(before) + 1, repo)

RepoConfig ==
    LET added[i \in 0..Len(RepoEntries)] ==
            IF i = 0 THEN <<>> ELSE AddRepo(added[i - 1], PacmanRepo(RepoEntries[i]))
    IN  added[Len(RepoEntries)]

\* append_repos for the root file system: what the section of a repository has
Section(repo) ==
    CASE repo.mirrorlist \in {"remote", "default", "path", "ours"} -> "include"
      [] repo.mirrorlist \in {"none", "others"} -> "servers"
      [] OTHER -> "raises"

AllValid == \A e \in Range(RepoEntries) : IsValid(e)

ASSUME PacmanAssumption ==
    /\ IsSequence(RepoEntries)
    /\ \A e \in Range(RepoEntries) :
          /\ "priority" \in DOMAIN e => e.priority \in Int
          /\ "keyid" \in DOMAIN e => e.keyid \in Keys
    /\ AllValid => Repos = [i \in DOMAIN RepoConfig |-> RepoConfig[i].name]
    /\ RetryCount \in Nat /\ PkgOnce \in Nat \ {0} /\ MaxRuns \in Nat \ {0}

\* the keys are known, the package files that the configuration names exist
ASSUME ConfigAssumption ==
    /\ Trust \in Seq(Keys)
    /\ \A n \in DOMAIN KeyringOf :
          /\ KeyringOf[n].keys \subseteq Keys
          /\ KeyringOf[n].trusted \in Seq(Keys) /\ KeyringOf[n].revoked \in Seq(Keys)
    /\ IsSequence(Install) /\ IsSequence(Replaces)
    /\ \A t \in Range(Install) \cup {Replaces[i].new : i \in DOMAIN Replaces} :
          t.db = FileDb => t \in Files

VARIABLES
    ring,           \* the keyring in the root file system
    cache,          \* the archives in the package caches
    installed,      \* the packages in the root file system
    pc,             \* where the run is
    at,             \* the turn of the loop it is in
    tries,          \* failed attempts of this turn
    walk,           \* download_all's walk, and package_map
    job,            \* 0: install_all, i: the i-th of the replaces
    part,           \* of install: "sync", then "local"
    gpgcheck,       \* this run was started without --no-gpgcheck
    runs

vars == <<ring, cache, installed, pc, at, tries, walk, job, part, gpgcheck, runs>>
options == <<gpgcheck, runs>>
rootfs == <<ring, cache, installed>>

Keyrings == Those(Install, {t \in Range(Install) : t.name \in DOMAIN KeyringOf})
Names(j) == IF j = 0 THEN Install ELSE <<Replaces[j].new>>
LocalFiles(j) == Those(Names(j), {t \in Range(Names(j)) : t.db = FileDb})
DlPkgs(j) == FirstOfName(Those(Names(j), {t \in Range(Names(j)) : t.db # FileDb}))
Wanted == IF part = "sync" THEN DlPkgs(job) ELSE LocalFiles(job)
Archives(S) == {FileName[p] : p \in S}

NoWalk == StartWalk(<<>>, <<>>)

Init ==
    /\ ring = NoRing /\ cache = {} /\ installed = {}
    /\ pc = "keyring" /\ at = 1 /\ tries = 0
    /\ walk = NoWalk /\ job = 0 /\ part = "sync"
    /\ gpgcheck \in BOOLEAN /\ runs = 1

Goto(p) == pc' = p /\ at' = 1 /\ tries' = 0
Fail == Goto("failed")

\* the outcome of an operation on the keyring, and where the run goes from there
Keyring(outcomes, next) ==
    \E o \in outcomes :
        /\ ring' = o.ring
        /\ IF o.ok THEN next ELSE Fail

\* __init__, where an entry that is not valid raises, and init_keyring
DoInitKeyring ==
    /\ pc = "keyring"
    /\ Keyring(IF ~AllValid THEN Raises(ring)
               ELSE IF gpgcheck THEN InitKeyring(ring, RepoConfig)
               ELSE Returns(ring), Goto("trust"))
    /\ UNCHANGED <<cache, installed, walk, job, part, options>>

\* trust_all, before the databases (what fails there is ignored) and after the keyrings
DoTrustAll ==
    /\ pc \in {"trust", "trustagain"}
    /\ Keyring(IF gpgcheck THEN TrustAll(ring, Trust, pc = "trust") ELSE Returns(ring),
               Goto(IF pc = "trust" THEN "databases" ELSE "install"))
    /\ UNCHANGED <<cache, installed, walk, job, part, options>>

\* MUTANT of Retry: the count starts again where it should raise
RetryForever ==
    /\ tries' = IF tries < RetryCount THEN tries + 1 ELSE 0
    /\ UNCHANGED <<pc, at>>

\* the except clauses of load_databases and download
Retry ==
    IF tries < RetryCount THEN tries' = tries + 1 /\ UNCHANGED <<pc, at>> ELSE Fail

\* load_databases: one attempt to update one database
UpdateDatabase ==
    /\ pc = "databases" /\ at <= Len(Repos)
    /\ \/ at' = at + 1 /\ tries' = 0 /\ pc' = pc
       \/ Retry
    /\ UNCHANGED <<rootfs, walk, job, part, options>>

\* load_databases: init_config, refresh
Refresh ==
    /\ pc = "databases" /\ at > Len(Repos)
    /\ \/ Goto(IF gpgcheck /\ Keyrings # <<>> THEN "keyrings" ELSE "trustagain")
       \/ Fail
    /\ UNCHANGED <<rootfs, walk, job, part, options>>

\* one attempt to download: all archives arrive, or some do and the attempt failed
Fetch(archives, next) ==
    \/ cache' = cache \cup archives /\ next
    \/ \E some \in SUBSET archives : cache' = cache \cup some /\ Retry

\* install_all_keyring: download without signature checks
DownloadKeyrings ==
    /\ pc = "keyrings"
    /\ Fetch(Archives(UNION {Taken(t) : t \in Range(FirstOfName(Keyrings))}), Goto("populate"))
    /\ UNCHANGED <<ring, installed, walk, job, part, options>>

\* trust_keyring_pkg: the archive must be in a cache
TrustKeyringPkg(r, p) ==
    IF FileName[p] \notin cache THEN Raises(r)
    ELSE IF p.name \in DOMAIN KeyringOf THEN Populate(r, KeyringOf[p.name])
    ELSE Returns(r)

\* add_trust_keyring_pkg: every package of the next name
TrustKeyring ==
    /\ pc = "populate"
    /\ LET found == Lookup(Keyrings[at], walk.map)
       IN  /\ Keyring(IF found.pkgs = <<>> THEN Raises(ring)
                      ELSE ForEach(TrustKeyringPkg, ring, found.pkgs),
                      IF at < Len(Keyrings) THEN at' = at + 1 /\ UNCHANGED <<pc, tries>>
                      ELSE Goto("trustagain"))
           /\ walk' = [walk EXCEPT !.map = found.map]
    /\ UNCHANGED <<cache, installed, job, part, options>>

\* MUTANT of AfterInstall: the removals are forgotten
AfterInstallReplace == "replace"

\* after install: the next of proc_pacman
AfterInstall == IF job = 0 THEN "uninstall" ELSE "replace"

\* install: the packages from the databases first, then the local files
StartInstall ==
    /\ pc = "install"
    /\ IF Wanted = <<>>
       THEN /\ IF part = "sync" THEN part' = "local" /\ UNCHANGED <<pc, at, tries>>
               ELSE part' = "sync" /\ Goto(AfterInstall)
            /\ walk' = walk
       ELSE Goto("walk") /\ walk' = StartWalk(Wanted, walk.map) /\ part' = part
    /\ UNCHANGED <<rootfs, job, options>>

\* download_all: lookup_package_depends
Walk ==
    /\ pc = "walk" /\ walk.todo # <<>>
    /\ walk' = WalkStep(walk)
    /\ UNCHANGED <<rootfs, pc, at, tries, job, part, options>>

WalkDone ==
    /\ pc = "walk" /\ walk.todo = <<>>
    /\ Goto("download")
    /\ UNCHANGED <<rootfs, walk, job, part, options>>

\* download_all: one attempt at the next PkgOnce packages; the databases were
\* refreshed, so download has its core.db
Download ==
    /\ pc = "download" /\ at <= Len(walk.tree)
    /\ LET pkgs == Range(Chunk(walk.tree, at, PkgOnce))
           next == at' = at + PkgOnce /\ tries' = 0 /\ pc' = pc
       IN  IF pkgs = {} THEN next /\ cache' = cache ELSE Fetch(Archives(pkgs), next)
    /\ UNCHANGED <<ring, installed, walk, job, part, options>>

\* pacman --sync, pacman --upgrade: all or nothing; what is not in a cache is fetched
Pacman ==
    /\ pc = "download" /\ at > Len(walk.tree)
    /\ \/ Fail /\ UNCHANGED <<cache, installed, part>>
       \/ LET new == Transaction(Wanted, installed)
              kept == {p \in installed : \A q \in new : q.name # p.name}
          IN  /\ installed' = kept \cup new
              /\ cache' = cache \cup Archives(new \ Files)
              /\ part' = IF part = "sync" THEN "local" ELSE "sync"
              /\ Goto(IF part = "sync" THEN "install" ELSE AfterInstall)
    /\ UNCHANGED <<ring, walk, job, options>>

Present(t) == {p \in installed : p.name = t.name}

\* uninstall_all: pacman --remove knows no package that is not installed
UninstallAll ==
    /\ pc = "uninstall"
    /\ LET gone == UNION {Present(t) : t \in Range(Uninstall)}
       IN  \/ /\ \A t \in Range(Uninstall) : Present(t) # {}
              /\ installed' = installed \ gone /\ Goto("replace")
           \/ Uninstall # <<>> /\ Fail /\ installed' = installed
    /\ UNCHANGED <<ring, cache, walk, job, part, options>>

\* replace_all, replace: a failed removal is only reported
ReplaceNext ==
    /\ pc = "replace" /\ job < Len(Replaces)
    /\ job' = job + 1
    /\ installed' \in {installed, installed \ Present(Replaces[job + 1].old)}
    /\ Goto("install")
    /\ UNCHANGED <<ring, cache, walk, part, options>>

\* gen_config, gen_mirrorlist: a mirrorlist that is not known is met only here
Finish ==
    /\ pc = "replace" /\ job = Len(Replaces)
    /\ IF \E repo \in Range(RepoConfig) : Section(repo) = "raises" THEN Fail ELSE Goto("done")
    /\ UNCHANGED <<rootfs, walk, job, part, options>>

Ended == pc \in {"done", "failed"}

\* the builder is killed between two of its calls
Kill ==
    /\ ~Ended
    /\ Fail
    /\ UNCHANGED <<rootfs, walk, job, part, options>>

\* the builder is started again in this workspace, without --clean
RunAgain ==
    /\ Ended /\ runs < MaxRuns
    /\ Goto("keyring") /\ walk' = NoWalk /\ job' = 0 /\ part' = "sync"
    /\ gpgcheck' \in BOOLEAN /\ runs' = runs + 1
    /\ UNCHANGED rootfs

NoMoreRuns == Ended /\ runs = MaxRuns /\ UNCHANGED vars

Step ==
    \/ DoInitKeyring \/ DoTrustAll \/ UpdateDatabase \/ Refresh
    \/ DownloadKeyrings \/ TrustKeyring
    \/ StartInstall \/ Walk \/ WalkDone \/ Download \/ Pacman
    \/ UninstallAll \/ ReplaceNext \/ Finish

Next == Step \/ Kill \/ RunAgain \/ NoMoreRuns

\* the builder is one thread and every command it waits for ends
Spec == Init /\ [][Next]_vars /\ WF_vars(Step)

-----------------------------------------------------------------------------
Walked == pc = "download" \/ (pc = "walk" /\ walk.todo = <<>>)

NeededBy == [j \in 0..Len(Replaces) |->
    [p \in {"sync", "local"} |-> Needed(IF p = "sync" THEN DlPkgs(j) ELSE LocalFiles(j))]]

\* The walk over the dependencies ends with every package the names need and
\* no other, each once, however the names go round in circles, are provided or
\* are in several databases, and whatever package_map remembers of an earlier
\* walk (lookup_package_depends, lookup_package).
WalkIsClosure ==
    Walked => /\ Range(walk.tree) = NeededBy[job][part]
              /\ IsInjective(walk.tree)

\* What a configuration is to respect so that it finds the cache complete and has its
\* packages in the end: what it names with a database is there,
Asked == Range(Install) \cup {Replaces[i].new : i \in DOMAIN Replaces}
NamesExist == \A t \in Asked : t.db # AnyDb => t \in Pkgs

\* it and the packages that provide a name are as new as in the first database with
\* their name,
SameAsFirst(p) == FileName[p] = FileName[Head(InEveryDb(p.name))]
OneVersion == \A p \in SyncPkgs : Provides[p] # {} \/ p \in Asked => SameAsFirst(p)

\* a replacement is a package, which no later one replaces,
ReplacementsStay == \A i \in DOMAIN Replaces :
    /\ \E p \in Taken(Replaces[i].new) : p.name = Replaces[i].new.name
    /\ \A j \in DOMAIN Replaces : j > i => Replaces[j].old.name # Replaces[i].new.name

\* and needs nothing that is to be removed
NothingComesBack == \A i \in DOMAIN Replaces :
    \A p \in Needed(<<Replaces[i].new>>) : \A t \in Range(Uninstall) : p.name # t.name

\* When pacman starts to install, every archive of its transaction is in the
\* cache already: the downloads, with their retries and with the names that are
\* left out as duplicates, have fetched what pacman itself will choose
\* (download_all, download, install); for NamesExist and OneVersion.
SyncFindsCache ==
    pc = "download" /\ at > Len(walk.tree)
        => Archives(Transaction(Wanted, installed) \ Files) \subseteq cache

Trusted(p) == IF p.name \in DOMAIN KeyringOf THEN Range(KeyringOf[p.name].trusted) ELSE {}

\* No package is installed before the keys that the configuration trusts and
\* those of every package of its keyrings' names are signed, whatever failed on
\* the way and whatever an earlier run left (trust_all, add_trust_keyring_pkg).
TrustedBeforeInstall ==
    gpgcheck /\ pc \in {"install", "walk", "download", "uninstall", "replace", "done"} =>
        /\ Range(Trust) \subseteq ring.signed
        /\ \A t \in Range(Keyrings) : \A p \in Meant(t) : Trusted(p) \subseteq ring.signed

\* After a run that succeeds the installed packages are those of the
\* configuration: what is to be installed or to replace another is there, what
\* is to be removed is not, also when an earlier run left it (proc_pacman); for
\* NamesExist, ReplacementsStay and NothingComesBack.
PackagesAsConfigured ==
    pc = "done" =>
        /\ \A t \in Range(Install) : \A p \in Taken(t) :
              \/ Present(p) # {}
              \/ \E u \in Range(Uninstall) : u.name = p.name
              \/ \E i \in DOMAIN Replaces : Replaces[i].old.name = p.name
        /\ \A t \in Range(Uninstall) : Present(t) = {}
        /\ \A i \in DOMAIN Replaces : Satisfied(Replaces[i].new, installed)

\* Every run ends: retries are counted and the walk does not go in circles
\* (load_databases, download, lookup_package_depends).
PacmanEnds == pc = "keyring" ~> Ended

=============================================================================
