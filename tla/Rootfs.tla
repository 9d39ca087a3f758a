------------------------------- MODULE Rootfs -------------------------------
(***************************************************************************)
(* The contents of the root file system beside its packages: users, files  *)
(* and scripts of the configuration, units, locale, names, initramfs, in   *)
(* the order of build_rootfs and over several runs of the builder in one   *)
(* workspace, with a configuration that may have changed between them.     *)
(*                                                                         *)
(* Every command may fail and the builder may be killed between two of its *)
(* calls.  Both leave the root file system as it is to the next run, which *)
(* starts from the top again.                                              *)
(***************************************************************************)
EXTENDS Naturals, Sequences, FiniteSets, SequencesExt

CONSTANTS
    Configurations, \* the versions of the configuration, a sequence of records
    Packaged,       \* the generated files that a package owns
    Allowed,        \* the paths check_allowed accepts
    SkelFile,       \* a path below /etc/skel
    Zones,          \* the time zones of the root file system
    HostZones,      \* those of the host
    HostPaths,      \* the directories of the host
    Presets,        \* Presets[f]: the images of mkinitcpio.d/f, "default" and maybe "fallback"
    MaxRuns         \* bound: runs of the builder in this workspace

IsSequence(s) == s \in Seq(Range(s))

ASSUME RootfsAssumption ==
    /\ Configurations # <<>> /\ MaxRuns \in Nat \ {0}
    /\ IsSequence(Configurations)
    /\ \A c \in Range(Configurations) :
          /\ IsSequence(c.files) /\ IsSequence(c.scripts) /\ IsSequence(c.groups)
          /\ IsSequence(c.users) /\ IsSequence(c.remove)
    /\ \A f \in DOMAIN Presets : "default" \in DOMAIN Presets[f]

VARIABLES
    etc, dist,      \* the files, and their .dist
    owner,          \* the owners of the files of the configuration
    users, groups,  \* etc/passwd, in its order, and etc/group
    passwd,         \* ctx.passwd: what was loaded of etc/passwd
    units, target,  \* the enabled units, the default target
    archive, localtime,     \* locale-archive, by its configuration, and the time zone
    host,           \* the directories of the host
    hook, bak,      \* the autodetect hook of mkinitcpio, and its .bak
    images,         \* the initramfs images: the run that made them, with which hook
    installed,      \* history: the hook pacman installed last, and whether over a .bak
    cfg,            \* the configuration of this run
    pc, sub,        \* the step of its program, and a part of this step
    preset, left,   \* the preset of mkinitcpio it works on, and those left
    runs

tree == <<etc, dist, owner>>
accounts == <<users, groups, passwd>>
system == <<units, target, archive, localtime, host>>
initramfs == <<hook, bak, images, installed>>
run == <<cfg, runs>>
vars == <<tree, accounts, system, initramfs, run, pc, sub, preset, left>>

C == Configurations[cfg]

-----------------------------------------------------------------------------
\* What a run does, in order.
Each(op, args) == [i \in DOMAIN args |-> [op |-> op, arg |-> args[i]]]
Once(op) == <<[op |-> op, arg |-> <<>>]>>
If(condition, steps) == IF condition THEN steps ELSE <<>>

\* add_files_all, run_scripts: an item of another stage is passed over, which
\* leaves the same order whether it is done before or after the sort
Pass(op, items, stage) ==
    [i \in DOMAIN items |-> [op |-> IF items[i].stage = stage THEN op ELSE "continue", arg |-> items[i]]]

\* sort(key = priority), which is stable
ByPriority(scripts) ==
    LET before(i, j) == \/ scripts[i].priority < scripts[j].priority
                        \/ (scripts[i].priority = scripts[j].priority /\ i < j)
        place(j) == Cardinality({i \in DOMAIN scripts : before(i, j)}) + 1
    IN  [k \in DOMAIN scripts |-> scripts[CHOOSE j \in DOMAIN scripts : place(j) = k]]

Hooks(c, stage) == Pass("file", c.files, stage) \o Pass("script", ByPriority(c.scripts), stage)

ProcUsergroup(c) == Each("group", c.groups) \o Each("user", c.users)
ProcFilesystem(c) == Pass("file", c.files, "build") \o Each("remove", c.remove)
ProcSystemd(c) ==
    If(c.enable # {}, Once("enable")) \o If(c.disable # {}, Once("disable"))
        \o If(c.default # "none", Once("default"))
ProcLocale == Once("reset_locale") \o Each("open_config", <<"locale.gen">>) \o Once("locale-gen")
    \o Each("open_config", <<"locale.conf">>) \o Once("timezone") \o Each("write", <<"timezone">>)
ProcNames(c) ==
    Each("open_config", <<"machine-info", "environment">>) \o Each("write", <<"environment.conf">>)
        \o If(c.hostname, Each("open_config", <<"hostname">>)) \o Each("open_config", <<"hosts">>)
GenMkinitcpio == Each("open_config", <<"mkinitcpio.conf">>)
ProcMkinitcpio == GenMkinitcpio \o Once("initrds")
ProcMachineId == Each("write", <<"machine-id">>)

\* build_rootfs, from the packages to the machine-id
Program(c) ==
    Once("pacman") \o Hooks(c, "pre-user") \o ProcUsergroup(c) \o ProcFilesystem(c)
        \o ProcSystemd(c) \o ProcLocale \o ProcNames(c) \o Hooks(c, "pre-initramfs")
        \o ProcMkinitcpio \o ProcMachineId

\* the programs of all configurations
Programs == [i \in DOMAIN Configurations |-> Program(Configurations[i])]
P == Programs[cfg]
Running == pc \in DOMAIN P
At(op) == Running /\ P[pc].op = op
Arg == P[pc].arg

Ended == ~Running
Done == pc = Len(P) + 1
Failed == 0

\* the files that are written without open_config: no package brings them
Unpackaged == {"timezone", "environment.conf", "machine-id"}
GenFiles == Unpackaged \cup {"locale.gen", "locale.conf", "machine-info", "environment", "hostname",
                             "hosts", "mkinitcpio.conf"}
Files == GenFiles \cup UNION {{f.path : f \in Range(c.files)} : c \in Range(Configurations)}
Content(by, c) == [by |-> by, cfg |-> c]
Nothing == Content("none", 0)
Original == Content("package", 0)
Images == UNION {Range(Presets[f]) : f \in DOMAIN Presets}

\* no two presets share an image; a user that a configuration lists twice has one uid
ASSUME ContentsAssumption ==
    /\ Packaged \subseteq GenFiles \ Unpackaged
    /\ \A f, g \in DOMAIN Presets : f # g => Range(Presets[f]) \cap Range(Presets[g]) = {}
    /\ \A c \in Range(Configurations) : \A u, v \in Range(c.users) : u.name = v.name => u.uid = v.uid

NoImage == [run |-> 0, with |-> "none"]

Init ==
    /\ etc = [p \in Files |-> Nothing] /\ dist = [p \in Files |-> Nothing]
    /\ owner = [p \in Files |-> 0]
    /\ users = <<>> /\ groups = {} /\ passwd = <<>>
    /\ units = {} /\ target = "none" /\ archive = 0 /\ localtime = "none" /\ host = HostPaths
    /\ hook = "none" /\ bak = "none" /\ images = [i \in Images |-> NoImage]
    /\ installed = [hook |-> "none", over |-> FALSE]
    /\ cfg \in DOMAIN Configurations
    /\ pc = 1 /\ sub = "start" /\ preset = "none" /\ left = {} /\ runs = 1

Goto(p) == pc' = p /\ sub' = "start" /\ preset' = "none" /\ left' = {}
Advance == Goto(pc + 1)
Fail == Goto(Failed)
Part(s) == sub' = s /\ UNCHANGED <<pc, preset, left>>

-----------------------------------------------------------------------------
\* MUTANT of ReloadPasswd: the old entries are not unloaded
ReloadPasswdAppends(file) == passwd \o file

\* reload_passwd
ReloadPasswd(file) == file

\* PasswdFile.lookup_name, in memory or of the file
Named(list, name) == {i \in DOMAIN list : list[i].name = name}
Lookup(list, name) == list[CHOOSE i \in Named(list, name) : \A j \in Named(list, name) : i <= j]

\* pacman, and reload_passwd.  A new root file system gets everything; a later run
\* may find an update of mkinitcpio.  A package keeps what was changed below etc/
\* (as .pacnew, which is left out) and has the initramfs images built again
PacmanInstalls ==
    /\ At("pacman")
    /\ LET fresh == users = <<>>
       IN  /\ users' = IF fresh THEN <<[name |-> "root", uid |-> 0, home |-> Nothing]>> ELSE users
           /\ etc' = [p \in Files |-> IF p \in Packaged /\ etc[p] = Nothing THEN Original ELSE etc[p]]
           /\ hook' = IF fresh THEN "old" ELSE "new"
           /\ images' = [i \in Images |-> [run |-> runs, with |-> hook']]
           /\ installed' = [hook |-> hook', over |-> bak # "none"]
    /\ passwd' = ReloadPasswd(users')
    /\ Advance
    /\ UNCHANGED <<dist, owner, groups, system, bak, run>>

PacmanHasNothing ==
    /\ At("pacman") /\ users # <<>>
    /\ passwd' = ReloadPasswd(users)
    /\ Advance
    /\ UNCHANGED <<tree, users, groups, system, initramfs, run>>

\* proc_group
ProcGroup ==
    /\ At("group")
    /\ groups' = groups \cup {Arg}
    /\ passwd' = ReloadPasswd(users)
    /\ Advance
    /\ UNCHANGED <<tree, users, system, initramfs, run>>

SkelNow == IF SkelFile \in Files /\ etc[SkelFile] # Nothing THEN etc[SkelFile] ELSE Original

\* proc_user: useradd, which fails when it cannot make the home, or usermod
UserCommand ==
    /\ At("user") /\ sub = "start" /\ Arg.groups \subseteq groups
    /\ IF Named(passwd, Arg.name) = {}
       THEN /\ Named(users, Arg.name) = {}
            /\ \/ /\ users' = Append(users, [name |-> Arg.name, uid |-> Arg.uid, home |-> SkelNow])
                  /\ Part("created")
               \/ /\ users' = Append(users, [name |-> Arg.name, uid |-> Arg.uid, home |-> Nothing])
                  /\ Fail
       ELSE /\ users' = [i \in DOMAIN users |->
                           IF users[i].name = Arg.name THEN [users[i] EXCEPT !.uid = Arg.uid] ELSE users[i]]
            /\ Part("modified")
    /\ UNCHANGED <<tree, groups, passwd, system, initramfs, run>>

\* MUTANT of CopySkel: only a new user gets the skel
CopySkelNever(user) == user

\* proc_user: the skel over a home that is there already
CopySkel(user) == IF user.home = Nothing THEN user ELSE [user EXCEPT !.home = SkelNow]

\* proc_user: chpasswd, reload_passwd, the skel
UserRest ==
    /\ At("user") /\ sub \in {"created", "modified"}
    /\ users' = [i \in DOMAIN users |->
                    IF users[i].name = Arg.name /\ sub = "modified" THEN CopySkel(users[i]) ELSE users[i]]
    /\ passwd' = ReloadPasswd(users)
    /\ Advance
    /\ UNCHANGED <<tree, groups, system, initramfs, run>>

\* parse_user_from: an owner that is not known is only warned of
OwnerId(name) == IF Named(passwd, name) = {} THEN 0 ELSE Lookup(passwd, name).uid

\* add_file
AddFile ==
    /\ At("file") /\ Arg.path \in Allowed
    /\ etc' = [etc EXCEPT ![Arg.path] = Content("file", cfg)]
    /\ owner' = [owner EXCEPT ![Arg.path] = OwnerId(Arg.owner)]
    /\ Advance
    /\ UNCHANGED <<dist, accounts, system, initramfs, run>>

\* continue
PassOver ==
    /\ At("continue")
    /\ Advance
    /\ UNCHANGED <<tree, accounts, system, initramfs, run>>

\* run_script, its effects left out
RunScript ==
    /\ At("script")
    /\ Advance
    /\ UNCHANGED <<tree, accounts, system, initramfs, run>>

\* remove_all: the path is not taken below the root file system
RemoveFile ==
    /\ At("remove") /\ Arg \in Allowed /\ Arg \in host
    /\ host' = host \ {Arg}
    /\ Advance
    /\ UNCHANGED <<tree, accounts, units, target, archive, localtime, initramfs, run>>

\* enable, disable, set_default
Systemctl ==
    /\ \/ At("enable") /\ units' = units \cup C.enable /\ target' = target
       \/ At("disable") /\ units' = units \ C.disable /\ target' = target
       \/ At("default") /\ target' = C.default /\ units' = units
    /\ Advance
    /\ UNCHANGED <<tree, accounts, archive, localtime, host, initramfs, run>>

\* reset_locale; locale-gen, whose result is ignored
LocaleArchive ==
    /\ \/ At("reset_locale") /\ archive' = 0
       \/ At("locale-gen") /\ archive' \in {0, cfg}
    /\ Advance
    /\ UNCHANGED <<tree, accounts, units, target, localtime, host, initramfs, run>>

\* set_timezone: an old link is removed only when its target exists on the host
SetTimezone ==
    /\ At("timezone") /\ C.zone \in Zones /\ localtime \in HostZones \cup {"none"}
    /\ localtime' = C.zone
    /\ Advance
    /\ UNCHANGED <<tree, accounts, units, target, archive, host, initramfs, run>>

-----------------------------------------------------------------------------
\* MUTANT of MoveToDist: whatever is there is moved
MoveToDistAlways(p) == etc[p] # Nothing

\* open_config: only the first file is kept as .dist
MoveToDist(p) == dist[p] = Nothing /\ etc[p] # Nothing

OpenConfig ==
    /\ At("open_config") /\ sub = "start"
    /\ IF MoveToDist(Arg)
       THEN dist' = [dist EXCEPT ![Arg] = etc[Arg]] /\ etc' = [etc EXCEPT ![Arg] = Nothing]
       ELSE UNCHANGED <<etc, dist>>
    /\ Part("open")
    /\ UNCHANGED <<owner, accounts, system, initramfs, run>>

\* a new file, truncated, then written
TruncateFile ==
    /\ \/ At("open_config") /\ sub = "open"
       \/ At("write") /\ sub = "start"
    /\ etc' = [etc EXCEPT ![Arg] = Content("part", cfg)]
    /\ Part("opened")
    /\ UNCHANGED <<dist, owner, accounts, system, initramfs, run>>

WriteFile ==
    /\ sub = "opened"
    /\ etc' = [etc EXCEPT ![Arg] = Content("generated", cfg)]
    /\ Advance
    /\ UNCHANGED <<dist, owner, accounts, system, initramfs, run>>

-----------------------------------------------------------------------------
Recreating(s) == At("initrds") /\ sub = s
KeepRest == UNCHANGED <<tree, accounts, system, run, installed>>

\* recreate_initrds: the folder is listed in any order
StartInitrds ==
    /\ Recreating("start")
    /\ left' = DOMAIN Presets /\ sub' = "next" /\ UNCHANGED <<pc, preset>>
    /\ KeepRest /\ UNCHANGED initramfs

\* MUTANT of OldImages: the images of the last time stay
OldImagesStay(f) == {}

\* recreate_initrd: the images of all presets of a file are removed first
OldImages(f) == Range(Presets[f])

NextPreset ==
    /\ Recreating("next")
    /\ IF left = {} THEN Advance /\ images' = images
       ELSE \E f \in left :
              /\ preset' = f /\ left' = left \ {f} /\ pc' = pc
              /\ sub' = IF C.fake THEN "hook" ELSE "make"
              /\ images' = [i \in Images |-> IF i \in OldImages(f) THEN NoImage ELSE images[i]]
    /\ KeepRest /\ UNCHANGED <<hook, bak>>

\* MUTANT of KeepHook: the hook is moved although there is a .bak
KeepHookAlways == bak' = hook /\ hook' = "none"

\* a hook whose .bak is there was faked by an earlier run; otherwise it is moved
KeepHook ==
    /\ bak' = IF bak = "none" THEN hook ELSE bak
    /\ hook' = "none"

\* recreate_initrd: neither remove nor rename finds a hook that is not there
MoveHook ==
    /\ Recreating("hook") /\ hook # "none"
    /\ KeepHook
    /\ Part("fake")
    /\ KeepRest /\ UNCHANGED images

WriteFakeHook ==
    /\ Recreating("fake")
    /\ hook' = "fake"
    /\ Part("make")
    /\ KeepRest /\ UNCHANGED <<bak, images>>

\* the presets that are left when fallback is skipped
Made(f) == {Presets[f][p] : p \in {q \in DOMAIN Presets[f] : q = "default" \/ ~C.no_fallback}}

\* mkinitcpio -p: all images, or it failed and made some; none is an error, but
\* not the failure itself
RunMkinitcpio ==
    /\ Recreating("make")
    /\ \E made \in SUBSET Made(preset) :
          /\ images' = [i \in Images |->
                IF i \in made THEN [run |-> runs, with |-> IF C.no_autodetect /\ ~C.fake THEN "skip" ELSE hook]
                ELSE images[i]]
          /\ IF \E i \in Made(preset) : images'[i] # NoImage THEN Part("restore") ELSE Fail
    /\ KeepRest /\ UNCHANGED <<hook, bak>>

\* recreate_initrd: the real hook is put back
RemoveFakeHook ==
    /\ Recreating("restore")
    /\ IF C.fake /\ hook # "none" /\ bak # "none" THEN hook' = "none" /\ Part("rename")
       ELSE hook' = hook /\ Part("next")
    /\ KeepRest /\ UNCHANGED <<bak, images>>

RestoreHook ==
    /\ Recreating("rename")
    /\ hook' = bak /\ bak' = "none"
    /\ Part("next")
    /\ KeepRest /\ UNCHANGED images

-----------------------------------------------------------------------------
Step ==
    \/ PacmanInstalls \/ PacmanHasNothing \/ ProcGroup \/ UserCommand \/ UserRest
    \/ AddFile \/ PassOver \/ RunScript \/ RemoveFile \/ Systemctl \/ LocaleArchive \/ SetTimezone
    \/ OpenConfig \/ TruncateFile \/ WriteFile
    \/ StartInitrds \/ NextPreset \/ MoveHook \/ WriteFakeHook \/ RunMkinitcpio
    \/ RemoveFakeHook \/ RestoreHook

\* a command fails, a call raises, or the builder is killed
Stop ==
    /\ Running
    /\ Fail
    /\ UNCHANGED <<tree, accounts, system, initramfs, run>>

\* the builder is started again in this workspace, without --clean
RunAgain ==
    /\ Ended /\ runs < MaxRuns
    /\ runs' = runs + 1 /\ cfg' \in DOMAIN Configurations
    /\ Goto(1) /\ passwd' = <<>>
    /\ UNCHANGED <<tree, users, groups, system, initramfs>>

NoMoreRuns == Ended /\ runs = MaxRuns /\ UNCHANGED vars

Next == Step \/ Stop \/ RunAgain \/ NoMoreRuns

Spec == Init /\ [][Next]_vars

-----------------------------------------------------------------------------
\* What a package brought is kept, under its name or as .dist, except where the
\* configuration has a file of its own, wherever the runs stopped (open_config).
PackagedKept ==
    \A p \in Packaged :
        \/ users = <<>> \/ Original \in {etc[p], dist[p]}
        \/ \E c \in Range(Configurations) : \E f \in Range(c.files) : f.path = p

\* The autodetect hook that counts: the one pacman installed last.  When it did
\* over a .bak that a stopped run had left, only that it is a real one: the next
\* run takes the new hook for its fake one, removes it and puts the old one back.
RealHooks == IF installed.over THEN {"old", "new"} ELSE {installed.hook}

\* The autodetect hook that pacman installed last is in place or kept as .bak, and
\* after a run that has used the fake one and succeeds it is in place again,
\* whichever of its renames and removals earlier runs did not reach.  An update
\* that came over their .bak is lost; then some real hook is (recreate_initrd).
HookKept ==
    /\ users # <<>> => {hook, bak} \cap RealHooks # {}
    /\ Done /\ C.fake => hook \in RealHooks

\* An initramfs that a run leaves behind was made by this run, and with the fake
\* hook when that is configured: neither an image of an earlier run nor one that
\* pacman had made for the build host hides that mkinitcpio failed.  A failure
\* after one of several images is not seen by the code: there is one at least
\* (recreate_initrd).
ImagesAreNew ==
    Done => \A f \in DOMAIN Presets :
        /\ \E i \in Made(f) : images[i] # NoImage
        /\ \A i \in Range(Presets[f]) :
              images[i] # NoImage => images[i].run = runs /\ (C.fake => images[i].with = "fake")

LastWriter(p) ==
    LET writes == {i \in DOMAIN P : \/ P[i].op \in {"open_config", "write"} /\ P[i].arg = p
                                    \/ P[i].op = "file" /\ P[i].arg.path = p}
    IN  {i \in writes : \A j \in writes : j <= i}

UserOf(name) == Lookup(users, name)

\* After a run that succeeds the root file system is what its configuration says,
\* whatever earlier runs with another one left or left half done: every file as
\* its last writer wrote it and owned by the uid its owner has now, the users with
\* their uids, in their homes the skel, the units, the locales, the time zone
\* (add_file, proc_user, reload_passwd, open_config, proc_systemd, proc_locale).
DoneIsAsConfigured ==
    Done =>
        /\ \A p \in Files : \A i \in LastWriter(p) :
              IF P[i].op = "file"
              THEN /\ etc[p] = Content("file", cfg)
                   /\ P[i].arg.stage # "pre-user" /\ Named(users, P[i].arg.owner) # {}
                        => owner[p] = UserOf(P[i].arg.owner).uid
              ELSE etc[p] = Content("generated", cfg)
        /\ \A u \in Range(C.users) :
              /\ Named(users, u.name) # {} /\ UserOf(u.name).uid = u.uid
              /\ \A f \in Range(C.files) :
                    f.path = SkelFile /\ f.stage = "pre-user"
                        => UserOf(u.name).home \in {Nothing, Content("file", cfg)}
        /\ C.enable \ C.disable \subseteq units /\ C.disable \cap units = {}
        /\ C.default \in {"none", target}
        /\ archive \in {0, cfg} /\ localtime = C.zone

=============================================================================
