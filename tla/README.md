# arch-image-builder: models, checks and proofs

TLA+ modules about the program in `src/builder`: it builds an Arch Linux root
file system in a workspace, makes disk and file system images of it, and must
leave the host as it found it. What is hard about that is not the building but
the leaving: processes that go on, mounts that are busy, loop devices that
others use too, failures half way, and builds that are killed and started again.

## The system

| Part | State | Operations | Hard behaviour |
|---|---|---|---|
| Build driver `build/bootstrap.py`, `main.py` | phase, `clean`, `repack` | `build_rootfs`, `remove_workspace` | two `try/finally` blocks with different ways out; SIGKILL at any point; a next run on the same workspace |
| Context `lib/context.py` | `mounted`, `chroot`, `mtab`, `fstab`, `fsmap`, `loops`, `cgroup` | `run_external`, `mount`, `cleanup`, `do_copy` | shared by all parts; every part reads what another one wrote |
| Process tracking `lib/cgroup.py` | the kernel's control group | `create`, `add_pid`, `kill_all`, `destroy` | commands fork while they are moved and killed; the group's name is the same for all builds |
| Mounts `lib/mount.py`, `build/mount.py`, `build/fstab.py` | the kernel's mount table | `init_mount`, `mount_all`, `undo_mounts` | order of nested mounts, busy mounts, failures half way, mounts of an earlier run |
| Loop devices `lib/loop.py` | the host's `/dev/loop*` | `loop_setup`, `loop_detach` | other programs and udev on the same devices; a fallback in two steps for old kernels |
| Images `disk/image.py`, `disk/layout/build.py`, `disk/filesystem/*` | tree of `ImageBuilder`, their `device` | `build`, `build_post`, `proc_fstab`, `copy` | nested devices; tables keyed by target and by source |
| Areas and partition tables `lib/area.py`, `disk/layout/**` | lists of areas, GPT and MBR headers | `add`, `merge`, `align`, `find`, `add_partition`, load, save | boundaries, two copies of the GPT, primary and logical partitions |
| Pacman `component/pacman*.py`, `build/pacman.py` | databases, keyring, package cache, installed packages | dependency walk, download, install, remove, replace, trust | cycles, retries, order of trust and installation, what a failed run leaves to the next |
| Configuration `lib/config.py`, `lib/subscript.py` | nested dicts | include, merge, presets, substitute | include and reference cycles, defaults, a configuration that changes after it was resolved |
| Root file system `lib/utils.py`, `build/filesystem.py`, `build/script.py`, `build/user.py`, `build/locale.py`, `build/names.py`, `build/systemd.py` | files with owners, `.dist` copies, users, units | `open_config`, `add_file`, `proc_user`, `run_scripts`, ... | order of the stages; the same steps again in a tree that an earlier run left, with another configuration |
| Initramfs `build/mkinitcpio.py` | hook file and its backup, images | `recreate_initrd` | stopping between two renames |
| Boot loaders, packaging, CI files, bindings | text files | generation | none that a model would reach |

The parts call each other directly. They interact through the context (`mtab`
and `fsmap` are filled by the image part and read by the mount part; `mounted`,
`loops` and the group by everybody) and through the kernel: a process that
`run_external` started may keep a mount busy, a mount keeps a loop device, a
loop device of a partition keeps that of its disk.

What makes each part correct:

* process tracking: after `kill_all`, nothing tracked is alive; it ends; it
  signals only the builder's own processes;
* pipes: `run_external` comes back, with all of the output;
* mounts: none is forgotten; `chroot` is set only over a complete set; children
  go before parents; the loops end;
* images: each device holds the piece it should; each file system gets its own
  files; devices of others stay untouched; all of the build's are given back;
* driver: success means that no mount, process or group is left, and no loop
  device of the run; a run ends when its commands do; a run after a killed run
  does not work on what that left behind;
* areas and partition tables: partitions are disjoint, aligned, inside the disk
  and clear of the table; none is refused while there is room or lost silently;
* pacman: the walk finds exactly what is needed, each once; what pacman needs is
  in the cache; no package is installed before the keys are trusted; a run that
  succeeds leaves the configured packages;
* configuration: files are merged in the order the includes ask for, every
  reference agrees with what it refers to, cycles end;
* root file system: what a package brought is kept; a run that succeeds leaves
  what its configuration says, whatever was there before;
* initramfs: the hook that pacman installed last is not lost, but for an update
  over the backup of a stopped run; no image of an earlier run survives.

## Modules

| Module | Models | Checked by |
|---|---|---|
| `CGroup` | `lib/cgroup.py`, the process part of `run_external` | `MCCGroup`, `CGroupProofs` |
| `RunExternal` | the pipes of one `run_external` call | `MCRunExternal`, `RootfsProofs` |
| `MountStack` | `build/mount.py`, `mount_all`, `MountPoint.mount/umount`, `resort` | `MCMountStack`, `MountStackProofs` |
| `ImageBuild` | `disk/image.py`, `lib/loop.py`, `proc_fstab`, the copy, the loop part of `cleanup` | `MCImageBuild`, `ImageBuildProofs` |
| `Bootstrap` | `build_rootfs` and `main`, composed of `CGroup` and `MountStack` | `MCBootstrap`, `BootstrapProofs` |
| `BuildRun` | abstract: what one build promises to its host | refined by `Bootstrap` |
| `Areas` | `lib/area.py`: lists of areas, as operators | through `GptLayout`, `MbrLayout` |
| `GptLayout` | the building of a GPT: `disk/layout/build.py`, `disk/layout/gpt/layout.py` | `MCGptLayout`, `GptProofs` |
| `MbrLayout` | the same of an MBR: `disk/layout/mbr/layout.py` | `MCMbrLayout` |
| `PackageWalk` | names, dependencies and the walk of `component/pacman.py` | through `Pacman` |
| `PacmanKey` | `component/pacman_key.py`: the keyring, as sets of outcomes | through `Pacman` |
| `Pacman` | `component/pacman.py`, `build/pacman.py` over several runs | `MCPacman`, `PacmanProofs` |
| `SubScript` | `lib/subscript.py`: the replacement of references | through `Configs`, `ConfigsProofs` |
| `Configs` | `lib/config.py`, the configuration part of `main.py` and `lib/context.py` | `MCConfigs`, `ConfigsProofs` |
| `Rootfs` | files, users, units, locale, names, scripts, initramfs over several runs | `MCRootfs`, `RootfsProofs` |

State and code. A variable of a module has the name of the attribute or local
it stands for (`mounted`, `chroot`, `loops`, `device`, `mtab`, `fsmap`, `pids`,
`remain`, `sig`); the kernel's state has names of its own: `procs` (the group's
`cgroup.procs`), `kmnt` (`/proc/mounts` below the workspace), `holders` (who has
files open there), `bind`, `auto`, `probed` (loop devices). `pc`, `mpc` and
`phase` are places in the code. Each action is one operation or one iteration of
a loop, that is, what runs between two points where another process, the kernel
or a failure can come in: `os.kill` over the list is one step, the following
`list_pid` another one, because commands fork in between.

Operators whose comment begins with MUTANT are variants of the definition they
stand before, each with one mistake. They are in no specification. With the
definition replaced by its variant TLC finds a property violated; this shows that
the property depends on that part of the code.

### CGroup

Any number of builders (`Sessions`) share one group. A command starts outside the
group (`Popen`) and is moved a step later (`AddPid`), unless it has exited (a
zombie is not moved) or there is no group: `create` may fail, the build then goes
on without one. Commands fork daemons; a child inherits the group of its parent
at that moment, and the session of the command tree it is in (`owner`). An
exception may leave `run_external` between its steps (`Abandon`). `seen` is a
history variable: what was in the group at some time. `KillTime` and `Timeout`
are the default arguments of `kill_all`; `remain` is a variable, though the code
never changes it.

`KillTime = 8` and `Timeout = 10` are the code's defaults. Pids are not used
again in a model; the real builder signals pids it has just listed, so a pid that
is used again is a matter of microseconds.

### MountStack

`Targets` are directories, `Above` says which contains which. `ChrootTab` is the
list of `init_mount`'s calls, `MTab` the sorted mount tab, with the sources
already translated by `ctx.fsmap`. A mount is the pair of its device and the
number of the run that made it, so that a mount that an earlier run left can be
told from this run's. `UmountNext` fails on a mount with holders or with another
mount in it, and does nothing on a directory that is no mount point any more.

Holders are any processes, those of the host included: they open files on any
mount at any time (`Use`), also on one that `init_mount` has just made, so that
`undo_mounts` may raise "failed to umount all" inside its except clause. What a
raising `init_mount` then leaves is what was in use. The history variable `busy`
has the mounts that the current pass of `undo_mounts` could not unmount because a
process used them (one that merely contains another mount is not in it).

### ImageBuild

The list `Order` has every image in the order in which `proc_image` meets them:
the recursion over a disk's partitions is a list, since a disk has no step of its
own after its partitions' steps. A bound loop device records for which image it
was bound, what is behind it and whether offset and size are in effect (`placed`):
after `LOOP_SET_FD` and before `LOOP_SET_STATUS64` they are not. `mount_all` is
one step here, for its loop is in `MountStack`.

What the sections say of mounts is chosen from `Configs` at the start and stays
in `config`: the mount point (`mount`), and the target and the source of the
`fstab` section. `copy` looks at the mount point (`Post`); the tabs have the
target, which the `fstab` section may override (`Target`); without that section
the source is the image's device (`SourceOf`), and the entry is not in `ctx.fstab`, the
only place where duplicates are looked for (`Duplicate`). So the files of a file
system can go elsewhere, or the build fails at `copy`. `Uncontested` names the
configurations of an image for which `CopyReachesOwn` says that they do not: its
target is its mount point, no file system before it has the same target without
an `fstab` section, and no other has the same source.

### Areas and GptLayout

`Areas` has one operator for each method of `lib/area.py`, on sequences of
records. `None` is `NoArea`; an exception is the value `Raised`, which later
operators hand on. The loops over a list are recursive functions over its indices,
those that remove from the list they walk (`align`) included: `AlignStep` carries
whether the next area is passed over.

`GptLayout` is `DiskLayoutBuilder.build` on a new disk: `create`, `set_from`
(`disk`), one step for each partition entry (`Place`, `Drop`, `Refuse`, `Break`
by what becomes of it), and `save`. An entry is looked up twice, by
`parse_free_area` and again by `add_partition`; both lookups are in the step.
The ghost field `aligned` of a partition says what its entry asked for. An entry is
a function from the keys it gives; `ParseArea` is what `_parse_area` makes of its
spellings and units. Loading a table is not modelled: `get_pmbr_entry` reads an attribute
`type_id` that `MbrPartEntry` does not have, so that on a device with a boot
signature the constructor raises; a new image file has none, and `create` then
clears whatever was there.

An entry may ask for no sectors (`size: 0`): it gets an empty area when the sector before
its start is free as well, and else is dropped unnoticed. An empty partition is harmless in itself, but
`splice` raises for it once all free areas lie behind it, and every later entry fails;
`FreeIsComplement` therefore speaks of tables without one (`NoneEmpty`), and
`DropsAreUnderspecified` names the entries that are lost this way.

`MCGptLayout` has 178910 reachable states; `DiskLayoutGPT` itself, run breadth
first on the same disks and entries, reaches as many.

`MbrLayout` has the same steps on the same areas. An entry needs one of the four
places or, if it is logical, an extended partition; `part.logical` is never set, so
every partition is stored as a primary one. `logged` is the end that the message
of `add_partition` states. Totals are below 2^32 sectors; loading a table, its
extended boot records and the CHS fields are left out.

### Bootstrap

It instantiates `CGroup` (one builder) and `MountStack` (holders are the
processes) and adds the phases. A step of it is a step of one of the two or of
its own, except `Exit`, which closes the files of the process too, and `Restart`,
which ends the builder's variables of both. `bound` has loop devices with the run
that bound them.

`BuildRun` says without any of this what a build promises: it takes and gives
back resources, and it reports success only with nothing in its hands. `held`
maps `Bootstrap`'s state to it; `KeepsPromise` is the refinement. Mounts,
processes and the group are those of all runs; of loop devices it counts those
that the run itself has bound (`"own loops"`). A loop device of a killed run
survives later runs that succeed: `ctx.loops` died with the process.

### Pacman

`PackageWalk` has a name as a database and a name, `AnyDb` where the code has no
`DATABASE/`. `lookup_package_depends` recurses; `todo` is what its open calls
still have to visit, innermost first, so that one step is one call or one turn
of a loop. `Needed` is the reference, said without a walk: the packages that are in
every set of packages that has those of the names and needs none outside.

In `PacmanKey` an operation is the set of its outcomes, each a keyring and whether
it returned. Every call of gpg may fail before or after its effect, so that the
outcomes that raise are also the keyrings that a build killed between two calls
leaves.

`Pacman` goes through `build_rootfs`'s package steps in their order (`pc`), with the
repositories that `init_repos` makes of the configuration (`RepoConfig`); `at` is
the turn of a loop, `tries` counts failed attempts. A download may fetch some of
its packages and then fail. `Kill` and a step that raises end a run; `RunAgain`
starts the next one with `ring`, `cache` and `installed` as they are. Pacman's own
installation is one transaction (`Transaction`): it takes all of it or nothing.

### Configs

A configuration is a sequence of keys with values, a value a string, a list or a
dict nested once; a string is a sequence of pieces. The recursion of
`load_configs` is a stack of frames. The loop over a file's `+also` takes its own
names; the one over `+then` iterates over a list that is in the configuration
already, and that a merge below may make longer (`shared`). `loaded` is a
history variable. `ParseNode` and `NextPass` are the passes of `parse`: a
pass visits all nodes in their order, and defaults are allowed only when a pass
replaced nothing. After loading, `AddRootCmdline` adds to `kernel.cmdline` as
`proc_cmdline_root` does, and the references are resolved again.

### Rootfs

`Program(c)` is what `build_rootfs` does with configuration `c`, from the packages
to the machine id, as a sequence of steps, one for each file, script, user or
command; `pc` is a place in it. A run may choose any configuration, stops anywhere
(`Stop`: a failure, or a kill) and leaves what it has done. A file's content is
`Original` (of the package), or generated or given by some configuration;
`open_config` moves an original to `.dist` and then writes, with a stop possible in
between (`sub`). `hook` and `bak` are the autodetect hook and its backup, `"old"`
and `"new"` two versions of the real one, `"fake"` the replacement. The history
variable `installed` has the version that pacman installed last, and whether it
was put over the `.bak` of a stopped run (`over`). In that case the next run takes
the new hook for its own fake one, removes it and renames the old one back
(`mkinitcpio.py:125-126`, `:154`): the update is lost, and `HookKept` demands no
more than that some real hook is there.

## Runs

| Run | Instance | Shows |
|---|---|---|
| `build` | 2 processes, 3 targets, 2 runs, all three modes, failures | both finally blocks undo mounts after `kill_all`, with no tracked process holding a mount (`UndoneWithoutProcesses`); what a run copies goes to its own images, outside repack mode (`FreshCopyReachesThisBuild`); loop devices are detached only when unmounted (`DetachedUnmounted`); `Bootstrap` implements `BuildRun` (`KeepsPromise`: success leaves no mount, process or group, and no loop device of its own); a run ends if its commands do and none ignores SIGTERM (`RunEnds`) |
| `repack` | 1 process, 2 runs, no failures | **violated**: finding 2 |
| `cgroup` | 1 builder, 4 processes, no group or an exception possible | nothing tracked outlives `kill_all`; what is waited for is tracked; `kill_all` returns if nobody ignores SIGTERM |
| `cgroup_stubborn` | one process that ignores SIGTERM | **violated**: finding 1 |
| `mounts` | 5 targets, nested, 2 processes that open files at any time, 2 runs | no mount is forgotten, `chroot` is set over complete mounts only, a failed `init_mount` leaves only what was in use (`FailedInitUndone`), children come before parents, the loops end |
| `images` | a disk with two partitions, one plain image, 3 loop devices, 162 configurations of mounts, all faults | the image side with other programs, udev and old kernels: content and, where `Uncontested`, copies go to their place, what is bound is tracked, others' devices are left alone, all is detached |
| `pipes` | pipes of 2 units, inputs and outputs of 0 to 4 units | one `run_external` call returns if the output fits into the pipe, no stdin is left open and no daemon holds the output (`HarmlessReturns`); what it returns is all of the output |
| `gpt` | 6 disks of 100 or 160 sectors, blocks of 32, 96 different entries, up to 3 in a configuration | partitions never overlap or touch the table (`NothingOverlaps`); the free areas are the complement of the used ones (`FreeIsComplement`); header, refusals and drops (`HeaderCoversPartitions`, `RoomMeansPlaced`, `DropsAreUnderspecified`) |
| `mbr` | disks of 2 and 160 sectors, 144 entries, up to 5 | **violated**: finding 3 |
| `pacman` | 2 databases, 8 packages, 4 keys, 3 runs, 1 retry, downloads 3 at a time | the walk is the closure (`WalkIsClosure`); the cache has what pacman needs (`SyncFindsCache`); trust comes before installation, over failures and runs (`TrustedBeforeInstall`); the result is as configured (`PackagesAsConfigured`); a run ends (`PacmanEnds`) |
| `config` | every include graph of a family over 5 names, every way 4 values refer to each other, 3 command lines | order of merging (`LoadedInOrder`); references are resolved exactly when they can be (`ResolvableIsResolved`), and rightly, also the second time (`ReplacedAgree`); it ends |
| `rootfs` | 3 configurations in any order, 3 runs, each stopped anywhere or not | packaged files and the hook are kept (`PackagedKept`, `HookKept`); a preset has at least one initramfs and none that is stale or made with the wrong hook (`ImagesAreNew`); the result is as configured (`DoneIsAsConfigured`) |

Deadlock is not checked where the system really stops: after the last run has
ended, or when a call has returned.

Bounds. Four processes are a command, its daemon, a daemon of that and one more
started while the others are being killed: the cases of `kill_all` differ in
whether a listed process, an unlisted process or both are alive, which two
generations show. Two runs (`MaxRuns`) are one that is killed and one that finds
what is left; a third finds nothing that a second could not. Three targets in
`Bootstrap` give a nested pair (so that undoing needs an order) and an image
mount; `MountStack` alone has five, and two processes, so that one may come while
the other goes. The 162 configurations of `images` have every target, a source or
none for each of two partitions, the source of the other one, and both on one mount
point or not: each exception of `Uncontested` occurs, and each case it leaves. Three loop devices are as many as a disk with
two partitions needs, and other programs may take any of them, so that running
out of devices happens as well. A disk of 160 sectors has three aligned blocks
and unaligned room before and after them; three entries make every pattern of
gaps around two partitions. `AlignLba` is 32 instead of 2048 sectors, the other
sizes are the code's. Entries that name an empty area (size 0, or an end just
before the start) are left out: the code accepts them as partitions without
sectors, and a later splice may raise on one. Five MBR entries are one more than
the table takes. A pipe of two units is empty, partly filled and full.

The packages of `pacman` are the smallest set in which a cycle goes through a
provided name, a package is in two databases in different versions, a group has a
member that is uninstalled, and a keyring and a local file have to be installed;
the repository with the higher priority is listed last. Three runs are one that stops
half way, one that finds what it left and stops later, and one that succeeds. One
retry is enough to fail first and then succeed, three packages at a time leave a
rest of one or two. `MaxDepth` 4 is Python's
recursion limit: no graph of the family without a cycle is that deep. Three runs
of `rootfs` are one that stops in the middle of a replacement, one that finds
this and stops again, and one that succeeds; the configurations differ in each
kind of entry.

Fairness. `CGroup`: the builder's `kill_all` is sequential code that does not
wait for anybody, so its steps are fair while it is under way; a process with a
pending deadly signal is scheduled and dies. Commands need not exit and a builder
need not call `kill_all`. `MountStack`: the loops only (sequential code). The
rest of the world may hold mounts for ever, and does. `ImageBuild`: `cleanup`,
the kernel's clearing at the last close, and the end of a udev probe; not the
steps of other programs. `RunExternal`: both sides go on when they can; a daemon
never has to exit. `Bootstrap`: the builder's steps, the death of signalled
processes, and the exit of the command that is waited for (a build whose command
never ends does not end). `Pacman`: the builder's own step; a command that it waits
for ends, well or badly; neither a kill nor another run is fair. `Configs`: one
thread that only computes.

## Findings

1. `kill_all` says "set to SIGKILL when reached kill time" and "timeoutd, throw
   out" (`lib/cgroup.py:84`, `:88`). The counter both depend on is never increased:
   one process that ignores SIGTERM keeps it for ever.
2. "Mount all filesystems in fstab for build" (`build/fstab.py:26`):
   `MountPoint.mount` skips a directory that is a mount point. After a run that
   was killed between `mount_all` and `cleanup`, a repack run (which has no check
   of the workspace, `init_mount` being skipped) copies into the old image and
   reports success.
3. `add_partition` of an MBR logs "end LBA" from the end of the area it found
   (`disk/layout/mbr/layout.py:73`), but line 64 gives this end to `set_size_lba`,
   which takes a size. The entry ends later by the start of the area less one.

Observations that contradict no comment, or not clearly:

* Processes. A daemon that a command forks between `Popen` and `add_pid` is never
  in the group, and `kill_all` does not reach it. The group has one name for all
  builds on a host, so `kill_all` of one ends the commands of another.
* Processes that use a mount while `init_mount` fails: `undo_mounts` raises inside
  the except clause, and its error takes the place of the first one.
* Images. Two file systems may claim one mount target if the first of them has no
  `fstab` section: "duplicate fstab target" is looked for among fstab entries
  only. The files of the second then go to the first. A file system whose `fstab`
  section names another target is mounted there, while `copy` looks at its `mount`:
  the build fails, or the files go to whatever is mounted at that place. Two file
  systems with one fstab source share an entry of `ctx.fsmap`, that of the later one.
  When `LOOP_SET_STATUS64` fails the device stays bound and unknown, and if
  it is a partition's, its disk's device stays bound as well. `BoundIsTracked`
  and `AllDetached` name this exception.
* Areas. `align` removes from the list it iterates over, so an area behind a
  removed one is not aligned; after a small gap, an aligned entry is then placed
  at an unaligned sector. `RoomMeansPlaced` is about tables in which
  all partitions are aligned.
* GPT. An entry with only a start or only an end can be dropped without a
  message: the first lookup keeps the size of the whole free area, the second one
  finds no room for it, and `add_partition` returns `None` (`Drop`). An unaligned
  partition wholly below the first aligned block makes every later aligned entry
  raise "start large than end" (`Break`). The usable range that the header states
  leaves out an unaligned partition before the first block, as
  `configs/target/partitions/rockchip.yaml` has one.
* MBR. A logical entry is accepted when there is an extended partition anywhere;
  what is tested is that `is_area_in` returned, not what. Logical entries become
  primary ones, and `create_mbr` raises over four. An unknown `ptype` gives type 0
  instead of an error.
* Pacman. `trustdb.gpg` stands for an initialised keyring, but is the first thing
  that is made; a run killed after it leaves a keyring without a master key, and
  later runs do not make one: signing then fails. A remote `mirrorlist` of a
  repository's keyring is fetched into a folder that nothing creates. A
  `publickey` calls `self.lsign_key`, which does not exist. A package in
  `pacman.uninstall` that is no longer installed fails every further run in the
  workspace. A repository with `servers` but no `server` raises, for `init_repos` iterates over
  `repo["server"]`. An unknown `mirrorlist` is an error only in `gen_config`, when all
  packages are installed. With a `retry_count` of 0 no server is written at all. `pacman.refresh` is not tried again.
* Configuration. `+then` stays a key of the configuration; with two files that
  have it as a list, the loop over the outer one's goes on with the inner one's
  names (`shared`). A cycle of includes ends in a `RecursionError`. A file that two
  others include is merged twice, lists get its members twice. `dict_get` raises
  on a path through a string or a list. `proc_cmdline_root` removes options from
  the list it iterates over, and may leave one.
* Root file system. If a run stops between the two moves of the hook, so that
  only `.bak` is there, every later run raises at `os.remove` until the package
  is installed again. An update of the hook that pacman installs over a `.bak` is lost
  with the next run, which puts the old one back. Turning `fake_autodetect` off after such a run leaves the
  fake hook in place (`HookKept` speaks of the runs that use it). A second run moves its own
  earlier file to `.dist` where no package owns the name (there is a FIXME at
  `lib/utils.py:208`). `remove_all` looks for the path to remove on the host.
  `/etc/localtime` is looked for through an absolute link, that is on the host; if
  the zone is missing there the second run raises `FileExistsError`. What a later
  configuration leaves out (units, users, files) stays. The result of
  `locale-gen` is not looked at.

## Proofs

`CGroupProofs`, for every set of builders and processes, every set of processes
that ignore SIGTERM and all faults:

* `Typing`: the type invariant.
* `KillAllIsThorough`: `TrackedAreGone`. By itself it is not inductive: that
  `kill_all` stopped on an empty list says something only if every process that
  was ever in the group and lives is in it still. `IInv` adds that: the group is
  the live ones among those seen in it (`GroupIsComplete`), and without a group
  there are none (`NoGroupNoMembers`); what `add_pid` moves is a process of the
  builder that started it (`ChildIsOwn`, `SpawnedHasChild`), so that another
  builder cannot bring one in. The proof has one step for every action.
* `WaitIsTracked`: `WaitedIsTracked`, for a single builder (an assumption of the
  theorem). With a second one it is false: the second may create the group while
  the first waits for a command that it started when there was none.

`MountStackProofs`, for every tab that lists parents first, every number of runs
and holders:

* `Typing`, and `MountsAreTracked`, `ChrootIsComplete`, `UndoOrder`
  (`NothingForgotten`, `ChrootReady`, `ChildrenFirst`). `IInv` adds what the
  loops know half way: mounts are of this or an earlier run (`PastRuns`); what a
  mount loop still has to mount contains nothing that is mounted already
  (`RestIsBelow`); in `init_mount`, what is mounted is this run's, and each
  entry of the tab is mounted or still to come (`InitProgress`); `undo_mounts`
  runs without `chroot` (`NoChrootInUndo`).
* `RemoveFirstFacts` is the lemma about Python's `list.remove` that both
  `NothingForgotten` and `ChildrenFirst` rest on: only the removed element goes
  and the others keep their order.

The same module has `FailedInitLeavesWhatIsUsed` (`FailedInitUndone`). `InitAlone`
says that while `init_mount` runs all mounts below are its own, and that in its
`undo_mounts` each of them is still to be tried in this pass or was kept for a
reason (`Kept`): a process used it when its turn came, or it contains a mount for
which that holds. For the second case the pass has to come to the inner mount
first (`QueueOrder`) and `Above` has to be transitive. So the pass that ends the loop, the
one without progress, leaves only mounts that are kept. Nothing is assumed of the
processes: they may come and go in the middle of a pass.


`ImageBuildProofs`, for every tree of images in which a disk is listed before its
partitions, all faults, and other programs and udev on the same devices:

* `TrackingIsComplete` (`BoundIsTracked`). `Holding` is what it needs: before
  cleanup every device in `ctx.loops` is bound by this build and is there once;
  while cleanup detaches, those still to do are. Others cannot disturb it, for the
  kernel lets them bind only what is free.
* `WritesInPlace` (`ContentInPlace`). `Placed` says that an image which has had its
  turn has a device that is settled (bound, with offset and size in effect) on its
  own parent's device, or is a file; `RestOfOrder` that what is still to do is the end of
  `Order`, so that a partition comes after its disk and no image has two turns.
* `OthersLeftAlone` (`OthersUntouched`), an action property, from `Holding`.

`CopiesGoHome` (`CopyReachesOwn`) is for all images and all configurations of
their mounts. `TablesAgree` holds until `mount_all`: each entry of `ctx.mtab` has an
owner, an image that has had its turn and whose target and source it has; the
owners come in the order of the images, and of two entries with one target the
first has no `fstab` section (`Owners`), which is what the test for duplicates is
worth; `ctx.fsmap` leads from a source to an image with this source (`Mapped`).
`mount_all` mounts the first entry for a target (`FirstPlace`). If an image is
`Uncontested` this entry is its own, and its source leads to no other device
(`WantedIsOwn`); so what `copy` finds at its mount point is its own
(`MountedOwn`). The three conditions of `Uncontested` are what the code lets pass.

`BootstrapProofs`, for every tables of mounts and all modes. The invariants of
`CGroup` and `MountStack` are lifted through their instances: each step of
`Bootstrap` is a step of the component, a stutter of it, or one of the two composed
steps (`Exit`, `Restart`), for which they are shown once more.

* `UndoIsUndisturbed` (`UndoneWithoutProcesses`): with `PhasePlaces`, which says
  where each component is in each phase of the build, in particular that
  `kill_all` has returned before a finally block calls `undo_mounts`.
* `PromiseIsKept` (`KeepsPromise`): every step maps to a step of `BuildRun` or a
  stutter. It assumes that there is a file system to copy to (`MTab` is not empty):
  otherwise a repack run makes no mount of its own, `undo_mounts` does not look, and
  the run reports success over mounts of an earlier one. Loop devices are those of
  the run itself, as `held` says.
* `DetachedDevicesAreFree` (`DetachedUnmounted`): what is still to be mounted is on
  devices that are bound (`MountsAreBound`), and a `cleanup` that gets to detach has
  an empty `ctx.mounted`, with which `NothingForgotten` says that nothing is
  mounted. It assumes that `init_mount` mounts no loop device, as it does not.
* `CopyIsFresh` (`FreshCopyReachesThisBuild`). `FreshPhases` says what is mounted
  below in each phase of a run that is no repack: `init_mount` has found the
  workspace clean, so that what is there is this run's (`OwnOnly`); when
  `undo_mounts` has succeeded, `NothingForgotten` says that nothing is left
  (`NothingMounted`); and `mount_all` adds the mounts of its own tab
  (`TabProgress`). It assumes that `mount_all`'s tab names no directory twice.

`RootfsProofs`, for all configurations in any order, any presets and number of runs,
each of which may stop at every step:

* `Typing`: besides the types, where a part of a step (`sub`) can be.
* `PackagesAreKept` (`PackagedKept`). Inductive is `KeptInv`, which also says where
  the original is in the middle of `open_config`: after the move it is the `.dist`,
  and the file is not there.
* `TheHookIsKept` (`HookKept`) and `TheImagesAreNew` (`ImagesAreNew`), by
  `HookInv` and `ImagesInv`: between the steps of `recreate_initrd` the hook that
  pacman installed last is at its place or in `.bak`, or some real one is, if it was
  installed over a `.bak` (`RealHooks`); images of the presets that are done are of this run, those
  of the preset that is worked on are removed before they are made. The presets
  must not share an image: with a shared one, the second removes what the first has made.
* `TheConfigurationIsThere` (`DoneIsAsConfigured`). `ConfiguredInv` goes along the
  program: of what the steps before `pc` wrote, the last writer of each path counts
  (`WrittenInv`, `OwnedInv`), `ctx.passwd` agrees with the file (`AgreeInv`), and users
  and their homes, units, locale and zone are there after their step (`SkelInv`,
  `UserInv`, `SystemInv`). What an earlier run left never comes into it; that is why it
  holds over runs that stop anywhere. It assumes that entries for one user agree on
  its uid.

`RootfsProofs` ends with the pipes of `RunExternal`, for every capacity and all
amounts: `ReturnsAll` (`OutputIsComplete`). The builder reads after `wait` has returned (`WaitedFirst`), a
command exits when it has printed everything (`ExitIsLast`), and until the builder
reads, all of it is in the pipe (`PipeHoldsAll`).

`PacmanProofs`, for all databases, packages with any dependencies, keyrings,
configurations, and any number of runs that fail or are killed:

* `KeysBeforePackages` (`TrustedBeforeInstall`). For every operation of `PacmanKey` a
  lemma says that each outcome keeps what was signed and, if it returned, has
  what it was asked to sign (`Adds`); loops over keys and packages gain the sum. `KeysInv` says
  how far the loop over the keyrings' packages is (`KeyringTurn`) and that from the
  second `trust_all` on all is signed (`SignedSoFar`); a ring that an earlier run left
  may lack anything, for both are signed again in every run.
* `WalkTakesWhatIsNeeded` (`WalkIsClosure`). `WalkInv` has two halves. Nothing too much:
  packages taken and names still to visit stand for packages of `Needed` only.
  Nothing too little: what the names stand for, and what the packages that are
  taken depend on, is taken already or still to visit (`Covered`), so that at the end
  the packages taken are a closed set, and `Needed` is in every such set. Lookups agree
  with and without `package_map` because it remembers only what a search would find
  (`Remembers`).
* `RepoConfigIs`, a lemma on the way: `init_repos` leaves the repositories sorted
  by priority.
* `CacheBeforePackages` (`SyncFindsCache`), for configurations with `NamesExist` and
  `OneVersion`. `TakenIs` says that what pacman takes for a name is among what the walk
  looks up for it, so that its transaction stays within the walk (`TransactionIs`).
  `OrderInv` is about the order of the walk: before or as the first package of a name
  comes one that is the same as in the first database with the name (`Led`), which
  is the one pacman takes; the packages still to visit are led so by those taken or by
  earlier ones (`TodoLed`). A turn of `download_all` may leave out a package for its
  name, but not the first of the walk (`ChunkHas`), so that the first ones of the turns
  that are over are in the cache (`CacheInv`), through any retries.
* `ConfiguredInTheEnd` (`PackagesAsConfigured`), for configurations with `NamesExist`,
  `ReplacementsStay` and `NothingComesBack`. `InstallInv` goes along `proc_pacman`: the
  names that the job is done with (`Behind`) have their packages, an earlier one's may be
  gone only if it was to be removed or replaced; what replaced another is there; after
  `uninstall_all` nothing of it comes back. Names that are left out of a part because
  they differ only in their database have packages of the same name (`SameNameTaken`).

The hypotheses of the last two are definitions of `Pacman` about the constants, and
`MCPacman` asks them of its own configuration. They say what a configuration is to
respect, and each is needed for what it excludes: with a package that is pinned to the second
database, in another version, TLC finds a run in which `download` leaves it out behind
the one of the first database and pacman has to fetch it itself (`OneVersion`); with
`glibc` among the packages to remove, a replacement brings it back
(`NothingComesBack`); with a replacement that a later one replaces, the first is not
there in the end (`ReplacementsStay`).

`ConfigsProofs`, for any configuration files, command lines and strings:

* `LoadingIsTyped`: types, and what the frames of the loading are (`LoadOK`).
* `FilesAreInOrder` (`LoadedInOrder`). `OrderOK` has two parts. The files that are
  merged and then what the frames stand for (`OrderOfFrames`) are the order that the
  includes ask for, at every step: a frame that is opened stands for what it will
  merge, so that nothing is left to show when no frame is left. And each value is what
  the files merged so far make of it (`Made`): the last string, or the strings or keys
  of those since the kind of value last changed; for this each merge says what
  becomes of a key that both sides have, and the values of the others are kept.
* `ReferencesAreResolved` (`ResolvableIsResolved`) and `ReferencesAgree`
  (`ReplacedAgree`), from `ValuesAreKept`. `Resolvable` is a least fixed point, and
  the passes of `parse` have to be compared with it from both sides. What is resolved is
  in it, with all that is below it, and has a text that its pieces allow
  (`ResolvedOK`); once defaults are taken, all that can be had without one is resolved
  (`Easy`). In the other direction `PassOK` knows of a pass that has resolved nothing so far
  that none of the values it has been at could be given a text by what is resolved;
  at its end that makes the resolved ones closed, and the least fixed point is
  within them. Neither is inductive alone: that a value may wait (`Waits`) needs
  the names that the pass has noted as unresolved.

`NumeralsDiffer` is a hypothesis of these two: two different indices of a list have
different numerals. It is about TLC's `ToString`, which TLA+ leaves undefined; the code writes
the index in decimal digits.

`GptProofs`, for any disk, configuration, alignment and number of partitions:

* `Areas`, operation by operation, on lists of runs of sectors (`Runs`). `Cover` is the set
  of sectors a list holds; a list is `Tidy` when its areas are in order and do not touch.
  `SortedIs`, `MergeIs`: merge makes any list of disjoint areas tidy and keeps its
  sectors. `SpliceIs`: splice takes out exactly the range, or raises. `AlignAllIs`:
  align keeps the list tidy, frees nothing, and keeps the aligned part of every area
  that is big enough (`Big`), though it passes over the one behind an area that it removes.
  `FindIn`, `FoundAgain`, `NoneFits`: the area of a lookup is free; a second
  lookup finds it again; a lookup by size alone fails only when every area is too small.
* `GptInv` is inductive: the partitions are disjoint, each lies in the span its entry
  asked for (`Lies`), and what is said of refused and dropped entries holds. It needs that the
  usable area does not depend on what was placed (`PlacedUsable`): the code falls back to
  sector 2 when a partition starts below the first usable sector, and none ever does.
* `NothingOverlapsHolds`, `FreeIsComplementHolds`, `HeaderCoversPartitionsHolds` and
  `DropsAreUnderspecifiedHolds` follow from it. `RoomMeansPlacedHolds` is by `RoomIs`: free aligned
  blocks in a row are an interval of sectors, which lies in one area before align
  (`RowInOne`); that area is `Big`, so align keeps the row, in one area again, and this
  one is not too small. It is where the alignment has to be more than one sector
  (`AlignLba > 1`, as 1 MiB is): `align` drops areas of a single sector.

The assumptions are those named in the modules (`CGroupAssumption`,
`MountStackAssumption`, `ImageBuildAssumption`, `BootstrapAssumption`,
`RootfsAssumption`, `GptAssumption`, `ContentsAssumption`, `RepoAssumption`, `PacmanAssumption`,
`ConfigAssumption`, `ConfigsAssumption` and the others), which TLC evaluates on every run, and
the ones named above. Those of `Pacman` are that lists are lists, keys are keys, file names
that end in `.pkg.tar.` are files that exist, repositories have different names and
finitely many packages. Those of `Configs` and `SubScript` are that files are
configurations and names strings.

Operators that go along a list are recursive functions over its indices. For these
the proofs do not need induction over data: `Loop` shows from the least index that
fails (`LeastIndex`) that the function exists, `Upto` carries a set of good indices to
the end. `FoldLeft`, `SelectSeq` and `SortSeq` cannot be expanded by the provers.

Only model-checked. Every safety invariant and action property that a run expects to hold
is stated by a theorem, some under the hypotheses named above. What stays with TLC is
all liveness (the loops' ends, `KillAllReturns`, `RunEnds`, `PacmanEnds`, `AllDetached`,
`HarmlessReturns`, `ConfigEnds`), which is out of the provers' reach, and `MbrLayout`,
of which the only property is one that is violated.

## Not modelled

Boot loaders (generation of text and single commands), packaging, the CI
generator, tables of partition types, bindings to libblkid and libmount (the
latter by what `mount` and `umount` do), conversions of data (`json`,
`serializable`, `shadow`'s fields, `cpu`).

Within the modelled parts:

* formatting and logging, mount options, file contents, mkfs and rsync arguments;
  paths are model values: that `find_folder` compares string prefixes (and takes a
  sibling workspace for this one) is not visible;
* partition tables: the bytes of headers and entries, names, types, attributes,
  and loading. `get_pmbr_entry` reads an attribute `type_id` that `MbrPartEntry` does
  not have, so that on a device with a boot signature the constructor raises; a
  new image file has none, and `create` then clears whatever was there;
* pacman: URLs, mirrors and the text of `pacman.conf` and mirror lists; `local/`
  names; a `db.lck` that a killed pacman leaves; a database that is refreshed by a
  download;
* configuration: the scanning of the text for references; presets inside files;
* root file system: the stages before the packages, copies of folders, downloads,
  the repack path, the stages after the build, the removals of
  `bootstrap.cleanup`, passwords and the shadow tables. The owner of a file that
  is added before the users falls back to root in the first run.

## Plan

Done first, because every build goes through it and no test covers it: processes,
mounts, devices and the driver over failures and restarts; then the placement of
partitions; then what fills the root file system (packages, configuration, files,
initramfs) over several runs; and the proofs about all of these.

What could follow:

1. `MbrLayout`: the lemmas of `GptProofs` about `Areas` hold for it as well; it needs
   an invariant of its own for logical entries inside the extended partition.
2. Loading of existing tables, once `get_pmbr_entry` can.
3. The repack path and the stages after the build in `Rootfs`.
