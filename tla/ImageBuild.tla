----------------------------- MODULE ImageBuild -----------------------------
(***************************************************************************)
(* The image phase of a build: the tree of ImageBuilder objects            *)
(* (builder/disk/image.py, builder/disk/layout/build.py), the loop devices *)
(* they are reached through (builder/lib/loop.py), the tables              *)
(* FileSystemBuilder.proc_fstab fills for mount_all, the copy of the root  *)
(* file system (builder/disk/filesystem/creator.py), and the loop part of  *)
(* ArchBuilderContext.cleanup.                                             *)
(*                                                                         *)
(* Loop devices belong to the host: other programs bind and clear theirs at*)
(* any time, and udev opens each new block device for a while.             *)
(***************************************************************************)
EXTENDS Naturals, SequencesExt

CONSTANTS
  Images,     \* the sections of "image" and "partitions" with a type
  Order,      \* all images as proc_image meets them: a disk, then its parts
  Parent,     \* [Images -> the disk the image is a partition of, or None]
  Kind,       \* [Images -> "disk", "fs", "raw" or "plain"]
  Configs,    \* what the sections may say of mounts: functions on Images
              \*   mount: its "mount", or None
              \*   target: the target its fstab section names, or None
              \*   source: the source its fstab section gives, or None
  Loops,      \* loop devices of the host
  Faults,     \* "error": any call fails; "old": LOOP_CONFIGURE gives EINVAL;
              \* "status": LOOP_SET_STATUS64 fails; "busy": undo_mounts fails
  None

ASSUME ImageBuildAssumption ==
  /\ Order \in Seq(Images)
  /\ \A i \in Images : \E k \in 1 .. Len(Order) : Order[k] = i
  /\ \A k, l \in 1 .. Len(Order) : k # l => Order[k] # Order[l]
  /\ Parent \in [Images -> Images \cup {None}]
  /\ Kind \in [Images -> {"disk", "fs", "raw", "plain"}]
  /\ \A i \in Images : Parent[i] # None =>
       /\ Kind[Parent[i]] = "disk" /\ Kind[i] # "plain"
       /\ \A k, l \in 1 .. Len(Order) : Order[k] = Parent[i] /\ Order[l] = i => k < l
  /\ \A c \in Configs, i \in Images :
       /\ c.mount[i] # None => Kind[i] = "fs"
       /\ c.mount[i] # "none"
  /\ Faults \subseteq {"error", "old", "status", "busy"}
  /\ None \notin Images \cup Loops /\ Loops \cap Images = {}
  /\ "none" \notin Images \cup Loops \cup {None}

(* The directories under WORKSPACE/mount that copy or mount_all looks at:  *)
(* a target or a source of "none" is never mounted.                        *)
Named(c) == {c.mount[i] : i \in Images} \cup {c.target[i] : i \in Images}
Names == UNION {Named(c) : c \in Configs}
Targets == Names \ {None, "none"}

(* A bound loop device: whose it is, for which image, what is behind it    *)
(* (the file of the image, or the loop device of its disk), and whether    *)
(* offset and size are in effect.  Other programs' devices are opaque.     *)
\* A device that this build has bound is [by |-> "us", image, behind: the image or device
\* its file is, placed: offset and size are set]
Theirs == [by |-> "other"]
Free == [by |-> "none"]

VARIABLES
  bind,      \* [Loops -> Free, Theirs or Bound]
  auto,      \* loop devices with LO_FLAGS_AUTOCLEAR
  probed,    \* loop devices udev has open
  kmnt,      \* [Targets -> device mounted under WORKSPACE/mount, or None]
  loops,     \* ctx.loops
  device,    \* [Images -> ImageBuilder.device: a loop, the image's file, None]
  config,    \* the member of Configs this build was started with
  fstab,     \* targets in ctx.fstab
  mtab,      \* ctx.mtab: target and source of each entry
  fsmap,     \* ctx.fsmap, a set of pairs: source and device
  copied,    \* history: [Images -> the device its files were copied to]
  pc, todo,  \* where the builder is, and the images (or loops) still to do
  no         \* loop_setup's dev

kernel == <<bind, auto, probed, kmnt>>
tables == <<config, fstab, mtab, fsmap>>
vars == <<bind, auto, probed, kmnt, loops, device, config, fstab, mtab, fsmap,
          copied, pc, todo, no>>

(* What the configuration says of an image; the target of its entry in the *)
(* tabs is the one its fstab section names, if it does.                    *)
MountAt(i) == config.mount[i]
Source(i) == config.source[i]
Target(i) == IF config.target[i] = None THEN MountAt(i) ELSE config.target[i]

Ours(l) == bind[l].by = "us"
Openers(l) == {k \in Loops : Ours(k) /\ bind[k].behind = l}
Mounted(l) == \E t \in Targets : kmnt[t] = l
InUse(l) == Openers(l) # {} \/ l \in probed \/ Mounted(l)

Init ==
  /\ bind \in [Loops -> {Free, Theirs}]
  /\ auto = {} /\ probed = {}
  /\ kmnt = [t \in Targets |-> None]
  /\ loops = <<>>
  /\ device = [i \in Images |-> None]
  /\ config \in Configs
  /\ fstab = {} /\ mtab = <<>> /\ fsmap = {}
  /\ copied = [i \in Images |-> None]
  /\ pc = "prepare" /\ todo = Order /\ no = None

Now == Head(todo)
Goto(from, to) == pc = from /\ pc' = to

(* An exception at any of the steps before cleanup: build_rootfs' finally  *)
(* clause runs ctx.cleanup.                                                *)
Building == {"prepare", "free", "configure", "content", "fstab", "post"}
Raise ==
  /\ "error" \in Faults /\ pc \in Building
  /\ pc' = "cleanup"
  /\ UNCHANGED <<kernel, loops, device, tables, copied, todo, no>>

(***************************************************************************)
(* proc_image: prepare_device, loop_setup, and the content builder.        *)
(***************************************************************************)
(* create_image makes the file new; a squashfs or erofs image gets no loop *)
(* device at all.                                                          *)
Prepare ==
  /\ pc = "prepare" /\ todo # <<>>
  /\ IF Kind[Now] = "plain"
     THEN pc' = "content" /\ device' = [device EXCEPT ![Now] = Now]
     ELSE pc' = "free" /\ UNCHANGED device
  /\ UNCHANGED <<kernel, loops, tables, copied, todo, no>>

(* MUTANT of GetFree: the device is put into ctx.loops before it is bound. *)
GetFreeRecorded(l) ==
  /\ bind[l] = Free
  /\ Goto("free", "configure") /\ no' = l
  /\ loops' = Append(loops, l)
  /\ UNCHANGED <<kernel, device, tables, copied, todo>>

(* LOOP_CTL_GET_FREE names a device that is free now.                      *)
GetFree(l) ==
  /\ bind[l] = Free
  /\ Goto("free", "configure") /\ no' = l
  /\ UNCHANGED <<kernel, loops, device, tables, copied, todo>>

Binding(placed) ==
  [by |-> "us", image |-> Now, placed |-> placed,
   behind |-> IF Parent[Now] = None THEN Now ELSE device[Parent[Now]]]

(* MUTANT of Record: ctx.loops is left alone.                              *)
RecordDeviceOnly ==
  /\ UNCHANGED loops
  /\ device' = [device EXCEPT ![Now] = no]
  /\ no' = None

(* The end of setup_loop: the device is recorded.                          *)
Record ==
  /\ loops' = Append(loops, no)
  /\ device' = [device EXCEPT ![Now] = no]
  /\ no' = None

(* LOOP_CONFIGURE binds and places in one go; a device somebody else took  *)
(* in the meantime gives EBUSY, which loop_setup raises.                   *)
Configure ==
  /\ pc = "configure"
  /\ IF bind[no] = Free
     THEN /\ pc' = "content"
          /\ bind' = [bind EXCEPT ![no] = Binding(TRUE)]
          /\ Record
     ELSE pc' = "cleanup" /\ UNCHANGED <<bind, loops, device, no>>
  /\ UNCHANGED <<auto, probed, kmnt, tables, copied, todo>>

(* MUTANT of SetFd: offset and size are never set.                         *)
SetFdOnly ==
  /\ "old" \in Faults /\ pc = "configure" /\ bind[no] = Free
  /\ pc' = "content"
  /\ bind' = [bind EXCEPT ![no] = Binding(FALSE)]
  /\ Record
  /\ UNCHANGED <<auto, probed, kmnt, tables, copied, todo>>

(* LOOP_CONFIGURE gave EINVAL: LOOP_SET_FD binds the whole file first.     *)
SetFd ==
  /\ "old" \in Faults /\ pc = "configure"
  /\ IF bind[no] = Free
     THEN /\ pc' = "status"
          /\ bind' = [bind EXCEPT ![no] = Binding(FALSE)]
     ELSE pc' = "cleanup" /\ UNCHANGED bind
  /\ UNCHANGED <<auto, probed, kmnt, loops, device, tables, copied, todo, no>>

SetStatus ==
  /\ Goto("status", "content")
  /\ bind' = [bind EXCEPT ![no].placed = TRUE]
  /\ Record
  /\ UNCHANGED <<auto, probed, kmnt, tables, copied, todo>>

(* LOOP_SET_STATUS64 fails: the device stays bound, and is not recorded.   *)
StatusFails ==
  /\ "status" \in Faults
  /\ Goto("status", "cleanup")
  /\ UNCHANGED <<kernel, loops, device, tables, copied, todo, no>>

(* What ctx.fsmap is told about an image.                                  *)
FsDevice(i) == device[i]

(* MUTANT of Duplicate: no duplicate is found.                             *)
DuplicateNever(t) == t \in {}

(* proc_fstab's test for a duplicate target looks at fstab entries only.   *)
Duplicate(t) == t \in fstab

(* What an entry of the tabs has for its source: without an fstab section, *)
(* the device the file system is made on.                                  *)
SourceOf(i) == IF Source(i) = None THEN device[i] ELSE Source(i)

(* The content builder's build(): for a file system mkfs and proc_fstab.   *)
(* A section without a source is an error: one that names a target stands  *)
(* for all of those.                                                       *)
Content ==
  /\ pc = "content"
  /\ IF MountAt(Now) = None
     THEN pc' = "prepare" /\ UNCHANGED tables
     ELSE IF Duplicate(Target(Now)) \/ (Source(Now) = None /\ config.target[Now] # None)
     THEN pc' = "cleanup" /\ UNCHANGED tables
     ELSE /\ pc' = "prepare"
          /\ fstab' = IF Source(Now) = None THEN fstab ELSE fstab \cup {Target(Now)}
          /\ mtab' = Append(mtab, [target |-> Target(Now), source |-> SourceOf(Now)])
          /\ fsmap' = {m \in fsmap : m[1] # SourceOf(Now)} \cup {<<SourceOf(Now), FsDevice(Now)>>}
          /\ UNCHANGED config
  /\ todo' = Tail(todo)
  /\ UNCHANGED <<kernel, loops, device, copied, no>>

ProcImageDone ==
  /\ todo = <<>>
  /\ Goto("prepare", "fstab")
  /\ UNCHANGED <<kernel, loops, device, tables, copied, todo, no>>

(***************************************************************************)
(* proc_fstab and proc_image_post.                                         *)
(***************************************************************************)
(* What mount_all makes of ctx.mtab: of several entries for one target the *)
(* first is mounted (the sort is stable), the others find it mounted.  One *)
(* with the source "none" is skipped.                                      *)
WantedAt(t) ==
  LET entry == mtab[SelectInSeq(mtab, LAMBDA e : e.target = t /\ e.source # "none")]
  IN  (CHOOSE m \in fsmap : m[1] = entry.source)[2]

(* mount_all; MountStack has its loop.  When a mount fails, those before it *)
(* in the sorted tab are in place: some of the targets.                    *)
MountAll ==
  LET wanted == {t \in Targets : \E k \in 1 .. Len(mtab) :
                              mtab[k].target = t /\ mtab[k].source # "none"}
  IN  /\ \E got \in SUBSET wanted :
           /\ got = wanted \/ "error" \in Faults
           /\ kmnt' = [t \in Targets |-> IF t \in got THEN WantedAt(t) ELSE None]
           /\ Goto("fstab", IF got = wanted THEN "post" ELSE "cleanup")
      /\ todo' = Order
      /\ UNCHANGED <<bind, auto, probed, loops, device, tables, copied, no>>

(* build_post of one image: copy looks at its "mount" and takes whatever   *)
(* mount_all has mounted there.                                            *)
Post ==
  /\ pc = "post" /\ todo # <<>>
  /\ IF MountAt(Now) # None /\ kmnt[MountAt(Now)] = None
     THEN pc' = "cleanup" /\ UNCHANGED copied
     ELSE /\ copied' = IF MountAt(Now) = None THEN copied
                       ELSE [copied EXCEPT ![Now] = kmnt[MountAt(Now)]]
          /\ UNCHANGED pc
  /\ todo' = Tail(todo)
  /\ UNCHANGED <<kernel, loops, device, tables, no>>

PostDone ==
  /\ todo = <<>>
  /\ Goto("post", "cleanup")
  /\ UNCHANGED <<kernel, loops, device, tables, copied, todo, no>>

(***************************************************************************)
(* cleanup: undo_mounts (its loop is in MountStack), then every loop device*)
(* in the order of ctx.loops, so a disk before its partitions.             *)
(***************************************************************************)
Unmount ==
  /\ \/ /\ Goto("cleanup", "detach")
        /\ kmnt' = [t \in Targets |-> None]
     \/ /\ "busy" \in Faults
        /\ Goto("cleanup", "stuck")
        /\ UNCHANGED kmnt
  /\ todo' = loops
  /\ UNCHANGED <<bind, auto, probed, loops, device, tables, copied, no>>

(* MUTANT of Detach: devices are removed from the list the loop walks over. *)
DetachSkips ==
  /\ pc = "detach" /\ todo # <<>>
  /\ IF InUse(Now)
     THEN auto' = auto \cup {Now} /\ UNCHANGED bind
     ELSE bind' = [bind EXCEPT ![Now] = Free] /\ UNCHANGED auto
  /\ todo' = IF Tail(todo) = <<>> THEN <<>> ELSE Tail(Tail(todo))
  /\ UNCHANGED <<probed, kmnt, loops, device, tables, copied, pc, no>>

(* LOOP_CLR_FD: a device that somebody else has open is cleared by its last *)
(* close.                                                                  *)
Detach ==
  /\ pc = "detach" /\ todo # <<>>
  /\ IF InUse(Now)
     THEN auto' = auto \cup {Now} /\ UNCHANGED bind
     ELSE bind' = [bind EXCEPT ![Now] = Free] /\ UNCHANGED auto
  /\ todo' = Tail(todo)
  /\ UNCHANGED <<probed, kmnt, loops, device, tables, copied, pc, no>>

DetachDone ==
  /\ todo = <<>>
  /\ Goto("detach", "done")
  /\ UNCHANGED <<kernel, loops, device, tables, copied, todo, no>>

(***************************************************************************)
(* The host.                                                               *)
(***************************************************************************)
AutoClear(l) ==
  /\ l \in auto /\ ~InUse(l)
  /\ bind' = [bind EXCEPT ![l] = Free] /\ auto' = auto \ {l}
  /\ UNCHANGED <<probed, kmnt, loops, device, tables, copied, pc, todo, no>>

Probe(l) ==
  /\ Ours(l) /\ l \notin probed /\ l \notin auto
  /\ probed' = probed \cup {l}
  /\ UNCHANGED <<bind, auto, kmnt, loops, device, tables, copied, pc, todo, no>>

ProbeEnds(l) ==
  /\ probed' = probed \ {l} /\ l \in probed
  /\ UNCHANGED <<bind, auto, kmnt, loops, device, tables, copied, pc, todo, no>>

OtherBinds(l) ==
  /\ bind[l] = Free /\ bind' = [bind EXCEPT ![l] = Theirs]
  /\ UNCHANGED <<auto, probed, kmnt, loops, device, tables, copied, pc, todo, no>>

OtherClears(l) ==
  /\ bind[l] = Theirs /\ bind' = [bind EXCEPT ![l] = Free]
  /\ UNCHANGED <<auto, probed, kmnt, loops, device, tables, copied, pc, todo, no>>

Builder ==
  \/ Raise
  \/ Prepare \/ Configure \/ SetFd \/ SetStatus \/ StatusFails \/ Content
  \/ \E l \in Loops : GetFree(l)
  \/ ProcImageDone \/ MountAll \/ Post \/ PostDone
  \/ Unmount \/ Detach \/ DetachDone

Host(l) == AutoClear(l) \/ Probe(l) \/ ProbeEnds(l) \/ OtherBinds(l) \/ OtherClears(l)

Next == Builder \/ \E l \in Loops : Host(l)

Spec == Init /\ [][Next]_vars

(* cleanup is sequential code without waits; the kernel clears a device at *)
(* its last close, and udev comes to the end of its probes.                *)
FairSpec ==
  /\ Spec
  /\ WF_vars(Unmount) /\ WF_vars(Detach) /\ WF_vars(DetachDone)
  /\ \A l \in Loops : WF_vars(AutoClear(l)) /\ WF_vars(ProbeEnds(l))

-----------------------------------------------------------------------------
(* When a content builder writes an image, its device is bound to the right*)
(* piece of the right file, and so is the device of its disk: no write goes*)
(* to the start of the disk, or to what somebody else has bound.           *)
InPlace(i) ==
  LET b == bind[device[i]]
  IN  /\ b.by = "us" /\ b.image = i /\ b.placed
      /\ b.behind = IF Parent[i] = None THEN i ELSE device[Parent[i]]

ContentInPlace ==
  pc = "content" /\ Kind[Now] # "plain" =>
    InPlace(Now) /\ (Parent[Now] # None => InPlace(Parent[Now]))

(* cleanup knows every device that was bound, except the one that          *)
(* loop_setup was working on when it raised.                               *)
BoundIsTracked ==
  \A l \in Loops : Ours(l) => l \in ToSet(loops) \/ (l = no /\ ~bind[l].placed)

(* Devices of other programs are neither cleared nor marked for clearing,  *)
(* however GET_FREE and CONFIGURE interleave with what those programs do.  *)
OthersUntouched ==
  [][\A l \in Loops : bind[l] = Theirs =>
       l \notin auto' /\ (bind'[l] = Theirs \/ OtherClears(l))]_vars

(* The order in which proc_image comes to the images.                      *)
Before(i, j) ==
  \E k, l \in 1 .. Len(Order) : k < l /\ Order[k] = i /\ Order[l] = j

(* Nothing in the configuration sends the files of an image elsewhere: its *)
(* fstab section names no other target, no file system before it has the   *)
(* same target and no fstab section, and no other has the same source.     *)
(* The code lets all three pass.                                           *)
Uncontested(i) ==
  /\ Target(i) = MountAt(i)
  /\ \A j \in Images : MountAt(j) # None =>
       /\ Before(j, i) /\ Source(j) = None => Target(j) # Target(i)
       /\ j # i => SourceOf(j) # SourceOf(i)

(* Each file system with a mount point gets the files copied to itself:    *)
(* copy's mount point, the targets and sources of ctx.mtab and the devices *)
(* of ctx.fsmap come back to the device it was made on.  So two file       *)
(* systems with one target never both get their copy when the first is in  *)
(* the fstab; when it is not, proc_fstab sees no duplicate and the files of *)
(* the second go to the first, which is one of the cases left out here.    *)
CopyReachesOwn ==
  \A i \in Images : copied[i] # None /\ Uncontested(i) => copied[i] = device[i]

(* After a cleanup that got through, the host gets back every loop device  *)
(* cleanup knew of, though disks are detached while their partitions are   *)
(* still bound and udev may have any of them open.  What stays is a disk   *)
(* with a partition whose device loop_setup bound and did not report.      *)
AllDetached ==
  pc = "done" ~>
    \A l \in ToSet(loops) : Ours(l) => \E k \in Openers(l) : ~bind[k].placed

=============================================================================
