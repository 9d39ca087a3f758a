-------------------------- MODULE ImageBuildProofs --------------------------
(***************************************************************************)
(* Proofs about ImageBuild, for any tree of images and any loop devices:   *)
(* whatever other programs and udev do on the same host, the builder       *)
(* writes images in their place, knows what it has bound, and leaves the   *)
(* devices of others alone.                                                *)
(*                                                                         *)
(* Each file system gets the files copied to itself, unless its section    *)
(* says otherwise: its target leads over ctx.mtab to a source and this one *)
(* over ctx.fsmap to a device, filled in by proc_fstab while the images    *)
(* were made and looked up by mount_all when they all were.                *)
(***************************************************************************)
EXTENDS ImageBuild, WellFoundedInduction, TLAPS

Placing == {"prepare", "free", "configure", "status", "content"}
Detaching == {"detach", "done"}

Bound ==
  [by : {"us"}, image : Images, placed : BOOLEAN, behind : Images \cup Loops \cup {None}]

TypeOK ==
  /\ bind \in [Loops -> {Free, Theirs} \cup Bound]
  /\ auto \subseteq Loops
  /\ loops \in Seq(Loops)
  /\ device \in [Images -> Images \cup Loops \cup {None}]
  /\ no \in Loops \cup {None}
  /\ pc \in Placing \cup Detaching \cup {"fstab", "post", "cleanup", "stuck"}

NoRepeats(s) == \A k, l \in 1 .. Len(s) : k # l => s[k] # s[l]

(* Before cleanup detaches, every device in ctx.loops is bound by this     *)
(* build and in no other place of the list; while it detaches, those still *)
(* to do are.  A device that waits for its last close is bound by us.      *)
Holding ==
  /\ pc \in {"prepare", "free", "content"} => no = None
  /\ pc \in {"configure", "status"} => no \in Loops
  /\ pc = "status" => Ours(no) /\ \A k \in 1 .. Len(loops) : loops[k] # no
  /\ \A l \in auto : Ours(l)
  /\ pc \notin Detaching =>
       auto = {} /\ NoRepeats(loops) /\ \A k \in 1 .. Len(loops) : Ours(loops[k])
  /\ pc = "detach" =>
       /\ todo \in Seq(Loops) /\ NoRepeats(todo)
       /\ \A k \in 1 .. Len(todo) : Ours(todo[k]) /\ todo[k] \notin auto

(* What is still to do is the end of Order.                                *)
RestOfOrder ==
  /\ todo \in Seq(Images) /\ Len(todo) <= Len(Order)
  /\ \A k \in 1 .. Len(todo) : todo[k] = Order[Len(Order) - Len(todo) + k]

Done(i) == \A k \in 1 .. Len(todo) : todo[k] # i
Settled(i) == Kind[i] # "plain" => device[i] \in Loops /\ InPlace(i)

(* While images are prepared, the devices of those before are in place.    *)
Placed ==
  pc \in Placing =>
    /\ RestOfOrder
    /\ pc # "prepare" => todo # <<>>
    /\ \A i \in Images : Done(i) => Settled(i)
    /\ pc = "content" => Settled(Now)
    /\ pc = "status" => bind[no] = Binding(FALSE)

IInv == TypeOK /\ Holding /\ BoundIsTracked /\ Placed

-----------------------------------------------------------------------------
(* What the proofs use of the assumption, piece by piece.                  *)
LEMMA OrderFacts ==
  /\ Order \in Seq(Images) /\ Len(Order) \in Nat
  /\ \A i \in Images : \E k \in 1 .. Len(Order) : Order[k] = i
  /\ \A k, l \in 1 .. Len(Order) : k # l => Order[k] # Order[l]
  /\ None \notin Images /\ None \notin Loops
BY ImageBuildAssumption

(* A partition lies on a disk that comes before it in the order.          *)
LEMMA ParentFacts ==
  ASSUME NEW i \in Images, Parent[i] # None
  PROVE  /\ Parent[i] \in Images /\ Kind[Parent[i]] = "disk" /\ Kind[i] # "plain"
         /\ \A k, l \in 1 .. Len(Order) : Order[k] = Parent[i] /\ Order[l] = i => k < l
BY ImageBuildAssumption

(* The first element of a list that is not empty, and the rest.            *)
LEMMA HeadAndTail ==
  ASSUME NEW S, NEW s \in Seq(S), s # <<>>
  PROVE  /\ Len(s) \in Nat \ {0} /\ Head(s) = s[1] /\ s[1] \in S
         /\ Tail(s) \in Seq(S) /\ Len(Tail(s)) = Len(s) - 1
         /\ \A k \in 1 .. Len(Tail(s)) : Tail(s)[k] = s[k + 1]
<1>1. Len(s) \in Nat \ {0}
  OBVIOUS
<1>2. QED BY <1>1

(* A disk comes before its partitions: it is done when one of them is next.*)
LEMMA ParentIsDone ==
  ASSUME RestOfOrder, todo # <<>>, Parent[Now] # None
  PROVE  Now \in Images /\ Parent[Now] \in Images /\ Done(Parent[Now])
<1> DEFINE m == Len(Order) - Len(todo)
<1>0. Order \in Seq(Images) /\ todo \in Seq(Images) /\ Len(Order) \in Nat
  BY OrderFacts, ParentFacts DEF RestOfOrder
<1>1. Len(todo) \in Nat /\ Len(todo) >= 1 /\ Now = todo[1]
  BY <1>0, HeadAndTail DEF Now
<1>2. Now \in Images /\ Now = Order[m + 1] /\ m + 1 \in 1 .. Len(Order)
  BY <1>0, <1>1 DEF RestOfOrder
<1>3. Parent[Now] \in Images
  BY <1>2, <1>0, <1>1, OrderFacts, ParentFacts
<1>4. ASSUME NEW k \in 1 .. Len(todo), todo[k] = Parent[Now] PROVE FALSE
  <2>1. Order[m + k] = Parent[Now] /\ m + k \in 1 .. Len(Order)
    BY <1>0, <1>1, <1>4 DEF RestOfOrder
  <2>2. \A a, b \in 1 .. Len(Order) : Order[a] = Parent[Now] /\ Order[b] = Now => a < b
    BY <1>2, ParentFacts
  <2>3. m + k < m + 1
    BY <2>1, <2>2, <1>2
  <2>4. QED BY <2>3, <1>0, <1>1
<1>5. QED BY <1>2, <1>3, <1>4 DEF Done

(* No image that is done lies on the one that is next.                     *)
LEMMA NextIsNoParent ==
  ASSUME RestOfOrder, todo # <<>>, NEW i \in Images, Done(i)
  PROVE  Parent[i] # Now /\ i # Now /\ Now \in Images
<1> DEFINE m == Len(Order) - Len(todo)
<1>0. Order \in Seq(Images) /\ todo \in Seq(Images) /\ Len(Order) \in Nat
  BY OrderFacts, ParentFacts DEF RestOfOrder
<1>1. Len(todo) \in Nat /\ Len(todo) >= 1 /\ Now = todo[1]
  BY <1>0, HeadAndTail DEF Now
<1>2. Now \in Images /\ Now = Order[m + 1] /\ m + 1 \in 1 .. Len(Order)
  BY <1>0, <1>1 DEF RestOfOrder
<1>3. i # Now
  BY <1>1 DEF Done
<1>4. PICK l \in 1 .. Len(Order) : Order[l] = i
  BY OrderFacts, ParentFacts
<1>5. l <= m
  <2>1. SUFFICES ASSUME l > m PROVE FALSE
    BY <1>0, <1>1
  <2>2. l - m \in 1 .. Len(todo) /\ todo[l - m] = Order[m + (l - m)]
    BY <2>1, <1>0, <1>1 DEF RestOfOrder
  <2>3. m + (l - m) = l
    BY <1>0, <1>1
  <2>4. QED BY <2>2, <2>3, <1>4 DEF Done
<1>6. Parent[i] # Now
  <2>1. SUFFICES ASSUME Parent[i] = Now PROVE FALSE
    OBVIOUS
  <2>2. Parent[i] # None
    BY <2>1, <1>2, OrderFacts
  <2>3. m + 1 < l
    BY <2>1, <2>2, <1>2, <1>4, OrderFacts, ParentFacts
  <2>4. QED BY <2>3, <1>5, <1>0, <1>1
<1>7. QED BY <1>2, <1>3, <1>6

-----------------------------------------------------------------------------
(* The first image is prepared with nothing bound by this build.           *)
LEMMA InitIInv == Init => IInv
<1> SUFFICES ASSUME Init PROVE IInv
  OBVIOUS
<1>1. TypeOK
  BY OrderFacts DEF Init, TypeOK, Placing
<1>2. Holding
  BY DEF Init, Holding, Free, Theirs, Ours, NoRepeats, Detaching
<1>3. BoundIsTracked
  BY DEF Init, BoundIsTracked, Free, Theirs, Ours
<1>4. Placed
  <2>1. RestOfOrder
    BY OrderFacts DEF Init, RestOfOrder
  <2>2. \A i \in Images : ~Done(i)
    BY OrderFacts DEF Init, Done
  <2>3. QED BY <2>1, <2>2 DEF Init, Placed
<1>5. QED BY <1>1, <1>2, <1>3, <1>4 DEF IInv

(* Every step keeps the types.                                             *)
LEMMA TypeStep == ASSUME IInv, [Next]_vars PROVE TypeOK'
<1> USE DEF IInv, TypeOK, kernel, tables, Goto, Placing, Detaching
<1>0. pc \in {"prepare", "free", "configure", "status", "content"} =>
        todo \in Seq(Images) /\ (pc # "prepare" => Now \in Images)
  BY HeadAndTail DEF Placed, RestOfOrder, Now
<1>1. CASE Raise \/ ProcImageDone \/ StatusFails \/ PostDone \/ DetachDone \/ Unmount \/ MountAll
  BY <1>1 DEF Raise, ProcImageDone, StatusFails, PostDone, DetachDone, Unmount, MountAll, Building
<1>2. CASE Prepare
  <2>1. Now \in Images
    BY <1>0, <1>2, HeadAndTail DEF Prepare, Now
  <2>2. QED BY <1>2, <2>1 DEF Prepare
<1>3. ASSUME NEW l \in Loops, GetFree(l) PROVE TypeOK'
  BY <1>3 DEF GetFree
<1>4. ASSUME NEW b \in BOOLEAN, pc \in {"configure", "status"} PROVE Binding(b) \in Bound /\ no \in Loops
  <2>1. no \in Loops /\ Now \in Images
    BY <1>0, <1>4 DEF Holding
  <2>2. (IF Parent[Now] = None THEN Now ELSE device[Parent[Now]]) \in Images \cup Loops \cup {None}
    BY <2>1, ParentFacts
  <2>3. QED BY <2>1, <2>2 DEF Binding, Bound
<1>5. CASE Configure
  <2>1. no \in Loops /\ Now \in Images /\ Binding(TRUE) \in Bound /\ pc = "configure"
    BY <1>0, <1>4, <1>5 DEF Configure
  <2>2. CASE bind[no] = Free
    <3>1. bind' \in [Loops -> {Free, Theirs} \cup Bound]
      BY <1>5, <2>1, <2>2 DEF Configure
    <3>2. loops' \in Seq(Loops) /\ device' \in [Images -> Images \cup Loops \cup {None}]
      BY <1>5, <2>1, <2>2 DEF Configure, Record
    <3>3. QED BY <1>5, <2>2, <3>1, <3>2 DEF Configure, Record
  <2>3. CASE bind[no] # Free
    BY <1>5, <2>3 DEF Configure
  <2>4. QED BY <2>2, <2>3
<1>6. CASE SetFd
  BY <1>4, <1>6 DEF SetFd
<1>7. CASE SetStatus
  <2>1. no \in Loops /\ bind[no] \in Bound /\ Now \in Images
    BY <1>0, <1>7 DEF SetStatus, Holding, Ours, Free, Theirs
  <2>2. [bind[no] EXCEPT !.placed = TRUE] \in Bound
    BY <2>1 DEF Bound
  <2>3. QED BY <1>7, <2>1, <2>2 DEF SetStatus, Record
<1>8. CASE Content
  BY <1>8 DEF Content
<1>9. CASE Post
  BY <1>9 DEF Post
<1>10. CASE Detach
  <2>1. Now \in Loops
    BY <1>10, HeadAndTail DEF Detach, Holding, Now
  <2>2. QED BY <1>10, <2>1 DEF Detach
<1>11. ASSUME NEW l \in Loops, Host(l) PROVE TypeOK'
  BY <1>11 DEF Host, AutoClear, Probe, ProbeEnds, OtherBinds, OtherClears
<1>12. CASE UNCHANGED vars
  BY <1>12 DEF vars
<1>13. QED BY <1>1, <1>2, <1>3, <1>5, <1>6, <1>7, <1>8, <1>9, <1>10, <1>11, <1>12 DEF Next, Builder

(* What Record appends is in ctx.loops once, and last.                     *)
LEMMA Appended ==
  ASSUME loops \in Seq(Loops), no \in Loops
  PROVE  /\ Append(loops, no) \in Seq(Loops)
         /\ Len(Append(loops, no)) = Len(loops) + 1 /\ Len(loops) \in Nat
         /\ \A k \in 1 .. Len(loops) : Append(loops, no)[k] = loops[k]
         /\ Append(loops, no)[Len(loops) + 1] = no
OBVIOUS

(* Before cleanup detaches, a step that leaves ctx.loops and the devices in*)
(* it alone keeps what is known of both.                                   *)
LEMMA HoldingKept ==
  ASSUME TypeOK, Holding, pc \notin Detaching, pc' \notin Detaching,
         UNCHANGED <<auto, loops>>,
         \A l \in Loops : Ours(l) => Ours(l)',
         pc' \in {"prepare", "free", "content"} => no' = None,
         pc' \in {"configure", "status"} => no' \in Loops,
         pc' = "status" => Ours(no)' /\ \A k \in 1 .. Len(loops) : loops[k] # no'
  PROVE  Holding'
<1>1. \A k \in 1 .. Len(loops) : loops[k] \in Loops
  BY DEF TypeOK
<1>2. QED BY <1>1 DEF Holding, TypeOK, NoRepeats, Detaching

(* loop_setup's device is ours when one of its calls has bound or placed it.*)
LEMMA NowOurs ==
  ASSUME TypeOK, no \in Loops,
         \/ \E b \in BOOLEAN : bind' = [bind EXCEPT ![no] = Binding(b)]
         \/ Ours(no) /\ bind' = [bind EXCEPT ![no].placed = TRUE]
  PROVE  \A l \in Loops : Ours(l)' <=> Ours(l) \/ l = no
<1>1. CASE \E b \in BOOLEAN : bind' = [bind EXCEPT ![no] = Binding(b)]
  BY <1>1 DEF Ours, Binding, TypeOK
<1>2. CASE Ours(no) /\ bind' = [bind EXCEPT ![no].placed = TRUE]
  <2>1. bind[no] \in Bound
    BY <1>2 DEF TypeOK, Ours, Free, Theirs
  <2>2. [bind[no] EXCEPT !.placed = TRUE].by = "us"
    BY <2>1 DEF Bound
  <2>3. QED BY <1>2, <2>2 DEF Ours, TypeOK
<1>3. QED BY <1>1, <1>2

(* The end of setup_loop: the new device joins those in ctx.loops.         *)
LEMMA HoldingRecorded ==
  ASSUME TypeOK, Holding, pc \in {"configure", "status"}, pc' = "content", UNCHANGED auto,
         Record, \A k \in 1 .. Len(loops) : loops[k] # no,
         \A l \in Loops : Ours(l)' <=> Ours(l) \/ l = no
  PROVE  Holding'
<1>1. no \in Loops /\ no' = None /\ loops' = Append(loops, no) /\ auto = {} /\ auto' = {}
  BY DEF Holding, Record, Detaching
<1>2. \A k \in 1 .. Len(loops) : loops[k] \in Loops
  BY DEF TypeOK
<1>3. (\A k \in 1 .. Len(loops) : Ours(loops[k]))'
  <2>1. Len(loops') = Len(loops) + 1 /\ Len(loops) \in Nat
        /\ (\A k \in 1 .. Len(loops) : loops'[k] = loops[k]) /\ loops'[Len(loops) + 1] = no
    BY <1>1, Appended DEF TypeOK
  <2>2. \A k \in 1 .. Len(loops) : Ours(loops[k])
    BY DEF Holding, Detaching
  <2>3. \A k \in 1 .. Len(loops) : bind'[loops[k]].by = "us"
    BY <1>2, <2>2 DEF Ours
  <2>4. bind'[no].by = "us"
    BY <1>1 DEF Ours
  <2>5. \A k \in 1 .. Len(loops') : k \in 1 .. Len(loops) \/ k = Len(loops) + 1
    BY <2>1
  <2>6. QED BY <2>1, <2>3, <2>4, <2>5 DEF Ours
<1>4. NoRepeats(loops)'
  BY <1>1, Appended DEF NoRepeats, Holding, TypeOK, Detaching
<1>5. QED BY <1>1, <1>3, <1>4 DEF Holding, Detaching

(* The device that LOOP_CTL_GET_FREE named, while it is free, is not one of*)
(* those recorded.                                                         *)
LEMMA FreeIsNew ==
  ASSUME TypeOK, Holding, pc = "configure", bind[no] = Free
  PROVE  no \in Loops /\ \A k \in 1 .. Len(loops) : loops[k] # no
BY DEF Holding, Ours, Free, Detaching

(* Every step keeps what is known of the devices that are held.            *)
LEMMA HoldingStep == ASSUME IInv, [Next]_vars PROVE Holding'
<1> USE DEF IInv, kernel, tables, Goto, Detaching
<1>0. \A k \in 1 .. Len(loops) : loops[k] \in Loops
  BY DEF TypeOK
<1>1. CASE Raise \/ ProcImageDone \/ StatusFails \/ PostDone \/ MountAll \/ Prepare \/ Content \/ Post
  <2>1. /\ pc \notin Detaching /\ pc' \notin Detaching /\ UNCHANGED <<auto, loops, bind, no>>
        /\ pc' \notin {"configure", "status"}
        /\ pc' \in {"prepare", "free", "content"} => pc \in {"prepare", "free", "content"}
    BY <1>1 DEF Raise, ProcImageDone, StatusFails, PostDone, MountAll, Prepare, Content, Post, Building
  <2>2. \A l \in Loops : Ours(l) => Ours(l)'
    BY <2>1 DEF Ours
  <2>3. no' = no /\ (pc \in {"prepare", "free", "content"} => no = None)
    BY <2>1 DEF Holding
  <2>4. QED BY <2>1, <2>2, <2>3, HoldingKept
<1>2. ASSUME NEW l \in Loops, GetFree(l) PROVE Holding'
  <2>1. /\ pc = "free" /\ pc' = "configure" /\ UNCHANGED <<auto, loops, bind>> /\ no' = l
    BY <1>2 DEF GetFree
  <2>2. \A k \in Loops : Ours(k) => Ours(k)'
    BY <2>1 DEF Ours
  <2>3. QED BY <2>1, <2>2, HoldingKept
<1>3. CASE Configure
  <2>1. CASE bind[no] = Free
    <3>1. bind' = [bind EXCEPT ![no] = Binding(TRUE)] /\ pc = "configure" /\ pc' = "content"
          /\ UNCHANGED auto /\ Record
      BY <1>3, <2>1 DEF Configure
    <3>2. no \in Loops /\ \A k \in 1 .. Len(loops) : loops[k] # no
      BY <3>1, <2>1, FreeIsNew
    <3>3. \A l \in Loops : Ours(l)' <=> Ours(l) \/ l = no
      BY <3>1, <3>2, NowOurs
    <3>4. QED BY <3>1, <3>2, <3>3, HoldingRecorded
  <2>2. CASE bind[no] # Free
    <3>1. pc = "configure" /\ pc' = "cleanup" /\ UNCHANGED <<auto, loops, bind, no>>
      BY <1>3, <2>2 DEF Configure
    <3>2. \A k \in Loops : Ours(k) => Ours(k)'
      BY <3>1 DEF Ours
    <3>3. QED BY <3>1, <3>2, HoldingKept
  <2>3. QED BY <2>1, <2>2
<1>4. CASE SetFd
  <2>1. CASE bind[no] = Free
    <3>1. bind' = [bind EXCEPT ![no] = Binding(FALSE)] /\ pc = "configure" /\ pc' = "status"
          /\ UNCHANGED <<auto, loops, no>>
      BY <1>4, <2>1 DEF SetFd
    <3>2. no \in Loops /\ \A k \in 1 .. Len(loops) : loops[k] # no
      BY <3>1, <2>1, FreeIsNew
    <3>3. \A l \in Loops : Ours(l)' <=> Ours(l) \/ l = no
      BY <3>1, <3>2, NowOurs
    <3>4. Ours(no)'
      BY <3>1, <3>2, <3>3 DEF Ours
    <3>5. QED BY <3>1, <3>2, <3>3, <3>4, HoldingKept
  <2>2. CASE bind[no] # Free
    <3>1. pc = "configure" /\ pc' = "cleanup" /\ UNCHANGED <<auto, loops, bind, no>>
      BY <1>4, <2>2 DEF SetFd
    <3>2. \A k \in Loops : Ours(k) => Ours(k)'
      BY <3>1 DEF Ours
    <3>3. QED BY <3>1, <3>2, HoldingKept
  <2>3. QED BY <2>1, <2>2
<1>5. CASE SetStatus
  <2>1. /\ pc = "status" /\ pc' = "content" /\ UNCHANGED auto /\ Record
        /\ bind' = [bind EXCEPT ![no].placed = TRUE]
    BY <1>5 DEF SetStatus
  <2>2. no \in Loops /\ Ours(no) /\ \A k \in 1 .. Len(loops) : loops[k] # no
    BY <2>1 DEF Holding
  <2>3. \A l \in Loops : Ours(l)' <=> Ours(l) \/ l = no
    BY <2>1, <2>2, NowOurs
  <2>4. QED BY <2>1, <2>2, <2>3, HoldingRecorded
<1>6. CASE Unmount
  <2>1. pc = "cleanup" /\ UNCHANGED <<auto, loops, bind, no>> /\ todo' = loops
        /\ pc' \in {"detach", "stuck"}
    BY <1>6 DEF Unmount
  <2>2. auto = {} /\ NoRepeats(loops) /\ \A k \in 1 .. Len(loops) : Ours(loops[k])
    BY <2>1 DEF Holding
  <2>3. QED BY <2>1, <2>2, <1>0 DEF Holding, TypeOK, NoRepeats, Ours
<1>7. CASE Detach
  <2>1. pc = "detach" /\ pc' = "detach" /\ todo \in Seq(Loops) /\ todo # <<>> /\ todo' = Tail(todo)
        /\ UNCHANGED <<loops, no>>
    BY <1>7 DEF Detach, Holding
  <2>2. Now \in Loops /\ Ours(Now) /\ Now \notin auto
    BY <2>1, HeadAndTail DEF Holding, Now
  <2>3. /\ todo' \in Seq(Loops) /\ NoRepeats(todo)'
        /\ \A k \in 1 .. Len(todo') : todo'[k] # Now /\ Ours(todo'[k]) /\ todo'[k] \notin auto
    BY <2>1, HeadAndTail DEF Holding, Now, NoRepeats
  <2>4. CASE auto' = auto \cup {Now} /\ UNCHANGED bind
    BY <2>1, <2>2, <2>3, <2>4 DEF Holding, Ours
  <2>5. CASE bind' = [bind EXCEPT ![Now] = Free] /\ UNCHANGED auto
    <3>1. \A l \in Loops : l # Now => Ours(l)' = Ours(l)
      BY <2>5 DEF Ours, TypeOK
    <3>2. \A l \in auto : l # Now /\ l \in Loops
      BY <2>2 DEF TypeOK
    <3>3. \A k \in 1 .. Len(todo') : todo'[k] \in Loops
      BY <2>3
    <3>4. QED BY <2>1, <2>2, <2>3, <2>5, <3>1, <3>2, <3>3 DEF Holding
  <2>6. QED BY <1>7, <2>4, <2>5 DEF Detach
<1>8. CASE DetachDone
  <2>1. pc' = "done" /\ UNCHANGED <<auto, loops, bind, no>>
    BY <1>8 DEF DetachDone
  <2>2. QED BY <2>1 DEF Holding, Ours
<1>9. ASSUME NEW l \in Loops, Host(l) PROVE Holding'
  <2>1. UNCHANGED <<loops, no, pc, todo>>
    BY <1>9 DEF Host, AutoClear, Probe, ProbeEnds, OtherBinds, OtherClears
  <2>2. auto' \subseteq auto
    BY <1>9 DEF Host, AutoClear, Probe, ProbeEnds, OtherBinds, OtherClears
  <2>3. \A k \in Loops : Ours(k) /\ ~Ours(k)' => k = l /\ l \in auto /\ l \notin auto'
    BY <1>9 DEF Host, AutoClear, Probe, ProbeEnds, OtherBinds, OtherClears, Ours, TypeOK, Free, Theirs
  <2>4. CASE pc \notin Detaching
    <3>1. auto = {} /\ auto' = {}
      BY <2>2, <2>4 DEF Holding
    <3>2. \A k \in Loops : Ours(k) => Ours(k)'
      BY <2>3, <3>1
    <3>3. pc = "status" => Ours(no)' /\ no \in Loops
      BY <2>1, <3>2 DEF Holding, Ours
    <3>4. QED BY <2>1, <2>4, <3>1, <3>2, <3>3, HoldingKept DEF Holding
  <2>5. CASE pc \in Detaching
    <3>1. \A k \in auto' : Ours(k)'
      BY <2>2, <2>3 DEF Holding, TypeOK
    <3>2. pc = "detach" => \A k \in 1 .. Len(todo) : todo[k] \in Loops /\ Ours(todo[k]) /\ todo[k] \notin auto
      BY DEF Holding
    <3>3. pc = "detach" => \A k \in 1 .. Len(todo) : Ours(todo[k])' /\ todo[k] \notin auto'
      BY <2>1, <2>2, <2>3, <3>2 DEF Ours
    <3>4. QED BY <2>1, <2>5, <3>1, <3>3 DEF Holding
  <2>6. QED BY <2>4, <2>5
<1>10. CASE UNCHANGED vars
  BY <1>10 DEF vars, Holding, Ours, NoRepeats
<1>11. QED BY <1>1, <1>2, <1>3, <1>4, <1>5, <1>6, <1>7, <1>8, <1>9, <1>10 DEF Next, Builder

(* Every step keeps every bound device known: in ctx.loops, or the one that*)
(* loop_setup is working on.                                               *)
LEMMA TrackedStep == ASSUME IInv, [Next]_vars PROVE BoundIsTracked'
<1> USE DEF IInv, kernel, tables, Goto, Detaching
<1>1. CASE UNCHANGED <<bind, loops, no>>
  BY <1>1 DEF BoundIsTracked, Ours
<1>2. CASE Raise \/ ProcImageDone \/ StatusFails \/ PostDone \/ MountAll \/ Prepare \/ Content \/ Post
             \/ Unmount \/ DetachDone \/ UNCHANGED vars
  BY <1>1, <1>2 DEF Raise, ProcImageDone, StatusFails, PostDone, MountAll, Prepare, Content, Post,
     Unmount, DetachDone, vars
<1>3. ASSUME NEW l \in Loops, GetFree(l) PROVE BoundIsTracked'
  <2>1. no = None /\ UNCHANGED <<bind, loops>>
    BY <1>3 DEF GetFree, Holding
  <2>2. \A k \in Loops : Ours(k) => k \in ToSet(loops)
    BY <2>1, OrderFacts DEF BoundIsTracked
  <2>3. QED BY <2>1, <2>2 DEF BoundIsTracked, Ours
<1>4. ASSUME pc \in {"configure", "status"}, no \in Loops, Record,
             \A l \in Loops : Ours(l)' <=> Ours(l) \/ l = no
      PROVE  BoundIsTracked'
  <2>1. loops' = Append(loops, no)
    BY <1>4 DEF Record
  <2>2. \A l \in ToSet(loops) \cup {no} : l \in ToSet(loops')
    BY <2>1, <1>4, Appended DEF ToSet, TypeOK
  <2>3. QED BY <1>4, <2>2 DEF BoundIsTracked
<1>5. CASE Configure
  <2>1. CASE bind[no] = Free
    <3>1. bind' = [bind EXCEPT ![no] = Binding(TRUE)] /\ pc = "configure" /\ Record
      BY <1>5, <2>1 DEF Configure
    <3>2. no \in Loops
      BY <3>1, <2>1, FreeIsNew
    <3>3. QED BY <1>4, <3>1, <3>2, NowOurs
  <2>2. QED BY <1>1, <1>5, <2>1 DEF Configure
<1>6. CASE SetFd
  <2>1. CASE bind[no] = Free
    <3>1. bind' = [bind EXCEPT ![no] = Binding(FALSE)] /\ pc = "configure" /\ UNCHANGED <<loops, no>>
      BY <1>6, <2>1 DEF SetFd
    <3>2. no \in Loops
      BY <3>1, <2>1, FreeIsNew
    <3>3. \A l \in Loops : l # no => bind'[l] = bind[l]
      BY <3>1 DEF TypeOK
    <3>4. ~bind'[no].placed
      BY <3>1, <3>2 DEF TypeOK, Binding
    <3>5. QED BY <3>1, <3>3, <3>4 DEF BoundIsTracked, Ours
  <2>2. QED BY <1>1, <1>6, <2>1 DEF SetFd
<1>7. CASE SetStatus
  <2>1. pc = "status" /\ Record /\ bind' = [bind EXCEPT ![no].placed = TRUE]
    BY <1>7 DEF SetStatus
  <2>2. no \in Loops /\ Ours(no)
    BY <2>1 DEF Holding
  <2>3. QED BY <1>4, <2>1, <2>2, NowOurs
<1>8. CASE Detach
  <2>1. UNCHANGED <<loops, no>> /\ \A l \in Loops : bind'[l] = bind[l] \/ bind'[l] = Free
    BY <1>8 DEF Detach, TypeOK
  <2>2. QED BY <2>1 DEF BoundIsTracked, Ours, Free
<1>9. ASSUME NEW l \in Loops, Host(l) PROVE BoundIsTracked'
  <2>1. /\ UNCHANGED <<loops, no>>
        /\ \A k \in Loops : bind'[k] = bind[k] \/ bind'[k] = Free \/ bind'[k] = Theirs
    BY <1>9 DEF Host, AutoClear, Probe, ProbeEnds, OtherBinds, OtherClears, TypeOK
  <2>2. QED BY <2>1 DEF BoundIsTracked, Ours, Free, Theirs
<1>10. QED BY <1>2, <1>3, <1>5, <1>6, <1>7, <1>8, <1>9 DEF Next, Builder

(* An image stays in place while nothing of its own changes.               *)
LEMMA SettledKept ==
  ASSUME NEW i \in Images, Settled(i), device'[i] = device[i],
         Parent[i] # None => device'[Parent[i]] = device[Parent[i]],
         device[i] \in Loops /\ Ours(device[i]) /\ bind[device[i]].placed =>
           bind'[device[i]] = bind[device[i]]
  PROVE  Settled(i)'
BY DEF Settled, InPlace, Ours

(* While images are prepared, no device in place is bound anew, placed     *)
(* again, or cleared.                                                      *)
LEMMA InPlaceKept ==
  ASSUME IInv, [Next]_vars, pc \in Placing,
         NEW l \in Loops, Ours(l), bind[l].placed
  PROVE  bind'[l] = bind[l]
<1> USE DEF IInv, kernel, tables, Goto, Placing, Detaching
<1>1. CASE UNCHANGED bind
  BY <1>1
<1>2. CASE Raise \/ ProcImageDone \/ StatusFails \/ PostDone \/ MountAll \/ Prepare \/ Content \/ Post
             \/ Unmount \/ DetachDone \/ UNCHANGED vars \/ \E k \in Loops : GetFree(k)
  BY <1>1, <1>2 DEF Raise, ProcImageDone, StatusFails, PostDone, MountAll, Prepare, Content, Post,
     Unmount, DetachDone, vars, GetFree
<1>3. CASE Configure \/ SetFd
  <2>1. bind' = bind \/ (bind[no] = Free /\ no \in Loops /\ \E b \in BOOLEAN : bind' = [bind EXCEPT ![no] = Binding(b)])
    BY <1>3 DEF Configure, SetFd, Holding
  <2>2. QED BY <2>1 DEF TypeOK, Ours, Free
<1>4. CASE SetStatus
  <2>1. pc = "status" /\ bind' = [bind EXCEPT ![no].placed = TRUE]
    BY <1>4 DEF SetStatus
  <2>2. no \in Loops /\ Ours(no) /\ no \notin ToSet(loops)
    BY <2>1 DEF Holding, ToSet, TypeOK
  <2>3. l # no
    BY <2>2 DEF BoundIsTracked
  <2>4. QED BY <2>1, <2>3 DEF TypeOK
<1>5. CASE Detach
  BY <1>5 DEF Detach
<1>6. ASSUME NEW k \in Loops, Host(k) PROVE bind'[l] = bind[l]
  <2>1. auto = {}
    BY DEF Holding
  <2>2. QED BY <2>1, <1>6 DEF Host, AutoClear, Probe, ProbeEnds, OtherBinds, OtherClears, Ours, TypeOK,
        Free, Theirs
<1>7. QED BY <1>2, <1>3, <1>4, <1>5, <1>6 DEF Next, Builder

(* The images that are done stay in place while the next one gets a device.*)
LEMMA DoneKept ==
  ASSUME IInv, [Next]_vars, pc \in Placing, pc \in {"prepare", "configure", "status"}, todo # <<>>,
         NEW d, device' = [device EXCEPT ![Now] = d],
         NEW i \in Images, Done(i)
  PROVE  Settled(i)'
<1>1. RestOfOrder /\ Settled(i)
  BY DEF IInv, Placed
<1>2. Parent[i] # Now /\ i # Now /\ Now \in Images
  BY <1>1, NextIsNoParent
<1>3. device'[i] = device[i] /\ (Parent[i] # None => device'[Parent[i]] = device[Parent[i]])
  BY <1>2, ParentFacts DEF IInv, TypeOK
<1>4. QED BY <1>1, <1>3, SettledKept, InPlaceKept

(* What Record leaves in place: the image that loop_setup was called for.  *)
LEMMA RecordSettles ==
  ASSUME IInv, pc \in {"configure", "status"}, no \in Loops, Record, todo' = todo,
         bind'[no].by = "us", bind'[no].image = Now, bind'[no].placed,
         bind'[no].behind = Binding(TRUE).behind
  PROVE  Settled(Now)'
<1>1. RestOfOrder /\ todo # <<>> /\ Now \in Images
  BY HeadAndTail DEF IInv, Placed, Placing, RestOfOrder, Now
<1>2. device' = [device EXCEPT ![Now] = no] /\ device'[Now] = no
  BY <1>1 DEF Record, IInv, TypeOK
<1>3. Parent[Now] # None => Parent[Now] # Now /\ device'[Parent[Now]] = device[Parent[Now]]
  <2>1. SUFFICES ASSUME Parent[Now] # None
                 PROVE  Parent[Now] # Now /\ device'[Parent[Now]] = device[Parent[Now]]
    OBVIOUS
  <2>2. Parent[Now] \in Images /\ Done(Parent[Now])
    BY <2>1, <1>1, ParentIsDone
  <2>3. Parent[Now] # Now
    BY <2>2, <1>1, NextIsNoParent
  <2>4. QED BY <2>2, <2>3, <1>2 DEF IInv, TypeOK
<1>4. Now' = Now
  BY DEF Now
<1>5. QED BY <1>2, <1>3, <1>4 DEF Settled, InPlace, Binding

(* Every step keeps the images in place.                                   *)
LEMMA PlacedStep == ASSUME IInv, [Next]_vars PROVE Placed'
<1> USE DEF kernel, tables, Goto, Placing
<1>1. CASE pc' \notin Placing
  BY <1>1 DEF Placed
<1>2. CASE Raise \/ ProcImageDone \/ StatusFails \/ PostDone \/ MountAll \/ Post \/ Unmount \/ Detach \/ DetachDone
  BY <1>1, <1>2 DEF Raise, ProcImageDone, StatusFails, PostDone, MountAll, Post, Unmount, Detach, DetachDone
<1>3. ASSUME pc \in Placing, pc' \in Placing, UNCHANGED <<todo, device, no>>,
             pc' # "prepare" => todo # <<>>, pc' = "content" => pc = "content",
             pc' = "status" => bind'[no] = Binding(FALSE)
      PROVE  Placed'
  <2>1. RestOfOrder /\ (\A i \in Images : Done(i) => Settled(i)) /\ (pc = "content" => Settled(Now))
    BY <1>3 DEF IInv, Placed
  <2>2. ASSUME NEW i \in Images, Settled(i) PROVE Settled(i)'
    BY <1>3, <2>2, SettledKept, InPlaceKept
  <2>3. RestOfOrder' /\ Now' = Now /\ Binding(FALSE)' = Binding(FALSE) /\ (\A i \in Images : Done(i)' = Done(i))
    BY <1>3, <2>1 DEF RestOfOrder, Now, Binding, Done
  <2>4. pc' = "content" => Settled(Now)'
    <3>1. SUFFICES ASSUME pc' = "content" PROVE Settled(Now)'
      OBVIOUS
    <3>2. Now \in Images /\ Settled(Now)
      BY <1>3, <3>1, <2>1, HeadAndTail DEF RestOfOrder, Now
    <3>3. QED BY <3>2, <2>3, <2>2 DEF Settled, InPlace
  <2>5. QED BY <1>3, <2>1, <2>2, <2>3, <2>4 DEF Placed
<1>4. ASSUME pc \in Placing, pc' = "content", UNCHANGED todo, todo # <<>>, Settled(Now)',
             NEW d, device' = [device EXCEPT ![Now] = d], pc \in {"prepare", "configure", "status"}
      PROVE  Placed'
  <2>1. RestOfOrder' /\ (\A i \in Images : Done(i)' = Done(i))
    BY <1>4 DEF IInv, Placed, RestOfOrder, Done
  <2>2. \A i \in Images : Done(i) => Settled(i)'
    BY <1>4, DoneKept
  <2>3. QED BY <1>4, <2>1, <2>2 DEF Placed
<1>5. CASE Prepare
  <2>1. pc = "prepare" /\ todo # <<>> /\ UNCHANGED <<bind, todo, no>> /\ pc' \in {"content", "free"}
    BY <1>5 DEF Prepare
  <2>2. CASE Kind[Now] = "plain"
    <3>1. pc' = "content" /\ device' = [device EXCEPT ![Now] = Now]
      BY <1>5, <2>2 DEF Prepare
    <3>2. Settled(Now)'
      BY <2>1, <2>2 DEF Settled, Now
    <3>3. QED BY <1>4, <2>1, <3>1, <3>2
  <2>3. CASE Kind[Now] # "plain"
    BY <1>3, <1>5, <2>1, <2>3 DEF Prepare
  <2>4. QED BY <2>2, <2>3
<1>6. CASE Configure
  <2>1. CASE bind[no] = Free
    <3>1. /\ bind' = [bind EXCEPT ![no] = Binding(TRUE)] /\ pc = "configure" /\ pc' = "content" /\ Record
          /\ todo' = todo
      BY <1>6, <2>1 DEF Configure
    <3>2. no \in Loops /\ bind'[no] = Binding(TRUE) /\ todo # <<>>
      BY <3>1, <2>1, FreeIsNew DEF IInv, TypeOK, Placed
    <3>3. Settled(Now)'
      BY <3>1, <3>2, RecordSettles DEF Binding
    <3>4. QED BY <1>4, <3>1, <3>2, <3>3 DEF Record
  <2>2. QED BY <1>1, <1>6, <2>1 DEF Configure
<1>7. CASE SetFd
  <2>1. CASE bind[no] = Free
    <3>1. /\ bind' = [bind EXCEPT ![no] = Binding(FALSE)] /\ pc = "configure" /\ pc' = "status"
          /\ UNCHANGED <<todo, device, no>>
      BY <1>7, <2>1 DEF SetFd
    <3>2. bind'[no] = Binding(FALSE) /\ todo # <<>>
      BY <3>1, <2>1, FreeIsNew DEF IInv, TypeOK, Placed
    <3>3. QED BY <1>3, <3>1, <3>2
  <2>2. QED BY <1>1, <1>7, <2>1 DEF SetFd
<1>8. CASE SetStatus
  <2>1. pc = "status" /\ pc' = "content" /\ todo' = todo /\ Record /\ bind' = [bind EXCEPT ![no].placed = TRUE]
    BY <1>8 DEF SetStatus
  <2>2. no \in Loops /\ bind[no] = Binding(FALSE) /\ todo # <<>>
    BY <2>1 DEF IInv, Holding, Placed
  <2>3. bind'[no].by = "us" /\ bind'[no].image = Now /\ bind'[no].placed
        /\ bind'[no].behind = Binding(TRUE).behind
    <3>1. bind'[no] = [bind[no] EXCEPT !.placed = TRUE]
      BY <2>1, <2>2 DEF IInv, TypeOK
    <3>2. QED BY <2>2, <3>1 DEF Binding
  <2>4. Settled(Now)'
    BY <2>1, <2>2, <2>3, RecordSettles
  <2>5. QED BY <1>4, <2>1, <2>2, <2>4 DEF Record
<1>9. CASE Content
  <2>1. pc = "content" /\ todo' = Tail(todo) /\ UNCHANGED <<bind, device>> /\ pc' \in {"prepare", "cleanup"}
    BY <1>9 DEF Content
  <2>2. RestOfOrder /\ todo # <<>> /\ Settled(Now) /\ \A i \in Images : Done(i) => Settled(i)
    BY <2>1 DEF IInv, Placed
  <2>3. RestOfOrder'
    <3>1. /\ todo' \in Seq(Images) /\ Len(todo') = Len(todo) - 1 /\ Len(todo) \in Nat \ {0}
          /\ \A k \in 1 .. Len(todo') : todo'[k] = todo[k + 1]
      BY <2>1, <2>2, HeadAndTail DEF RestOfOrder
    <3>2. \A k \in 1 .. Len(todo') :
             k + 1 \in 1 .. Len(todo) /\ Len(Order) - Len(todo) + (k + 1) = Len(Order) - Len(todo') + k
      BY <3>1, OrderFacts
    <3>3. \A k \in 1 .. Len(todo') : todo'[k] = Order[Len(Order) - Len(todo') + k]
      BY <2>2, <3>1, <3>2 DEF RestOfOrder
    <3>4. QED BY <2>2, <3>1, <3>3, OrderFacts DEF RestOfOrder
  <2>4. ASSUME NEW i \in Images, Done(i)' PROVE Done(i) \/ i = Now
    <3>1. \A k \in 1 .. Len(todo) : k = 1 \/ (k - 1 \in 1 .. Len(Tail(todo)) /\ Tail(todo)[k - 1] = todo[k])
      BY <2>2, HeadAndTail DEF RestOfOrder
    <3>2. Now = todo[1]
      BY <2>2, HeadAndTail DEF RestOfOrder, Now
    <3>3. QED BY <2>1, <2>4, <3>1, <3>2 DEF Done
  <2>5. \A i \in Images : Settled(i) => Settled(i)'
    BY <2>1 DEF Settled, InPlace
  <2>6. QED BY <2>1, <2>2, <2>3, <2>4, <2>5 DEF Placed
<1>10. ASSUME NEW l \in Loops, GetFree(l) PROVE Placed'
  <2>1. pc = "free" /\ pc' = "configure" /\ todo # <<>> /\ UNCHANGED <<todo, device, bind>>
    BY <1>10 DEF GetFree, IInv, Placed
  <2>2. QED BY <2>1 DEF IInv, Placed, RestOfOrder, Done, Settled, InPlace
<1>11. ASSUME NEW l \in Loops, Host(l) PROVE Placed'
  <2>1. UNCHANGED <<todo, device, no, pc>>
    BY <1>11 DEF Host, AutoClear, Probe, ProbeEnds, OtherBinds, OtherClears
  <2>2. CASE pc \in Placing
    <3>1. auto = {} /\ (pc = "status" => no \in Loops /\ Ours(no) /\ bind[no] = Binding(FALSE))
      BY <2>2 DEF IInv, Holding, Placed, Detaching
    <3>2. pc = "status" => bind'[no] = bind[no]
      <4>1. pc = "status" => bind[no] \notin {Free, Theirs}
        BY <3>1 DEF Ours, Free, Theirs
      <4>2. \A k \in Loops : bind[k] \notin {Free, Theirs} => bind'[k] = bind[k]
        BY <3>1, <1>11 DEF Host, AutoClear, Probe, ProbeEnds, OtherBinds, OtherClears, IInv, TypeOK
      <4>3. QED BY <3>1, <4>1, <4>2
    <3>3. pc # "prepare" => todo # <<>>
      BY <2>2 DEF IInv, Placed
    <3>4. QED BY <1>3, <2>1, <2>2, <3>1, <3>2, <3>3
  <2>3. QED BY <1>1, <2>1, <2>2
<1>12. CASE UNCHANGED vars
  BY <1>12 DEF vars, IInv, Placed, RestOfOrder, Done, Settled, InPlace, Now, Binding
<1>13. QED BY <1>2, <1>5, <1>6, <1>7, <1>8, <1>9, <1>10, <1>11, <1>12 DEF Next, Builder

-----------------------------------------------------------------------------
(* Every reachable state satisfies the invariant.                          *)
THEOREM Invariance == Spec => []IInv
<1>1. IInv /\ [Next]_vars => IInv'
  BY TypeStep, HoldingStep, TrackedStep, PlacedStep DEF IInv
<1>2. QED BY InitIInv, <1>1, PTL DEF Spec

(* For any images and loop devices, other programs and udev at any time:   *)
(* cleanup knows every device that is bound, except the one loop_setup was *)
(* working on when it raised.                                              *)
THEOREM TrackingIsComplete == Spec => []BoundIsTracked
<1>1. IInv => BoundIsTracked
  BY DEF IInv
<1>2. QED BY Invariance, <1>1, PTL

(* When a content builder writes an image, its loop device and that of its *)
(* disk are bound to the right piece of the right file.                    *)
THEOREM WritesInPlace == Spec => []ContentInPlace
<1>1. IInv => ContentInPlace
  <2>1. SUFFICES ASSUME IInv, pc = "content", Kind[Now] # "plain"
                 PROVE  InPlace(Now) /\ (Parent[Now] # None => InPlace(Parent[Now]))
    BY DEF ContentInPlace
  <2>2. RestOfOrder /\ todo # <<>> /\ Settled(Now) /\ \A i \in Images : Done(i) => Settled(i)
    BY <2>1 DEF IInv, Placed, Placing
  <2>3. Parent[Now] # None => Kind[Parent[Now]] = "disk" /\ Settled(Parent[Now])
    BY <2>2, ParentIsDone, ParentFacts
  <2>4. QED BY <2>1, <2>2, <2>3 DEF Settled
<1>2. QED BY Invariance, <1>1, PTL

(* The builder neither clears the device of another program nor marks it   *)
(* for clearing.                                                           *)
THEOREM OthersLeftAlone == Spec => OthersUntouched
<1> DEFINE Touch == \A l \in Loops : bind[l] = Theirs =>
                      l \notin auto' /\ (bind'[l] = Theirs \/ OtherClears(l))
<1>1. IInv /\ IInv' /\ [Next]_vars => [Touch]_vars
  <2>1. SUFFICES ASSUME IInv, IInv', Next, NEW l \in Loops, bind[l] = Theirs
                 PROVE  l \notin auto' /\ (bind'[l] = Theirs \/ OtherClears(l))
    OBVIOUS
  <2>2. ~Ours(l) /\ l \notin auto
    BY <2>1 DEF Ours, Theirs, IInv, Holding
  <2>3. CASE UNCHANGED <<bind, auto>>
    BY <2>1, <2>2, <2>3
  <2>4. CASE Configure \/ SetFd
    <3>1. auto' = auto /\ (bind' = bind \/ (bind[no] = Free /\ \E b \in BOOLEAN : bind' = [bind EXCEPT ![no] = Binding(b)]))
      BY <2>4 DEF Configure, SetFd
    <3>2. QED BY <2>1, <2>2, <3>1 DEF IInv, TypeOK, Free, Theirs
  <2>5. CASE SetStatus
    <3>1. auto' = auto /\ Ours(no) /\ bind' = [bind EXCEPT ![no].placed = TRUE]
      BY <2>1, <2>5 DEF SetStatus, Goto, IInv, Holding
    <3>2. QED BY <2>1, <2>2, <3>1 DEF IInv, TypeOK
  <2>6. CASE Detach
    <3>1. Ours(Now)
      BY <2>1, <2>6, HeadAndTail DEF Detach, IInv, Holding, Now
    <3>2. QED BY <2>1, <2>2, <2>6, <3>1 DEF Detach, IInv, TypeOK
  <2>7. ASSUME NEW k \in Loops, Host(k)
        PROVE  l \notin auto' /\ (bind'[l] = Theirs \/ OtherClears(l))
    <3>1. auto' \subseteq auto
      BY <2>7 DEF Host, AutoClear, Probe, ProbeEnds, OtherBinds, OtherClears
    <3>2. CASE OtherClears(k)
      BY <2>1, <2>2, <3>1, <3>2 DEF OtherClears, IInv, TypeOK
    <3>3. CASE ~OtherClears(k)
      BY <2>1, <2>2, <2>7, <3>1, <3>3 DEF Host, AutoClear, Probe, ProbeEnds, OtherBinds, IInv, TypeOK
    <3>4. QED BY <3>2, <3>3
  <2>8. QED
    BY <2>1, <2>3, <2>4, <2>5, <2>6, <2>7 DEF Next, Builder, Raise, Prepare, Content, GetFree, ProcImageDone,
       MountAll, Post, PostDone, Unmount, DetachDone, StatusFails, kernel
<1>2. QED BY Invariance, <1>1, PTL DEF Spec, OthersUntouched

-----------------------------------------------------------------------------
Sources == {c.source[i] : c \in Configs, i \in Images} \cup Images \cup Loops \cup {None}
Entry == [target : Names, source : Sources]

(* proc_image is done with the image.                                      *)
Ready(i) == pc \in Placing => Done(i)

(* Entry k of ctx.mtab is the one of image i, and its source is known to   *)
(* ctx.fsmap.                                                              *)
Listed(k, i) ==
  /\ MountAt(i) # None /\ Ready(i)
  /\ mtab[k] = [target |-> Target(i), source |-> SourceOf(i)]
  /\ \E m \in fsmap : m[1] = SourceOf(i)
  /\ Source(i) # None => Target(i) \in fstab

(* The owner of each entry: in the order of the images, and of two with    *)
(* one target the first has no fstab section.                              *)
Owners(own) ==
  /\ own \in [1 .. Len(mtab) -> Images]
  /\ \A k \in 1 .. Len(mtab) : Listed(k, own[k])
  /\ \A k, l \in 1 .. Len(mtab) : k < l =>
       /\ Before(own[k], own[l])
       /\ mtab[k].target = mtab[l].target => Source(own[k]) = None
  /\ \A i \in Images : MountAt(i) # None /\ Ready(i) =>
       \E k \in 1 .. Len(mtab) : own[k] = i

(* ctx.fsmap leads from a source to an image that has this source.         *)
Mapped ==
  \A m \in fsmap : \E i \in Images :
    /\ MountAt(i) # None /\ Ready(i)
    /\ m[1] = SourceOf(i) /\ m[2] = device[i]

(* Until mount_all, each image that is done and has a mount point has its  *)
(* entry in ctx.mtab, in the order of the images.                          *)
TablesAgree ==
  pc \in Placing \cup {"fstab"} =>
    /\ \A t \in Targets : kmnt[t] = None
    /\ \A i \in Images : copied[i] = None
    /\ mtab \in Seq(Entry)
    /\ \E own : Owners(own)
    /\ Mapped
    /\ \A i \in Images : Ready(i) /\ MountAt(i) # None => device[i] \in Loops

MountedOwn == \A i \in Images :
  MountAt(i) # None /\ Uncontested(i) /\ kmnt[MountAt(i)] # None => kmnt[MountAt(i)] = device[i]

OwnInv ==
  /\ config \in Configs
  /\ TablesAgree /\ MountedOwn /\ CopyReachesOwn
  /\ copied = [i \in Images |-> copied[i]]
  /\ pc = "post" => todo \in Seq(Images)

CopyInv == IInv /\ OwnInv

(* A set of places that is not empty has a first one.                      *)
LEMMA LeastPlace ==
  ASSUME NEW I \in SUBSET Nat, I # {}
  PROVE  Min(I) \in I /\ \A x \in I : Min(I) <= x
<1>1. \E x \in I : \A y \in I : ~(<<y, x>> \in OpToRel(<, Nat))
  BY WFMin, NatLessThanWellFounded
<1>2. \A x, y \in Nat : x =< y \/ <<y, x>> \in OpToRel(<, Nat)
  BY DEF OpToRel
<1>3. \E x \in I : \A y \in I : x =< y
  BY <1>1, <1>2
<1>4. QED BY <1>3 DEF Min

(* What mount_all finds for a target is the first entry for it that has a  *)
(* source.                                                                 *)
LEMMA FirstPlace ==
  ASSUME NEW S, NEW s \in Seq(S), NEW t,
         \E k \in 1 .. Len(s) : s[k].target = t /\ s[k].source # "none"
  PROVE  LET n == SelectInSeq(s, LAMBDA e : e.target = t /\ e.source # "none")
         IN  /\ n \in 1 .. Len(s) /\ s[n].target = t /\ s[n].source # "none"
             /\ \A k \in 1 .. Len(s) : s[k].target = t /\ s[k].source # "none" => n <= k
<1> DEFINE I == {k \in 1 .. Len(s) : s[k].target = t /\ s[k].source # "none"}
<1>1. I # {} /\ I \in SUBSET Nat
  OBVIOUS
<1>2. Min(I) \in I /\ \A k \in I : Min(I) <= k
  BY <1>1, LeastPlace
<1>3. SelectInSeq(s, LAMBDA e : e.target = t /\ e.source # "none") = Min(I)
  BY <1>1 DEF SelectInSeq
<1>4. QED BY <1>2, <1>3

(* mount_all's two lookups lead from the mount point of an image to its    *)
(* device, if nothing in the configuration leads elsewhere: an entry before *)
(* its own for the same target is of an image without fstab section, and   *)
(* when its own is skipped, it is in the fstab and no later one has its    *)
(* target.                                                                 *)
LEMMA WantedIsOwn ==
  ASSUME CopyInv, pc = "fstab", NEW i \in Images, MountAt(i) # None, Uncontested(i),
         \E k \in 1 .. Len(mtab) : mtab[k].target = MountAt(i) /\ mtab[k].source # "none"
  PROVE  WantedAt(MountAt(i)) = device[i]
<1>1. mtab \in Seq(Entry) /\ Mapped /\ device[i] \in Loops /\ Len(mtab) \in Nat
  BY DEF CopyInv, OwnInv, TablesAgree, Ready, Placing
<1>2. PICK own : Owners(own)
  BY DEF CopyInv, OwnInv, TablesAgree
<1> DEFINE n == SelectInSeq(mtab, LAMBDA e : e.target = MountAt(i) /\ e.source # "none")
<1>3. /\ n \in 1 .. Len(mtab) /\ mtab[n].target = MountAt(i)
      /\ \A k \in 1 .. Len(mtab) : mtab[k].target = MountAt(i) /\ mtab[k].source # "none" => n <= k
  BY <1>1, FirstPlace
<1> HIDE DEF n
<1>4. PICK k \in 1 .. Len(mtab) : own[k] = i
  BY <1>2 DEF Owners, Ready, Placing
<1>5. mtab[k] = [target |-> MountAt(i), source |-> SourceOf(i)] /\ Target(i) = MountAt(i)
  BY <1>2, <1>4 DEF Owners, Listed, Uncontested
<1>6. ~(n < k)
  <2>1. SUFFICES ASSUME n < k PROVE FALSE
    OBVIOUS
  <2>2. Before(own[n], i) /\ Source(own[n]) = None
    BY <1>2, <1>3, <1>4, <1>5, <2>1 DEF Owners
  <2>3. own[n] \in Images /\ Listed(n, own[n])
    BY <1>2, <1>3 DEF Owners
  <2>4. MountAt(own[n]) # None /\ mtab[n].target = Target(own[n])
    BY <2>3 DEF Listed
  <2>5. QED BY <1>3, <1>5, <2>2, <2>3, <2>4 DEF Uncontested
<1>7. ~(k < n)
  <2>1. SUFFICES ASSUME k < n PROVE FALSE
    OBVIOUS
  <2>2. SourceOf(i) = "none"
    <3>1. k \in Nat /\ n \in Nat /\ ~(n <= k)
      BY <1>1, <1>3, <1>4, <2>1
    <3>2. mtab[k].source = "none"
      BY <1>3, <1>4, <1>5, <3>1
    <3>3. QED BY <1>5, <3>2
  <2>3. Source(i) # None
    BY <1>1, <2>2, ImageBuildAssumption DEF SourceOf
  <2>4. QED BY <1>2, <1>3, <1>4, <1>5, <2>1, <2>3 DEF Owners
<1>8. n = k
  BY <1>1, <1>3, <1>6, <1>7
<1>9. mtab[n].source = SourceOf(i) /\ \E m \in fsmap : m[1] = mtab[n].source
  <2>1. Listed(k, i) /\ mtab[n].source = SourceOf(i)
    BY <1>2, <1>4, <1>5, <1>8 DEF Owners
  <2>2. QED BY <2>1 DEF Listed
<1>10. ASSUME NEW m \in fsmap, m[1] = mtab[n].source PROVE m[2] = device[i]
  BY <1>1, <1>9, <1>10 DEF Mapped, Uncontested
<1>11. (CHOOSE m \in fsmap : m[1] = mtab[n].source)[2] = device[i]
  BY <1>9, <1>10
<1>12. QED BY <1>11 DEF WantedAt, n

(* Mount points are among the directories mount_all may mount at.          *)
LEMMA MountsAreTargets ==
  ASSUME config \in Configs, NEW i \in Images, MountAt(i) # None
  PROVE  MountAt(i) \in Targets
<1>1. config.mount[i] # "none" /\ config.mount[i] # None
  BY ImageBuildAssumption DEF MountAt
<1>2. config.mount[i] \in Named(config)
  BY DEF Named
<1>3. config.mount[i] \in Names
  BY <1>2 DEF Names
<1>4. QED BY <1>1, <1>3 DEF MountAt, Targets

(* Before the first image the tables are empty.                            *)
LEMMA InitOwn == Init => OwnInv
<1> SUFFICES ASSUME Init PROVE OwnInv
  OBVIOUS
<1>1. mtab \in Seq(Entry) /\ Len(mtab) = 0 /\ fsmap = {} /\ pc \in Placing /\ todo = Order
  BY DEF Init, Placing
<1>2. \A i \in Images : ~Ready(i)
  BY <1>1, OrderFacts DEF Done, Ready
<1>3. Owners([k \in 1 .. Len(mtab) |-> None])
  BY <1>1, <1>2 DEF Owners
<1>4. Mapped
  BY <1>1 DEF Mapped
<1>5. TablesAgree
  BY <1>1, <1>2, <1>3, <1>4 DEF Init, TablesAgree
<1>6. config \in Configs /\ \A i \in Images : MountAt(i) # None => MountAt(i) \in Targets
  BY MountsAreTargets DEF Init
<1>7. QED
  BY <1>5, <1>6, OrderFacts DEF Init, OwnInv, MountedOwn, CopyReachesOwn

(* The image proc_image is at comes after those that are done.             *)
LEMMA DoneBefore ==
  ASSUME RestOfOrder, todo # <<>>
  PROVE  /\ Now \in Images /\ Now = todo[1]
         /\ \A i \in Images : Done(i) => Before(i, Now)
         /\ todo' = Tail(todo) =>
              \A i \in Images : Done(i)' <=> Done(i) \/ i = Now
<1> DEFINE m == Len(Order) - Len(todo)
<1>1. /\ todo \in Seq(Images) /\ Len(todo) \in Nat /\ Len(todo) # 0 /\ Now = todo[1]
      /\ Len(Order) \in Nat /\ Len(todo) <= Len(Order)
      /\ Len(Tail(todo)) = Len(todo) - 1
      /\ \A k \in 1 .. Len(Tail(todo)) : Tail(todo)[k] = todo[k + 1]
  BY OrderFacts, HeadAndTail DEF RestOfOrder, Now
<1>2. \A k \in 1 .. Len(todo) : todo[k] = Order[m + k] /\ m + k \in 1 .. Len(Order)
  BY <1>1 DEF RestOfOrder
<1>3. Now \in Images /\ Now = Order[m + 1] /\ m + 1 \in 1 .. Len(Order)
  BY <1>1, <1>2
<1>4. ASSUME NEW i \in Images, Done(i) PROVE Before(i, Now)
  <2>1. PICK k \in 1 .. Len(Order) : Order[k] = i
    BY OrderFacts
  <2>2. k <= m
    <3>1. SUFFICES ASSUME k > m PROVE FALSE
      BY <1>1
    <3>2. k - m \in 1 .. Len(todo) /\ m + (k - m) = k
      BY <1>1, <3>1
    <3>3. todo[k - m] = i
      BY <1>2, <2>1, <3>2
    <3>4. QED BY <1>4, <3>2, <3>3 DEF Done
  <2>3. k < m + 1
    BY <1>1, <2>2
  <2>4. QED BY <1>3, <2>1, <2>3 DEF Before
<1>5. ASSUME todo' = Tail(todo), NEW i \in Images PROVE Done(i)' <=> Done(i) \/ i = Now
  <2>1. \A k \in 1 .. Len(todo) : k # 1 => todo[k] # Now
    <3>1. SUFFICES ASSUME NEW k \in 1 .. Len(todo), k # 1 PROVE todo[k] # Now
      OBVIOUS
    <3>2. m + k # m + 1 /\ m + k \in 1 .. Len(Order) /\ todo[k] = Order[m + k]
      BY <1>1, <1>2, <3>1
    <3>3. Order[m + k] # Order[m + 1]
      BY <1>3, <3>2, ImageBuildAssumption
    <3>4. QED BY <1>3, <3>2, <3>3
  <2>2. \A k \in 1 .. Len(todo) : k = 1 \/ (k - 1 \in 1 .. Len(Tail(todo)) /\ Tail(todo)[k - 1] = todo[k])
    <3>1. SUFFICES ASSUME NEW k \in 1 .. Len(todo), k # 1
                   PROVE  k - 1 \in 1 .. Len(Tail(todo)) /\ Tail(todo)[k - 1] = todo[k]
      OBVIOUS
    <3>2. k - 1 \in 1 .. Len(Tail(todo)) /\ (k - 1) + 1 = k
      BY <1>1, <3>1
    <3>3. QED BY <1>1, <3>2
  <2>3. \A k \in 1 .. Len(Tail(todo)) : k + 1 \in 1 .. Len(todo) /\ k + 1 # 1 /\ Tail(todo)[k] = todo[k + 1]
    BY <1>1
  <2>4. QED BY <1>1, <1>5, <2>1, <2>2, <2>3 DEF Done
<1>6. QED BY <1>1, <1>3, <1>4, <1>5

(* proc_fstab: one more entry, which leads to the device of its image.     *)
LEMMA ContentListed ==
  ASSUME CopyInv, Content
  PROVE  TablesAgree'
<1>0. /\ pc = "content" /\ pc' \in {"prepare", "cleanup"} /\ todo' = Tail(todo)
      /\ UNCHANGED <<kmnt, device, copied, config>>
  BY DEF Content, kernel, tables
<1>1. SUFFICES ASSUME pc' = "prepare" PROVE TablesAgree'
  BY <1>0 DEF TablesAgree, Placing
<1>2. /\ RestOfOrder /\ todo # <<>> /\ Settled(Now) /\ config \in Configs
      /\ \A t \in Targets : kmnt[t] = None
      /\ \A i \in Images : copied[i] = None
      /\ mtab \in Seq(Entry) /\ Len(mtab) \in Nat /\ Mapped
      /\ \A i \in Images : Done(i) /\ MountAt(i) # None => device[i] \in Loops
  BY <1>0 DEF CopyInv, OwnInv, TablesAgree, IInv, Placed, Placing, Ready
<1>3. PICK own : Owners(own)
  BY <1>0 DEF CopyInv, OwnInv, TablesAgree, Placing
<1>4. PICK now \in Images : now = Now /\ now = todo[1]
  BY <1>2, DoneBefore
<1>5. /\ \A i \in Images : Done(i) => Before(i, now)
      /\ \A i \in Images : Ready(i)' <=> Done(i) \/ i = now
      /\ \A i \in Images : Ready(i) <=> Done(i)
  BY <1>0, <1>1, <1>2, <1>4, DoneBefore DEF Ready, Placing
<1>6. \A i \in Images : SourceOf(i)' = SourceOf(i) /\ Target(i)' = Target(i)
                        /\ MountAt(i)' = MountAt(i) /\ Source(i)' = Source(i)
  BY <1>0 DEF SourceOf, Target, MountAt, Source
<1>7. CASE MountAt(now) = None
  <2>1. UNCHANGED tables
    BY <1>4, <1>7, <1>0 DEF Content
  <2>2. \A k \in 1 .. Len(mtab) : own[k] \in Images /\ Listed(k, own[k])'
    BY <1>3, <1>5, <1>6, <2>1 DEF Owners, Listed, tables
  <2>3. Owners(own)'
    BY <1>3, <1>5, <1>6, <1>7, <2>1, <2>2 DEF Owners, tables
  <2>4. Mapped'
    BY <1>0, <1>2, <1>5, <1>6, <2>1 DEF Mapped, tables
  <2>5. \A i \in Images : Ready(i)' /\ MountAt(i)' # None => device'[i] \in Loops
    BY <1>0, <1>2, <1>5, <1>6, <1>7
  <2>6. QED BY <1>0, <1>2, <2>1, <2>3, <2>4, <2>5 DEF TablesAgree, tables
<1>8. CASE MountAt(now) # None
  <2>1. /\ mtab' = Append(mtab, [target |-> Target(now), source |-> SourceOf(now)])
        /\ fsmap' = {m \in fsmap : m[1] # SourceOf(now)} \cup {<<SourceOf(now), device[now]>>}
        /\ fstab' = IF Source(now) = None THEN fstab ELSE fstab \cup {Target(now)}
        /\ Target(now) \notin fstab
    BY <1>1, <1>4, <1>8 DEF Content, FsDevice, Duplicate
  <2>2. device[now] \in Loops
    BY <1>2, <1>4, <1>8, ImageBuildAssumption DEF Settled, MountAt
  <2>3. [target |-> Target(now), source |-> SourceOf(now)] \in Entry
    BY <1>2, <2>2 DEF Entry, Names, Named, Sources, SourceOf, Target, MountAt, Source
  <2>4. PICK n : n = Len(mtab) + 1
    OBVIOUS
  <2>5. /\ mtab' \in Seq(Entry) /\ Len(mtab') = n
        /\ \A k \in 1 .. Len(mtab) : mtab'[k] = mtab[k]
        /\ mtab'[n] = [target |-> Target(now), source |-> SourceOf(now)]
    BY <1>2, <2>1, <2>3, <2>4
  <2>6. PICK new : new = [k \in 1 .. n |-> IF k = n THEN now ELSE own[k]]
    OBVIOUS
  <2>7. PICK m0 : m0 = <<SourceOf(now), device[now]>>
    OBVIOUS
  <2>8. /\ \A k \in 1 .. Len(mtab') : k \in 1 .. Len(mtab) \/ k = n
        /\ \A k \in 1 .. Len(mtab) : k \in 1 .. Len(mtab') /\ k # n
        /\ n \in 1 .. Len(mtab')
    BY <1>2, <2>5, <2>4
  <2>9. /\ new[n] = now /\ \A k \in 1 .. Len(mtab) : new[k] = own[k] /\ own[k] \in Images
        /\ new \in [1 .. Len(mtab') -> Images]
    BY <1>3, <2>5, <2>8, <2>6 DEF Owners
  <2>10. m0 \in fsmap' /\ m0[1] = SourceOf(now) /\ m0[2] = device[now]
    BY <2>1, <2>7
  <2>11. Listed(n, now)'
    BY <1>5, <1>6, <1>8, <2>1, <2>5, <2>10 DEF Listed
  <2>12. ASSUME NEW k \in 1 .. Len(mtab) PROVE Listed(k, own[k])' /\ Done(own[k])
    <3>1. Listed(k, own[k]) /\ own[k] \in Images
      BY <1>3 DEF Owners
    <3>2. \E m \in fsmap' : m[1] = SourceOf(own[k])
      <4>1. PICK m \in fsmap : m[1] = SourceOf(own[k])
        BY <3>1 DEF Listed
      <4>2. m \in fsmap' \/ m[1] = SourceOf(now)
        BY <2>1
      <4>3. QED BY <2>10, <4>1, <4>2
    <3>3. fstab \subseteq fstab'
      BY <2>1
    <3>4. QED BY <1>5, <1>6, <2>5, <3>1, <3>2, <3>3 DEF Listed
  <2>13. ASSUME NEW k \in 1 .. Len(mtab), mtab[k].target = Target(now) PROVE Source(own[k]) = None
    <3>1. Listed(k, own[k])
      BY <1>3 DEF Owners
    <3>2. QED BY <2>1, <2>13, <3>1 DEF Listed
  <2>14. \A k \in 1 .. Len(mtab') : Listed(k, new[k])'
    BY <2>8, <2>9, <2>11, <2>12
  <2>15. ASSUME NEW k \in 1 .. Len(mtab'), NEW l \in 1 .. Len(mtab'), k < l
         PROVE  /\ Before(new[k], new[l])
                /\ mtab'[k].target = mtab'[l].target => Source(new[k]) = None
    <3>1. k \in 1 .. Len(mtab)
      BY <1>2, <2>5, <2>15, <2>4
    <3>2. CASE l \in 1 .. Len(mtab)
      BY <1>3, <2>5, <2>9, <2>15, <3>1, <3>2 DEF Owners
    <3>3. CASE l = n
      <4>1. Before(new[k], new[l])
        BY <1>5, <2>9, <2>12, <3>1, <3>3
      <4>2. mtab'[l].target = Target(now) /\ mtab'[k] = mtab[k] /\ new[k] = own[k]
        BY <2>5, <2>9, <3>1, <3>3
      <4>3. QED BY <2>13, <3>1, <4>1, <4>2
    <3>4. QED BY <2>8, <3>2, <3>3
  <2>16. ASSUME NEW i \in Images, MountAt(i) # None, Ready(i)'
         PROVE  \E k \in 1 .. Len(mtab') : new[k] = i
    <3>1. CASE i = now
      BY <2>8, <2>9, <3>1
    <3>2. CASE i # now
      <4>1. PICK k \in 1 .. Len(mtab) : own[k] = i
        BY <1>3, <1>5, <2>16, <3>2 DEF Owners
      <4>2. QED BY <2>8, <2>9, <4>1
    <3>3. QED BY <3>1, <3>2
  <2>17. \A i : Before(i, now)' = Before(i, now) /\ \A j : Before(i, j)' = Before(i, j)
    BY DEF Before
  <2>18. Owners(new)'
    <3>1. \A k, l \in 1 .. Len(mtab') : k < l =>
            /\ Before(new[k], new[l])'
            /\ mtab'[k].target = mtab'[l].target => Source(new[k])' = None
      BY <1>6, <2>9, <2>15, <2>17
    <3>2. QED BY <1>6, <2>9, <2>14, <2>16, <3>1 DEF Owners
  <2>19. Mapped'
    <3>1. SUFFICES ASSUME NEW m \in fsmap'
                   PROVE  \E i \in Images : /\ MountAt(i)' # None /\ Ready(i)'
                                            /\ m[1] = SourceOf(i)' /\ m[2] = device'[i]
      BY DEF Mapped
    <3>2. CASE m = m0
      BY <1>0, <1>5, <1>6, <1>8, <2>10, <3>2
    <3>3. CASE m \in fsmap
      BY <1>0, <1>2, <1>5, <1>6, <3>3 DEF Mapped
    <3>4. QED BY <2>1, <2>7, <3>1, <3>2, <3>3
  <2>20. \A i \in Images : Ready(i)' /\ MountAt(i)' # None => device'[i] \in Loops
    BY <1>0, <1>2, <1>5, <1>6, <2>2
  <2>21. QED BY <1>0, <1>2, <2>5, <2>18, <2>19, <2>20 DEF TablesAgree
<1>9. QED BY <1>7, <1>8

(* What a step has to leave alone for the tables to stay right.            *)
LEMMA TablesKept ==
  ASSUME CopyInv, pc \in Placing \cup {"fstab"},
         UNCHANGED <<kmnt, copied, mtab, fsmap, fstab, config>>,
         \A i \in Images : /\ Ready(i)' <=> Ready(i)
                           /\ Ready(i) => device'[i] = device[i]
  PROVE  TablesAgree'
<1>1. PICK own : Owners(own)
  BY DEF CopyInv, OwnInv, TablesAgree
<1>2. \A i : Target(i)' = Target(i) /\ MountAt(i)' = MountAt(i) /\ Source(i)' = Source(i)
  BY DEF Target, MountAt, Source
<1>3. \A i \in Images : Ready(i) => SourceOf(i)' = SourceOf(i)
  BY DEF SourceOf, Source
<1>4. ASSUME NEW k \in 1 .. Len(mtab) PROVE Listed(k, own[k])'
  <2>1. own[k] \in Images /\ Listed(k, own[k])
    BY <1>1 DEF Owners
  <2>2. Ready(own[k])' /\ SourceOf(own[k])' = SourceOf(own[k])
    BY <1>3, <2>1 DEF Listed
  <2>3. QED BY <1>2, <2>1, <2>2 DEF Listed
<1>5. Owners(own)'
  BY <1>1, <1>2, <1>4 DEF Owners
<1>6. Mapped'
  BY <1>2, <1>3 DEF CopyInv, OwnInv, TablesAgree, Mapped
<1>7. QED BY <1>2, <1>5, <1>6 DEF CopyInv, OwnInv, TablesAgree

(* The tables stay right while images get their devices.                   *)
LEMMA TablesStep == ASSUME CopyInv, [Next]_vars PROVE TablesAgree' /\ config' = config
<1> USE DEF kernel, tables, Goto, Placing
<1>0. config' = config
  BY DEF Next, Builder, Host, Raise, StatusFails, PostDone, MountAll, Post, Unmount, Detach,
     DetachDone, ProcImageDone, SetFd, Content, GetFree, Prepare, Configure, SetStatus, AutoClear,
     Probe, ProbeEnds, OtherBinds, OtherClears, vars
<1>1. CASE Content
  BY <1>0, <1>1, ContentListed
<1>2. CASE pc' \notin Placing \cup {"fstab"}
  BY <1>0, <1>2 DEF TablesAgree
<1>3. ASSUME pc \in Placing, pc' \in Placing,
             UNCHANGED <<kmnt, copied, mtab, fsmap, fstab, todo>>,
             \A i \in Images : Done(i) => device'[i] = device[i]
      PROVE  TablesAgree'
  <2>1. \A i \in Images : (Ready(i)' <=> Done(i)) /\ (Ready(i) <=> Done(i))
    BY <1>3 DEF Ready, Done
  <2>2. QED BY <1>0, <1>3, <2>1, TablesKept
<1>4. CASE Raise \/ StatusFails \/ PostDone \/ MountAll \/ Post \/ Unmount \/ Detach \/ DetachDone
  BY <1>0, <1>2, <1>4 DEF Raise, StatusFails, PostDone, MountAll, Post, Unmount, Detach, DetachDone
<1>5. CASE SetFd \/ (\E l \in Loops : GetFree(l))
  BY <1>0, <1>2, <1>3, <1>5 DEF SetFd, GetFree
<1>6. CASE ProcImageDone
  <2>1. /\ pc = "prepare" /\ pc' = "fstab" /\ todo = <<>>
        /\ UNCHANGED <<kmnt, copied, mtab, fsmap, fstab, config, device>>
    BY <1>6 DEF ProcImageDone
  <2>2. \A i \in Images : Ready(i) /\ Ready(i)'
    BY <2>1 DEF Ready, Done
  <2>3. QED BY <1>0, <2>1, <2>2, TablesKept
<1>7. CASE Prepare \/ Configure \/ SetStatus
  <2>1. /\ pc \in {"prepare", "configure", "status"}
        /\ UNCHANGED <<kmnt, copied, mtab, fsmap, fstab, todo>>
        /\ pc = "prepare" => todo # <<>>
        /\ device' = device \/ \E d : device' = [device EXCEPT ![Now] = d]
    <3>1. CASE Prepare
      BY <3>1 DEF Prepare
    <3>2. CASE Configure
      BY <3>2 DEF Configure, Record
    <3>3. CASE SetStatus
      <4>1. Record /\ pc = "status" /\ UNCHANGED <<kmnt, copied, mtab, fsmap, fstab, todo>>
        BY <3>3 DEF SetStatus
      <4>2. device' = [device EXCEPT ![Now] = no]
        BY <4>1 DEF Record
      <4>3. QED BY <4>1, <4>2
    <3>4. QED BY <1>7, <3>1, <3>2, <3>3
  <2>2. todo # <<>> /\ RestOfOrder
    BY <2>1 DEF CopyInv, IInv, Placed
  <2>3. \A i \in Images : Done(i) => i # Now
    BY <2>2, NextIsNoParent
  <2>4. \A i \in Images : Done(i) => device'[i] = device[i]
    BY <2>1, <2>3 DEF CopyInv, IInv, TypeOK
  <2>5. pc' \in Placing \/ pc' = "cleanup"
    BY <1>7 DEF Prepare, Configure, SetStatus
  <2>6. QED BY <1>0, <1>2, <1>3, <2>1, <2>4, <2>5
<1>8. CASE (\E l \in Loops : Host(l)) \/ UNCHANGED vars
  <2>1. UNCHANGED <<kmnt, copied, mtab, fsmap, fstab, todo, device, pc>>
    BY <1>8 DEF Host, AutoClear, Probe, ProbeEnds, OtherBinds, OtherClears, vars
  <2>2. \A i \in Images : Ready(i)' <=> Ready(i)
    BY <2>1 DEF Ready, Done
  <2>3. QED BY <1>0, <1>2, <2>1, <2>2, TablesKept
<1>9. QED BY <1>1, <1>4, <1>5, <1>6, <1>7, <1>8 DEF Next, Builder

(* Whether the configuration leads elsewhere, once the devices are known.  *)
LEMMA SameContest ==
  config' = config /\ device' = device =>
    \A i \in Images : MountAt(i)' = MountAt(i) /\ (Uncontested(i)' <=> Uncontested(i))
BY DEF Uncontested, MountAt, Source, Target, SourceOf, Before

(* The mounts and the copies.                                              *)
LEMMA OwnStep == ASSUME CopyInv, [Next]_vars PROVE OwnInv'
<1> USE DEF kernel, tables, Goto
<1>0. TablesAgree' /\ config' = config /\ config' \in Configs
  BY TablesStep DEF CopyInv, OwnInv
<1>1. OwnInv /\ TablesAgree /\ MountedOwn /\ CopyReachesOwn /\ config \in Configs
  BY DEF CopyInv, OwnInv
<1>2. ASSUME UNCHANGED <<kmnt, copied, device>>, pc' = "post" => pc = "post" /\ todo' = todo
      PROVE  OwnInv'
  BY <1>0, <1>1, <1>2, SameContest DEF OwnInv, MountedOwn, CopyReachesOwn
<1>3. CASE Raise \/ StatusFails \/ PostDone \/ Detach \/ DetachDone \/ ProcImageDone \/ SetFd \/ Content
             \/ (\E l \in Loops : GetFree(l) \/ Host(l)) \/ UNCHANGED vars
  BY <1>2, <1>3 DEF Raise, StatusFails, PostDone, Detach, DetachDone, ProcImageDone, SetFd, Content,
     GetFree, Host, AutoClear, Probe, ProbeEnds, OtherBinds, OtherClears, vars
<1>4. CASE Prepare \/ Configure \/ SetStatus
  <2>1. pc \in Placing /\ UNCHANGED <<kmnt, copied>> /\ pc' # "post"
    BY <1>4 DEF Prepare, Configure, SetStatus, Record, Placing
  <2>2. (\A t \in Targets : kmnt[t] = None) /\ (\A i \in Images : copied[i] = None)
    BY <1>1, <2>1 DEF TablesAgree
  <2>3. \A i \in Images : MountAt(i)' # None => MountAt(i)' \in Targets
    BY <1>0, <1>1, MountsAreTargets DEF MountAt
  <2>4. MountedOwn' /\ CopyReachesOwn'
    BY <2>1, <2>2, <2>3 DEF MountedOwn, CopyReachesOwn
  <2>5. QED BY <1>0, <1>1, <2>1, <2>4 DEF OwnInv
<1>5. CASE MountAll
  <2>1. PICK got \in SUBSET {t \in Targets : \E k \in 1 .. Len(mtab) :
                               mtab[k].target = t /\ mtab[k].source # "none"} :
          kmnt' = [t \in Targets |-> IF t \in got THEN WantedAt(t) ELSE None]
    BY <1>5 DEF MountAll
  <2>2. pc = "fstab" /\ todo' = Order /\ UNCHANGED <<copied, device>>
    BY <1>5 DEF MountAll
  <2>3. ASSUME NEW i \in Images, MountAt(i) # None, Uncontested(i), kmnt'[MountAt(i)] # None
        PROVE  kmnt'[MountAt(i)] = device[i]
    <3>1. MountAt(i) \in Targets
      BY <1>1, <2>3, MountsAreTargets
    <3>2. MountAt(i) \in got /\ kmnt'[MountAt(i)] = WantedAt(MountAt(i))
      BY <2>1, <2>3, <3>1
    <3>3. \E k \in 1 .. Len(mtab) : mtab[k].target = MountAt(i) /\ mtab[k].source # "none"
      BY <2>1, <3>2
    <3>4. QED BY <2>2, <2>3, <3>2, <3>3, WantedIsOwn
  <2>4. MountedOwn' /\ CopyReachesOwn'
    BY <1>0, <1>1, <2>2, <2>3, SameContest DEF MountedOwn, CopyReachesOwn
  <2>5. QED BY <1>0, <1>1, <2>2, <2>4, OrderFacts DEF OwnInv
<1>6. CASE Post
  <2>1. pc = "post" /\ todo # <<>> /\ todo' = Tail(todo) /\ UNCHANGED <<kmnt, device>>
    BY <1>6 DEF Post
  <2>2. Now \in Images /\ todo' \in Seq(Images)
    BY <1>1, <2>1, HeadAndTail DEF OwnInv, Now
  <2>3. MountedOwn'
    BY <1>0, <1>1, <2>1, SameContest DEF MountedOwn
  <2>4. CASE copied' = copied
    BY <1>0, <1>1, <2>1, <2>2, <2>3, <2>4, SameContest DEF OwnInv, CopyReachesOwn
  <2>5. CASE copied' # copied
    <3>1. copied' = [copied EXCEPT ![Now] = kmnt[MountAt(Now)]]
          /\ MountAt(Now) # None /\ kmnt[MountAt(Now)] # None
      BY <1>6, <2>5 DEF Post
    <3>2. Uncontested(Now) => copied'[Now] = device[Now]
      BY <1>1, <2>2, <3>1 DEF MountedOwn, OwnInv
    <3>4. copied' = [i \in Images |-> copied'[i]]
      BY <1>1, <2>2, <3>1 DEF OwnInv
    <3>5. CopyReachesOwn'
      BY <1>0, <1>1, <2>1, <2>2, <3>1, <3>2, SameContest DEF OwnInv, CopyReachesOwn
    <3>6. QED BY <1>0, <2>2, <2>3, <3>4, <3>5 DEF OwnInv
  <2>6. QED BY <2>4, <2>5
<1>7. CASE Unmount
  <2>1. /\ UNCHANGED <<copied, device>> /\ pc' \in {"detach", "stuck"}
        /\ kmnt' = kmnt \/ kmnt' = [t \in Targets |-> None]
    BY <1>7 DEF Unmount
  <2>2. MountedOwn'
    BY <1>0, <1>1, <2>1, SameContest, MountsAreTargets DEF MountedOwn
  <2>3. CopyReachesOwn'
    BY <1>0, <1>1, <2>1, SameContest DEF CopyReachesOwn
  <2>4. QED BY <1>0, <1>1, <2>1, <2>2, <2>3 DEF OwnInv
<1>8. QED BY <1>3, <1>4, <1>5, <1>6, <1>7 DEF Next, Builder

(* For any images, any configuration of their mounts and any other         *)
(* programs at the loop devices: a file system whose section names no      *)
(* other target, that no file system without fstab section precedes at its *)
(* target, and that shares its source with none, gets the files copied to  *)
(* itself (proc_fstab, mount_all, proc_image_post).                        *)
THEOREM CopiesGoHome == Spec => []CopyReachesOwn
<1>1. Init => CopyInv
  BY InitIInv, InitOwn DEF CopyInv
<1>2. CopyInv /\ [Next]_vars => CopyInv'
  <2>1. SUFFICES ASSUME CopyInv, [Next]_vars PROVE CopyInv'
    OBVIOUS
  <2>2. IInv'
    BY <2>1, TypeStep, HoldingStep, TrackedStep, PlacedStep DEF CopyInv, IInv
  <2>3. QED BY <2>1, <2>2, OwnStep DEF CopyInv
<1>3. CopyInv => CopyReachesOwn
  BY DEF CopyInv, OwnInv
<1>4. QED BY <1>1, <1>2, <1>3, PTL DEF Spec

=============================================================================
