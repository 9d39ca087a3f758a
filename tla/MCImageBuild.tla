---------------------------- MODULE MCImageBuild ----------------------------
(* A disk with a boot and a root partition, and a second image.  The root  *)
(* partition may have the mount point of the other one, and each of them a *)
(* target and a source of its own in the fstab, none, or those of the      *)
(* other.                                                                  *)
EXTENDS ImageBuild

CONSTANTS disk, boot, root, extra, l1, l2, l3,
          slash, slashBoot, tagRoot, tagBoot

MCImages == {disk, boot, root, extra}
MCOrder == <<disk, boot, root, extra>>
MCParent == [i \in MCImages |-> IF i \in {boot, root} THEN disk ELSE None]
MCKind == (disk :> "disk") @@ (boot :> "fs") @@ (root :> "fs") @@ (extra :> "plain")

Both(b, r) == (disk :> None) @@ (boot :> b) @@ (root :> r) @@ (extra :> None)
MCConfigs ==
  [mount : {Both(slashBoot, r) : r \in {slash, slashBoot}},
   target : {Both(b, r) : b, r \in {None, slash, "none"}},
   source : {Both(b, r) : b \in {None, tagBoot, "none"}, r \in {None, tagBoot, tagRoot}}]
=============================================================================
