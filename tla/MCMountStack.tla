---------------------------- MODULE MCMountStack ----------------------------
(* The workspace of a build with two of init_mount's nested mounts and an  *)
(* image with a root and a boot file system.                               *)
EXTENDS MountStack

CONSTANTS dev, pts, proc, root, boot, virtual, loop0, loop1

MCTargets == {dev, pts, proc, root, boot}
MCDevs == {virtual, loop0, loop1}
MCAbove == {<<dev, pts>>, <<root, boot>>}
Of(t, d) == [target |-> t, dev |-> d]
MCChrootTab == << Of(proc, virtual), Of(dev, virtual), Of(pts, virtual) >>
MCMTab == << Of(root, loop0), Of(boot, loop1) >>
=============================================================================
