---------------------------- MODULE MCBootstrap -----------------------------
(* A workspace with two nested chroot mounts and one image file system.    *)
EXTENDS Bootstrap

CONSTANTS dev, pts, root, virtual, loop

MCTargets == {dev, pts, root}
MCDevs == {virtual, loop}
MCAbove == {<<dev, pts>>}
Of(t, d) == [target |-> t, dev |-> d]
MCChrootTab == << Of(dev, virtual), Of(pts, virtual) >>
MCMTab == << Of(root, loop) >>
=============================================================================
