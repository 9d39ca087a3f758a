------------------------------ MODULE MCRootfs ------------------------------
(* Three versions of a configuration: a user gets another uid, files change  *)
(* their owner, a unit is dropped, a host name appears; the third has next   *)
(* to nothing, leaves the hook alone and a time zone that the host lacks.    *)
EXTENDS Rootfs

FileOf(p, user, s) == [path |-> p, owner |-> user, stage |-> s]

MCConfigurations == <<
    [files |-> <<FileOf("skel", "none", "pre-user"), FileOf("conf", "alice", "build"),
                 FileOf("late", "alice", "pre-initramfs")>>,
     scripts |-> <<[stage |-> "pre-user", priority |-> 2], [stage |-> "pre-user", priority |-> 1]>>,
     groups |-> <<"wheel">>, users |-> <<[name |-> "alice", uid |-> 1, groups |-> {"wheel"}]>>,
     remove |-> <<>>, enable |-> {"sshd"}, disable |-> {"udevd"}, default |-> "none",
     zone |-> "UTC", hostname |-> FALSE, fake |-> TRUE, no_autodetect |-> FALSE, no_fallback |-> TRUE],
    [files |-> <<FileOf("skel", "none", "pre-user"), FileOf("hosts", "root", "build"),
                 FileOf("conf", "alice", "build")>>,
     scripts |-> <<>>,
     groups |-> <<"wheel">>, users |-> <<[name |-> "alice", uid |-> 2, groups |-> {"wheel"}]>>,
     remove |-> <<"junk">>, enable |-> {"sshd", "udevd"}, disable |-> {"sshd"}, default |-> "graphical",
     zone |-> "UTC", hostname |-> TRUE, fake |-> TRUE, no_autodetect |-> FALSE, no_fallback |-> FALSE],
    [files |-> <<>>, scripts |-> <<>>, groups |-> <<>>,
     users |-> <<[name |-> "root", uid |-> 0, groups |-> {}]>>,
     remove |-> <<>>, enable |-> {}, disable |-> {}, default |-> "none",
     zone |-> "CET", hostname |-> FALSE, fake |-> FALSE, no_autodetect |-> TRUE, no_fallback |-> TRUE]>>

MCPresets == [f \in {"linux", "lts"} |->
    IF f = "linux" THEN [default |-> "linux.img", fallback |-> "linux-fallback.img"]
    ELSE [default |-> "lts.img"]]
=============================================================================
