----------------------------- MODULE MCConfigs -----------------------------
(* Two families of configs/: files that include each other in all ways, with *)
(* fixed contents; and one file whose values refer to each other in all ways. *)
EXTENDS Configs

CONSTANTS none

Entry(k, v) == [key |-> k, val |-> v]
Word(x) == Str(<<Lit(x)>>)
Words(s) == List([i \in DOMAIN s |-> <<Lit(s[i])>>])
KernelOpts(opts) == Entry("kernel", Dict(<<Entry("cmdline", Words(opts))>>))
OneFile(also, body) == <<[also |-> also, body |-> body]>>

BodyA == <<Entry("target", Word("t")), Entry("name", Word("a")), Entry("pk", Words(<<"pa">>))>>
BodyB == <<Entry("pk", Words(<<"pb">>)), Entry("name", Word("b")), KernelOpts(<<"quiet">>)>>
BodyC == <<Entry("arch", Word("arm")), Entry("name", Word("c")), KernelOpts(<<"ro">>),
           Entry("pk", Words(<<"pc", "pc2">>))>>
BodyD == <<Entry("name", Words(<<"d">>)), Entry("kernel", Dict(<<Entry("path", Word("d"))>>))>>
BodyP == <<Entry("package", Dict(<<Entry("configs", Words(<<"c">>))>>))>>

WithThen(body, then) == IF then = none THEN body ELSE Append(body, Entry("+then", then))

GraphSets ==
    {[n \in {"a", "b", "c", "d", "p"} |->
        CASE n = "a" -> OneFile(Words(alsoA), WithThen(BodyA, thenA))
          [] n = "b" -> OneFile(alsoB, WithThen(BodyB, thenB)) \o OneFile(Words(<<>>), <<Entry("name", Word("b2"))>>)
          [] n = "c" -> OneFile(Words(<<>>), BodyC)
          [] n = "d" -> OneFile(Words(<<>>), WithThen(BodyD, thenD))
          [] n = "p" -> OneFile(Words(<<>>), BodyP)] :
        alsoA \in {<<>>, <<"b">>, <<"c", "b">>, <<"missing">>},
        alsoB \in {Words(<<>>), Words(<<"c">>), Word("a"), Dict(<<>>)},
        thenA \in {none, Words(<<"d">>), Word("d"), Words(<<"b">>)},
        thenB \in {none, Words(<<"d">>)},
        thenD \in {none, Words(<<"c">>)}}

R(k, d) == Ref(<<k>>, d)
Templates ==
    {<<Lit("x")>>, <<R("k1", NoDefault)>>, <<R("k2", "def")>>, <<R("k3", NoDefault), Lit("y")>>,
     <<R("k3", "def")>>, <<Ref(<<"none">>, "def"), R("k2", NoDefault)>>,
     <<Join(<<"kernel", "cmdline">>)>>, <<Ref(<<"kernel", "cmdline", "0">>, "def")>>, <<Join(<<"k1">>)>>,
     <<Ref(<<"kernel", "name">>, NoDefault)>>}

ValueSets ==
    {[n \in {"a"} |-> OneFile(Words(<<>>),
        <<Entry("k1", Str(t1)), Entry("target", Word("t")), Entry("k2", Str(t2)),
          Entry("kernel", Dict(<<Entry("name", Str(t4)),
                                 Entry("cmdline", List(<<<<R("k3", "def")>>, <<Lit("quiet")>>>>))>>)),
          Entry("arch", Word("arm")), Entry("k3", Str(t3))>>)] :
        t1 \in Templates, t2 \in Templates, t3 \in Templates,
        t4 \in {<<Lit("linux")>>, <<R("k1", NoDefault)>>}}

Command(p, c) == [preset |-> p, configs |-> c, mirrors |-> <<>>]
MCCommands == {Command(none, <<"a">>), Command(none, <<"d", "a">>), Command("p", <<"a">>)}
MCFileSets == GraphSets \cup ValueSets
MCPaths == <<Entry("work", Word("w")), Entry("rootfs", Word("r"))>>
MCStrings == STRING
MCRootCmdline == <<<<Lit("ro")>>, <<Lit("root=uuid")>>>>
=============================================================================
