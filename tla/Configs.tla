------------------------------ MODULE Configs ------------------------------
(***************************************************************************)
(* Loading the configuration: the files named on the command line, those   *)
(* they include, the merge of all of them, and the replacement of the      *)
(* references in the result, also when it changes later (lib/config.py,    *)
(* main.py, the configuration in lib/context.py).                          *)
(*                                                                         *)
(* The recursion of load_configs and load_config_file is a stack of frames *)
(* `todo`, the innermost first.  Python's limit of it is MaxDepth.         *)
(***************************************************************************)
EXTENDS SubScript

CONSTANTS
    FileSets,       \* the contents of configs/ to choose from
    Commands,       \* the command lines: --preset or None, --config, --mirror
    None,
    Paths0,         \* what populate_config sets: work, rootfs, output and mount
    RootCmdline,    \* the words proc_cmdline_root adds to the command line of the kernel
    RootWords,      \* the words that begin with "root="
    MaxDepth        \* bound: nested includes

ASSUME ConfigsAssumption ==
    /\ MaxDepth \in Nat \ {0}
    /\ \A fs \in FileSets : \A n \in DOMAIN fs :
          /\ fs[n] \in Seq(Range(fs[n]))
          /\ \A f \in Range(fs[n]) : f.also \in Values /\ IsConfiguration(f.body)
    /\ \A c \in Commands : {c.configs, c.mirrors} \subseteq Seq(Strings)
    /\ IsConfiguration(Paths0)
    /\ RootCmdline \in Seq(Seq(Pieces))
    /\ {"version", "now", "kernel", "cmdline"} \subseteq Strings

VARIABLES
    cmd,            \* the command line
    files,          \* files[n]: the files of that name, in the order of the suffixes
    config,         \* ctx.config until it is populated
    todo,           \* the frames of load_configs and load_config_file
    shared,         \* the loop that iterates over the list in config["+then"], 0: none
    loaded,         \* history: the files in the order in which they were merged
    orig,           \* ctx.config_orig
    script,         \* the SubScript that works on a copy of it
    useDef,
    pc

vars == <<cmd, files, config, todo, shared, loaded, orig, script, useDef, pc>>
loading == <<cmd, files, config, todo, shared, loaded>>
resolving == <<orig, script, useDef>>

-----------------------------------------------------------------------------
\* the entries of src over those of dst, where joined[k] is the value of a key both have
Overlay(joined, dst, src) ==
    [i \in DOMAIN dst |->
        IF dst[i].key \in KeysOf(src) THEN [dst[i] EXCEPT !.val = joined[dst[i].key]] ELSE dst[i]]
    \o FlattenSeq([i \in DOMAIN src |-> IF src[i].key \in KeysOf(dst) THEN <<>> ELSE <<src[i]>>])

Common(dst, src) == KeysOf(dst) \cap KeysOf(src)

\* _dict_merge for a key both have, where two dicts become `entries`
MergeValue(old, new, entries) ==
    CASE old.t = "list" /\ new.t = "list" -> List(old.strings \o new.strings)
      [] old.t = "dict" /\ new.t = "dict" -> Dict(entries)
      [] OTHER -> new

\* the values of an inner dict are no dicts
MergeInner(dst, src) ==
    Overlay([k \in Common(dst, src) |->
                MergeValue(ValueAt(dst, k), ValueAt(src, k), <<>>)], dst, src)
DictMerge(dst, src) ==
    Overlay([k \in Common(dst, src) |->
                LET old == ValueAt(dst, k)
                    new == ValueAt(src, k)
                IN  MergeValue(old, new, MergeInner(old.entries, new.entries))], dst, src)

-----------------------------------------------------------------------------
Names(names, id, depth) == [t |-> "names", names |-> names, file |-> None, id |-> id, depth |-> depth]
Frame(t, file, depth) == [t |-> t, names |-> <<>>, file |-> file, id |-> 0, depth |-> depth]

Then(body) == IF "+then" \in KeysOf(body) THEN ValueAt(body, "+then") ELSE List(<<>>)
\* the names in the value of an include, a string or a list
Included(val) == [i \in DOMAIN val.strings |-> val.strings[i][1].to]

Top == todo[1]

Init ==
    /\ cmd \in Commands
    /\ files \in FileSets
    /\ config = <<[key |-> "version", val |-> Str(<<Lit("now")>>)]>>
    /\ todo = <<Names(IF cmd.preset = None THEN cmd.configs \o cmd.mirrors ELSE <<cmd.preset>>, 0, 1)>>
    /\ shared = 0 /\ loaded = <<>>
    /\ orig = <<>> /\ script = StartScript(<<>>) /\ useDef = FALSE
    /\ pc = IF cmd.preset = None THEN "configs" ELSE "preset"

Fail == pc' = "failed"
Loading == pc \in {"preset", "configs"} /\ todo # <<>>

\* load_configs: the files of the next name, or the end of its loop
LoadNext ==
    /\ Loading /\ Top.t = "names"
    /\ LET name == Head(Top.names)
           rest == [Top EXCEPT !.names = Tail(@)]
       IN  IF Top.names = <<>> THEN todo' = Tail(todo) /\ pc' = pc
           ELSE IF name \notin DOMAIN files \/ files[name] = <<>> \/ Top.depth > MaxDepth
           THEN Fail /\ todo' = todo
           ELSE /\ todo' = [i \in DOMAIN files[name] |-> Frame("load", files[name][i], Top.depth)]
                            \o <<rest>> \o Tail(todo)
                /\ pc' = pc
    /\ UNCHANGED <<cmd, files, config, shared, loaded, resolving>>

\* MUTANT of AfterAlso: the file is merged before those it builds on
AfterAlsoFirst(file, depth) == <<Frame("merge", file, depth), Names(Included(file.also), 0, depth + 1)>>

\* load_config_file up to the merge: the files of "+also" come first
AfterAlso(file, depth) == <<Names(Included(file.also), 0, depth + 1), Frame("merge", file, depth)>>

LoadFile ==
    /\ Loading /\ Top.t = "load"
    /\ IF Top.file.also.t \in {"str", "list"}
       THEN todo' = AfterAlso(Top.file, Top.depth) \o Tail(todo) /\ pc' = pc
       ELSE Fail /\ todo' = todo
    /\ UNCHANGED <<cmd, files, config, shared, loaded, resolving>>

\* load_config_file: the merge, then the files of "+then".  That key is merged as
\* well: the first list becomes part of the configuration, and grows under the
\* loop over it when a file it includes has such a list itself
MergeFile ==
    /\ Loading /\ Top.t = "merge"
    /\ LET body == Top.file.body
           new == Then(body)
           grows == new.t = "list" /\ "+then" \in KeysOf(config) /\ Then(config).t = "list"
           id == IF "+then" \in KeysOf(body) /\ new.t = "list" /\ ~grows THEN Len(loaded) + 1 ELSE 0
           grown == [i \in DOMAIN todo |->
                        IF grows /\ shared # 0 /\ todo[i].id = shared
                        THEN [todo[i] EXCEPT !.names = @ \o Included(new)] ELSE todo[i]]
       IN  /\ config' = DictMerge(config, body)
           /\ loaded' = Append(loaded, Top.file)
           /\ shared' = IF "+then" \in KeysOf(body) /\ ~grows THEN id ELSE shared
           /\ IF new.t \in {"str", "list"}
              THEN todo' = <<Names(Included(new), id, Top.depth + 1)>> \o Tail(grown) /\ pc' = pc
              ELSE Fail /\ todo' = todo
    /\ UNCHANGED <<cmd, files, resolving>>

\* load_preset, and the names it adds; context.get fails on a package that is no dict
PresetLoaded ==
    /\ pc = "preset" /\ todo = <<>>
    /\ LET package == IF "package" \in KeysOf(config) THEN ValueAt(config, "package") ELSE Str(<<>>)
           more == IF package.t = "dict" /\ "configs" \in KeysOf(package.entries)
                   THEN Included(ValueAt(package.entries, "configs")) ELSE <<>>
       IN  IF package.t # "dict" THEN Fail /\ todo' = todo
           ELSE /\ todo' = <<Names(cmd.configs \o more \o cmd.mirrors, 0, 1)>>
                /\ pc' = "configs"
    /\ UNCHANGED <<cmd, files, config, shared, loaded, resolving>>

\* fill_base_options, populate_config, finish_config
Populate ==
    /\ pc = "configs" /\ todo = <<>>
    /\ IF /\ {"target", "arch"} \subseteq KeysOf(config)
          /\ ValueAt(config, "arch") # Str(<<Lit("any")>>)
       THEN /\ config' = Overlay([k \in Common(config, Paths0) |-> ValueAt(Paths0, k)], config, Paths0)
            /\ orig' = config'
            /\ pc' = "populated"
       ELSE Fail /\ UNCHANGED <<config, orig>>
    /\ UNCHANGED <<cmd, files, todo, shared, loaded, script, useDef>>

\* resolve_subscript: a new SubScript for a copy of config_orig
ResolveSubscript ==
    /\ pc \in {"populated", "added"}
    /\ script' = StartScript(Nodes(orig)) /\ useDef' = FALSE
    /\ pc' = IF pc = "populated" THEN "resolve" ELSE "again"
    /\ UNCHANGED <<loading, orig>>

Parsing == pc \in {"resolve", "again"} /\ ~script.raised

\* SubScript.parse_rec: the next node of this pass
ParseNode ==
    /\ Parsing /\ script.at <= Len(script.nodes)
    /\ script' = [ProcessOne(useDef, script, script.nodes[script.at]) EXCEPT !.at = @ + 1]
    /\ UNCHANGED <<loading, orig, useDef, pc>>

\* MUTANT of Complete: a pass that resolves nothing ends it
CompleteWhenStuck == script.complete \/ script.count = 0

\* parse: the conditions under which its loop is left
Complete == script.complete \/ (script.count = 0 /\ script.unresolved = {})

\* SubScript.parse: another pass, or the end
NextPass ==
    /\ Parsing /\ script.at > Len(script.nodes)
    /\ script' = IF Complete THEN script ELSE StartPass(script)
    /\ useDef' = (useDef \/ (~Complete /\ TakeDefaults(script)))
    /\ pc' = CASE Complete -> IF pc = "resolve" THEN "ready" ELSE "done"
               [] ~Complete /\ script.count = 0 /\ useDef -> "failed"
               [] OTHER -> pc
    /\ UNCHANGED <<loading, orig>>

ParseRaises ==
    /\ pc \in {"resolve", "again"} /\ script.raised
    /\ Fail
    /\ UNCHANGED <<loading, resolving>>

\* MUTANT of CmdlineSource: the words are added to what is resolved already
CmdlineSourceResolved ==
    [i \in DOMAIN orig |->
        IF orig[i].val.t = "str"
        THEN LET text == script.text[<<orig[i].key>>]
             IN  [orig[i] EXCEPT !.val = Str([k \in DOMAIN text |-> Lit(text[k])])]
        ELSE orig[i]]

\* proc_cmdline_root changes config_orig, not the resolved configuration
CmdlineSource == orig

CmdlineAdded == <<[key |-> "kernel", val |-> Dict(<<[key |-> "cmdline", val |-> List(RootCmdline)]>>)]>>

Kernel(cfg) == IF "kernel" \in KeysOf(cfg) THEN ValueAt(cfg, "kernel") ELSE Dict(<<>>)
Cmdline(kern) == IF "cmdline" \in KeysOf(kern.entries) THEN ValueAt(kern.entries, "cmdline") ELSE List(<<>>)
RootIsSet(strings) == \E i \in DOMAIN strings : strings[i] # <<>> /\ strings[i][1].to \in RootWords

\* proc_cmdline_root: the root file system is known only when its image is built
AddRootCmdline ==
    /\ pc = "ready"
    /\ LET cmds == Cmdline(Kernel(orig))
       IN  IF Kernel(orig).t # "dict" \/ cmds.t # "list" \/ RootIsSet(cmds.strings)
           THEN Fail /\ orig' = orig
           ELSE pc' = "added" /\ orig' = DictMerge(CmdlineSource, CmdlineAdded)
    /\ UNCHANGED <<loading, script, useDef>>

Ended == pc \in {"done", "failed"} /\ UNCHANGED vars

Step ==
    \/ LoadNext \/ LoadFile \/ MergeFile \/ PresetLoaded
    \/ Populate \/ ResolveSubscript \/ ParseNode \/ NextPass \/ ParseRaises \/ AddRootCmdline

Next == Step \/ Ended

\* one thread that only computes
Spec == Init /\ [][Next]_vars /\ WF_vars(Step)

-----------------------------------------------------------------------------
\* the files in the order in which they are to be merged: what a file includes with
\* "+also" before it, with "+then" after it, where of[n] are those of a name
OrderOfNames(of, names) ==
    FlattenSeq([k \in DOMAIN names |-> IF names[k] \in DOMAIN of THEN of[names[k]] ELSE <<>>])
OrderOfFile(of, f) ==
    OrderOfNames(of, Included(f.also)) \o <<f>> \o OrderOfNames(of, Included(Then(f.body)))

\* to a depth that no program without a cycle exceeds
Orders ==
    LET of[d \in 0..MaxDepth + 1] ==
            IF d = 0 THEN [n \in DOMAIN files |-> <<>>]
            ELSE LET below == of[d - 1]
                 IN  [n \in DOMAIN files |->
                        FlattenSeq([i \in DOMAIN files[n] |-> OrderOfFile(below, files[n][i])])]
    IN  of
RefOrder(names) == OrderOfNames(Orders[MaxDepth + 1], names)

NestedThen == \E i, j \in DOMAIN loaded :
    i # j /\ "+then" \in KeysOf(loaded[i].body) /\ "+then" \in KeysOf(loaded[j].body)

\* the merged files with a key, the last of them, and those after the last change of
\* its kind of value
Having(key) == {i \in DOMAIN loaded : key \in KeysOf(loaded[i].body)}
ValueIn(i, key) == ValueAt(loaded[i].body, key)
LastWith(key) == CHOOSE i \in Having(key) : \A k \in Having(key) : k <= i
LastRun(key) ==
    {i \in Having(key) : \A k \in Having(key) : k >= i => ValueIn(k, key).t = ValueIn(LastWith(key), key).t}

\* Files are merged in the order their includes ask for, also those that several
\* files include, which are merged for each; a later file overrides the strings of
\* the earlier ones and adds to their lists (load_configs, load_config_file,
\* _dict_merge).  Two files with "+then" are another matter: see MergeFile.
LoadedInOrder ==
    pc \in {"populated", "ready"} =>
        /\ NestedThen \/ cmd.preset # None \/ loaded = RefOrder(cmd.configs \o cmd.mirrors)
        /\ \A e \in Range(config) :
              LET last == ValueIn(LastWith(e.key), e.key)
                  run == LastRun(e.key)
              IN  Having(e.key) # {} /\ e.key \notin KeysOf(Paths0) =>
                     CASE last.t = "str" -> e.val = last
                       [] last.t = "list" ->
                            e.val.strings = FlattenSeq([i \in DOMAIN loaded |->
                                IF i \in run THEN ValueIn(i, e.key).strings ELSE <<>>])
                       [] last.t = "dict" ->
                            KeysOf(e.val.entries) = UNION {KeysOf(ValueIn(i, e.key).entries) : i \in run}

\* what is to be in the configuration now
Wanted == IF pc = "ready" THEN config ELSE DictMerge(config, CmdlineAdded)

\* Every value that is replaced agrees with the values it refers to, in any order
\* and through any chain of references, also after the command line has grown, and
\* a default stands only for what cannot be had without one (parse, parse_rec,
\* process; proc_cmdline_root, resolve_subscript).
ReplacedAgree ==
    pc \in {"ready", "done"} =>
        LET nodes == Nodes(Wanted)
            easy == Resolvable(nodes, FALSE)
            all == Resolvable(nodes, TRUE)
        IN  \A i \in DOMAIN nodes :
               nodes[i].t = "str" => AgreesWith(nodes, script.text, easy, all, nodes[i])

\* The references are refused exactly when one of them can never be looked up or
\* some value can have no text: neither the order of the keys nor the defaults
\* taken on the way decide it (SubScript.parse).
ResolvableIsResolved ==
    LET nodes == Nodes(orig)
        good == ~Ill(nodes) /\ Resolvable(nodes, TRUE) = Paths(nodes)
    IN  /\ pc \in {"ready", "done"} => good
        /\ pc = "failed" /\ orig # <<>> => script.resolved = Paths(nodes) \/ ~good

\* The configuration is complete or refused: includes and references that go round
\* in circles end as well (load_configs, SubScript.parse).
ConfigEnds == <>(pc \in {"done", "failed"})

=============================================================================
