----------------------------- MODULE SubScript -----------------------------
(***************************************************************************)
(* The replacement of ${...} in the values of the configuration            *)
(* (lib/subscript.py).                                                     *)
(*                                                                         *)
(* A configuration is an ordered dict: a sequence of [key, val].  A value  *)
(* is a string, a list of strings or a dict, nested once.  A string is a   *)
(* sequence of pieces: a literal, or a reference to the path of another    *)
(* value with, possibly, a default.  What a string is replaced with is a   *)
(* sequence of literals; how a list is joined or a dict is printed is left *)
(* out: the text of a container is that of its members, in order.          *)
(***************************************************************************)
EXTENDS Naturals, Sequences, SequencesExt

CONSTANT Strings        \* the keys, the words and the defaults

NoDefault == "no default"

Lit(x) == [t |-> "lit", to |-> x, def |-> NoDefault]
Ref(path, def) == [t |-> "ref", to |-> path, def |-> def]
Join(path) == [t |-> "join", to |-> path, def |-> NoDefault]        \* ${@...}

Str(pieces) == [t |-> "str", strings |-> <<pieces>>, entries |-> <<>>]
List(strings) == [t |-> "list", strings |-> strings, entries |-> <<>>]
Dict(entries) == [t |-> "dict", strings |-> <<>>, entries |-> entries]

\* What a configuration file may hold.  The keys of a dict are unique
Pieces ==
    [t : {"lit"}, to : Strings, def : {NoDefault}]
        \cup [t : {"ref"}, to : Seq(Strings), def : Strings \cup {NoDefault}]
        \cup [t : {"join"}, to : Seq(Strings), def : {NoDefault}]
FlatValues ==
    [t : {"str"}, strings : [1..1 -> Seq(Pieces)], entries : {<<>>}]
        \cup [t : {"list"}, strings : Seq(Seq(Pieces)), entries : {<<>>}]
Values == FlatValues \cup [t : {"dict"}, strings : {<<>>}, entries : Seq([key : Strings, val : FlatValues])]

KeysOf(cfg) == {cfg[i].key : i \in DOMAIN cfg}
KeysDiffer(cfg) == \A i, j \in DOMAIN cfg : cfg[i].key = cfg[j].key => i = j
ValueAt(cfg, key) == cfg[CHOOSE i \in DOMAIN cfg : cfg[i].key = key].val

IsConfiguration(cfg) ==
    /\ cfg \in Seq([key : Strings, val : Values]) /\ KeysDiffer(cfg)
    /\ \A i \in DOMAIN cfg : KeysDiffer(cfg[i].val.entries)

\* A node of the tree: its path, its kind, the string of a leaf, the paths of the members
Leaf(path, pieces) == [path |-> path, t |-> "str", pieces |-> pieces, kids |-> <<>>]
Container(path, t, kids) == [path |-> path, t |-> t, pieces |-> <<>>, kids |-> kids]

ListNodes(path, strings) ==
    [i \in DOMAIN strings |-> Leaf(Append(path, ToString(i - 1)), strings[i])]
        \o <<Container(path, "list", [i \in DOMAIN strings |-> Append(path, ToString(i - 1))])>>

\* the nodes of a value, where `inner` are those below it if it is a dict
NodesOf(path, val, inner) ==
    CASE val.t = "str" -> <<Leaf(path, val.strings[1])>>
      [] val.t = "list" -> ListNodes(path, val.strings)
      [] val.t = "dict" -> inner
                \o <<Container(path, "dict", [i \in DOMAIN val.entries |-> Append(path, val.entries[i].key)])>>

Inner(path, cfg) ==
    FlattenSeq([i \in DOMAIN cfg |-> NodesOf(Append(path, cfg[i].key), cfg[i].val, <<>>)])

\* parse_rec: the nodes of the configuration, each after its members
Nodes(cfg) ==
    FlattenSeq([i \in DOMAIN cfg |->
        NodesOf(<<cfg[i].key>>, cfg[i].val, Inner(<<cfg[i].key>>, cfg[i].val.entries))])

Paths(nodes) == {nodes[i].path : i \in DOMAIN nodes}
NodeAt(nodes, path) == nodes[CHOOSE i \in DOMAIN nodes : nodes[i].path = path]

\* dict_get raises on the way through a string or a list
Unsupported(nodes, path) ==
    \E i \in DOMAIN nodes : /\ nodes[i].t # "dict"
                            /\ IsStrictPrefix(nodes[i].path, path)

\* the text at a path, of a leaf or of all leaves below
TextAt(nodes, text, path) ==
    FlattenSeq([i \in DOMAIN nodes |->
        IF nodes[i].t = "str" /\ IsPrefix(path, nodes[i].path) THEN text[nodes[i].path] ELSE <<>>])

-----------------------------------------------------------------------------
\* What a SubScript knows: the resolved paths with their text, the references that
\* wait for one, the node that is next in this pass and what the pass did so far
NoText == <<>>
StartScript(nodes) ==
    [nodes |-> nodes, resolved |-> {}, text |-> [p \in Paths(nodes) |-> NoText], unresolved |-> {},
     at |-> 1, count |-> 0, complete |-> TRUE, raised |-> FALSE]

\* resolve_token and the turn of process for one piece of a string
Piece(useDef, s, acc, piece) ==
    LET missing == piece.to \notin s.resolved
    IN  IF ~acc.ok \/ acc.raised THEN acc
        ELSE IF piece.t = "lit" THEN [acc EXCEPT !.text = Append(@, piece.to)]
        ELSE IF Unsupported(s.nodes, piece.to) THEN [acc EXCEPT !.raised = TRUE]
        ELSE IF missing /\ useDef /\ piece.def # NoDefault
        THEN [acc EXCEPT !.text = Append(@, piece.def), !.waits = @ \cup {piece.to}]
        ELSE IF missing THEN [acc EXCEPT !.ok = FALSE, !.waits = @ \cup {piece.to}]
        ELSE IF piece.t = "join" /\ NodeAt(s.nodes, piece.to).t # "list"
        THEN [acc EXCEPT !.raised = TRUE]
        ELSE [acc EXCEPT !.text = @ \o TextAt(s.nodes, s.text, piece.to),
                         !.waits = @ \ {piece.to}]

\* process: all references of a string or none
Process(useDef, s, pieces) ==
    LET after[i \in 0..Len(pieces)] ==
            IF i = 0 THEN [ok |-> TRUE, raised |-> FALSE, text |-> <<>>, waits |-> s.unresolved]
            ELSE Piece(useDef, s, after[i - 1], pieces[i])
    IN  after[Len(pieces)]

Resolved(s, path, text) ==
    [s EXCEPT !.resolved = @ \cup {path}, !.text[path] = text, !.count = @ + 1]

\* process_one
ProcessOne(useDef, s, node) ==
    IF s.raised \/ node.path \in s.resolved THEN s
    ELSE IF node.t # "str"
    THEN IF Range(node.kids) \subseteq s.resolved THEN Resolved(s, node.path, NoText)
         ELSE [s EXCEPT !.complete = FALSE]
    ELSE LET p == Process(useDef, s, node.pieces)
             t == [s EXCEPT !.unresolved = p.waits, !.raised = p.raised]
         IN  IF p.ok /\ ~p.raised THEN Resolved(t, node.path, p.text) ELSE [t EXCEPT !.complete = FALSE]

\* MUTANT of StartPass: a pass forgets what earlier ones have resolved
StartPassAgain(s) == [s EXCEPT !.at = 1, !.count = 0, !.complete = TRUE, !.resolved = {}]

\* the next turn of the loop of parse: parse_rec over the whole tree
StartPass(s) == [s EXCEPT !.at = 1, !.count = 0, !.complete = TRUE]

\* MUTANT of TakeDefaults: defaults are allowed as soon as a pass leaves something
TakeDefaultsAtOnce(s) == TRUE

\* parse: only a pass that resolves nothing allows the defaults
TakeDefaults(s) == s.count = 0 /\ s.unresolved # {}

-----------------------------------------------------------------------------
(* Reference definitions. *)

Grounded(resolvable, withDefaults, node) ==
    IF node.t # "str" THEN Range(node.kids) \subseteq resolvable
    ELSE \A i \in DOMAIN node.pieces :
            LET p == node.pieces[i]
            IN  \/ p.t = "lit" \/ p.to \in resolvable
                \/ withDefaults /\ p.def # NoDefault

Ready(nodes, S, withDefaults) ==
    {nodes[i].path : i \in {j \in DOMAIN nodes : Grounded(S, withDefaults, nodes[j])}}

\* the values that can be resolved at all: the least fixed point
Resolvable(nodes, withDefaults) ==
    LET after[k \in 0..Len(nodes)] ==
            IF k = 0 THEN {} ELSE LET S == after[k - 1] IN Ready(nodes, S, withDefaults)
    IN  after[Len(nodes)]

\* a reference is to something that can never be looked up, or is joined and no list
Ill(nodes) ==
    \E i \in DOMAIN nodes : \E j \in DOMAIN nodes[i].pieces :
        LET p == nodes[i].pieces[j]
        IN  /\ p.t # "lit"
            /\ \/ Unsupported(nodes, p.to)
               \/ p.t = "join" /\ p.to \in Paths(nodes) /\ NodeAt(nodes, p.to).t # "list"

\* what may stand for a piece: the text that its target has now; a default stands
\* only where the target needs one itself
Offers(nodes, text, easy, all, p) ==
    IF p.t = "lit" THEN {<<p.to>>}
    ELSE (IF p.to \in all THEN {TextAt(nodes, text, p.to)} ELSE {})
         \cup (IF p.def # NoDefault /\ p.to \notin easy THEN {<<p.def>>} ELSE {})

\* one text of each set, in their order
Concats(offers) ==
    LET texts[k \in 0..Len(offers)] ==
            IF k = 0 THEN {<<>>} ELSE {a \o b : a \in texts[k - 1], b \in offers[k]}
    IN  texts[Len(offers)]

\* the text of a leaf is its string with every reference replaced
AgreesWith(nodes, text, easy, all, node) ==
    text[node.path] \in Concats([k \in DOMAIN node.pieces |-> Offers(nodes, text, easy, all, node.pieces[k])])

=============================================================================
