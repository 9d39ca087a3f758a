---------------------------- MODULE RootfsProofs ----------------------------
(***************************************************************************)
(* Proofs about Rootfs, for any configurations, presets and number of runs,*)
(* and about the calls of commands it makes, for pipes of any size.        *)
(***************************************************************************)
EXTENDS Rootfs, RunExternal, SequenceTheorems, WellFoundedInduction, TLAPS

-----------------------------------------------------------------------------
(* The programs: which steps they consist of, in which order.              *)

PreUser == 1
Accounts == 2
BuildTime == 3
Enables == 4
Disables == 5
Later == 6

Phases == {PreUser, Accounts, BuildTime, Enables, Disables, Later}

FilePhase(stage) ==
  IF stage = "pre-user" THEN PreUser ELSE IF stage = "build" THEN BuildTime ELSE Later

Phase(x) ==
  IF x.op = "file" THEN FilePhase(x.arg.stage)
  ELSE IF x.op \in {"group", "user"} THEN Accounts
  ELSE IF x.op = "remove" THEN BuildTime
  ELSE IF x.op = "enable" THEN Enables
  ELSE IF x.op = "disable" THEN Disables
  ELSE Later

InnerOps == {"continue", "script", "file", "group", "user", "remove", "enable", "disable", "default",
             "reset_locale", "locale-gen", "timezone", "open_config", "write"}

Free(x) == x.op \in {"continue", "script"}

WellFormed(c, x) ==
  /\ x.op \in InnerOps
  /\ x.op = "file" => x.arg \in Range(c.files)
  /\ x.op = "user" => x.arg \in Range(c.users)
  /\ x.op = "open_config" => x.arg \in GenFiles
  /\ x.op = "write" => x.arg \in Unpackaged

(* From the a-th step on, p has steps of the phases lo to hi in their order.*)
Span(c, p, a, lo, hi) ==
  /\ IsSequence(p)
  /\ \A i \in a .. Len(p) : WellFormed(c, p[i]) /\ (Free(p[i]) \/ Phase(p[i]) \in lo .. hi)
  /\ \A i, j \in a .. Len(p) : i < j => Free(p[i]) \/ Free(p[j]) \/ Phase(p[i]) =< Phase(p[j])

LEMMA PhaseOrder ==
  /\ Phases \subseteq Nat /\ \A stage : FilePhase(stage) \in Phases
  /\ PreUser \in Phases /\ Accounts \in Phases /\ BuildTime \in Phases
  /\ Enables \in Phases /\ Disables \in Phases /\ Later \in Phases
  /\ PreUser < Accounts /\ Accounts < BuildTime /\ BuildTime < Enables /\ Enables < Disables /\ Disables < Later
  BY DEF Phases, FilePhase, PreUser, Accounts, BuildTime, Enables, Disables, Later

LEMMA SequenceFacts ==
  ASSUME NEW s, IsSequence(s)
  PROVE  /\ Len(s) \in Nat /\ DOMAIN s = 1 .. Len(s)
         /\ Range(s) = {s[i] : i \in 1 .. Len(s)}
<1>1. Len(s) \in Nat /\ DOMAIN s = 1 .. Len(s)
  BY LenProperties DEF IsSequence
<1>2. QED BY <1>1 DEF Range

(* A function on 1..n is a sequence.                                       *)
LEMMA FunctionIsSequence ==
  ASSUME NEW n \in Nat, NEW f, f = [i \in 1 .. n |-> f[i]]
  PROVE  IsSequence(f) /\ Len(f) = n
<1>1. f \in [1 .. n -> Range(f)]
  BY DEF Range
<1>2. f \in Seq(Range(f))
  BY <1>1, SeqDef
<1>3. DOMAIN f = 1 .. n /\ DOMAIN f = 1 .. Len(f) /\ Len(f) \in Nat
  BY <1>1, <1>2, LenProperties
<1>4. QED
  <2>1. ASSUME NEW m \in Nat, 1 .. m = 1 .. n PROVE m = n
    <3>1. m >= 1 => m \in 1 .. m
      OBVIOUS
    <3>2. n >= 1 => n \in 1 .. n
      OBVIOUS
    <3>3. (m >= 1 => m =< n) /\ (n >= 1 => n =< m)
      BY <2>1, <3>1, <3>2
    <3>4. QED BY <3>3
  <2>2. QED BY <1>2, <1>3, <2>1 DEF IsSequence

LEMMA ConcatFacts ==
  ASSUME NEW s, IsSequence(s), NEW t, IsSequence(t)
  PROVE  /\ IsSequence(s \o t)
         /\ Len(s \o t) = Len(s) + Len(t)
         /\ \A i \in 1 .. Len(s) + Len(t) :
              (s \o t)[i] = IF i =< Len(s) THEN s[i] ELSE t[i - Len(s)]
         /\ Range(s \o t) = Range(s) \cup Range(t)
<1> DEFINE S == Range(s) \cup Range(t)
           p == s \o t
<1>1. s \in Seq(S) /\ t \in Seq(S)
  BY SeqMonotonic DEF IsSequence
<1> HIDE DEF S
<1>2. /\ p \in Seq(S) /\ Len(p) = Len(s) + Len(t)
      /\ \A i \in 1 .. Len(s) + Len(t) : p[i] = IF i =< Len(s) THEN s[i] ELSE t[i - Len(s)]
  BY <1>1, ConcatProperties
<1>3. Len(s) \in Nat /\ Len(t) \in Nat
  BY <1>1, LenProperties
<1>4. p = [i \in 1 .. Len(p) |-> p[i]] /\ Len(p) \in Nat /\ DOMAIN p = 1 .. Len(p)
  BY <1>2, LenProperties
<1> HIDE DEF p
<1>5. IsSequence(p)
  BY <1>4, FunctionIsSequence
<1>6. Range(p) = Range(s) \cup Range(t)
  <2>1. \A x \in Range(p) : x \in Range(s) \cup Range(t)
    <3> SUFFICES ASSUME NEW i \in 1 .. Len(s) + Len(t) PROVE p[i] \in Range(s) \cup Range(t)
      BY <1>2, <1>4 DEF Range
    <3>1. CASE i =< Len(s)
      BY <3>1, <1>2, <1>3, SequenceFacts
    <3>2. CASE i > Len(s)
      <4>1. i - Len(s) \in 1 .. Len(t) /\ p[i] = t[i - Len(s)]
        BY <3>2, <1>2, <1>3
      <4>2. QED BY <4>1, SequenceFacts
    <3>3. QED BY <3>1, <3>2, <1>3
  <2>2. ASSUME NEW i \in 1 .. Len(s) PROVE s[i] \in Range(p)
    <3>1. i \in 1 .. Len(p) /\ p[i] = s[i]
      BY <1>2, <1>3
    <3>2. QED BY <3>1, <1>4 DEF Range
  <2>3. ASSUME NEW i \in 1 .. Len(t) PROVE t[i] \in Range(p)
    <3>1. i + Len(s) \in 1 .. Len(p) /\ p[i + Len(s)] = t[i]
      BY <1>2, <1>3
    <3>2. QED BY <3>1, <1>4 DEF Range
  <2>4. QED BY <2>1, <2>2, <2>3, SequenceFacts
<1>7. QED BY <1>2, <1>5, <1>6 DEF p

LEMMA SpanConcat ==
  ASSUME NEW c, NEW s, NEW t, NEW a \in {1, 2}, NEW lo \in Phases, NEW m \in Phases, NEW n \in Phases, NEW hi \in Phases,
         Span(c, s, a, lo, m), Span(c, t, 1, n, hi), lo =< n, m =< n, m =< hi, a =< Len(s) + 1
  PROVE  Span(c, s \o t, a, lo, hi)
<1> DEFINE p == s \o t
<1>0. {lo, m, n, hi} \subseteq Nat
  BY PhaseOrder
<1>1. Len(s) \in Nat /\ Len(t) \in Nat
  BY SequenceFacts DEF Span
<1>2. /\ IsSequence(p) /\ Len(p) = Len(s) + Len(t)
      /\ \A i \in 1 .. Len(p) : p[i] = IF i =< Len(s) THEN s[i] ELSE t[i - Len(s)]
  BY ConcatFacts DEF Span
<1> HIDE DEF p
<1>3. ASSUME NEW i \in a .. Len(p)
      PROVE  \/ i \in a .. Len(s) /\ p[i] = s[i]
             \/ i > Len(s) /\ i - Len(s) \in 1 .. Len(t) /\ p[i] = t[i - Len(s)]
  BY <1>1, <1>2
<1>4. ASSUME NEW i \in a .. Len(p)
      PROVE  WellFormed(c, p[i]) /\ (Free(p[i]) \/ Phase(p[i]) \in lo .. hi)
  <2>1. CASE i \in a .. Len(s) /\ p[i] = s[i]
    <3>1. WellFormed(c, p[i]) /\ (Free(p[i]) \/ Phase(p[i]) \in lo .. m)
      BY <2>1 DEF Span
    <3>2. QED BY <1>0, <3>1
  <2>2. CASE i - Len(s) \in 1 .. Len(t) /\ p[i] = t[i - Len(s)]
    <3>1. WellFormed(c, p[i]) /\ (Free(p[i]) \/ Phase(p[i]) \in n .. hi)
      BY <2>2 DEF Span
    <3>2. QED BY <1>0, <3>1
  <2>3. QED BY <1>3, <2>1, <2>2
<1>5. ASSUME NEW i \in a .. Len(p), NEW j \in a .. Len(p), i < j
      PROVE  Free(p[i]) \/ Free(p[j]) \/ Phase(p[i]) =< Phase(p[j])
  <2>1. CASE j \in a .. Len(s) /\ p[j] = s[j]
    <3>1. i \in a .. Len(s) /\ p[i] = s[i]
      BY <2>1, <1>1, <1>3, <1>5
    <3>2. QED BY <2>1, <3>1, <1>5 DEF Span
  <2>2. CASE i > Len(s) /\ i - Len(s) \in 1 .. Len(t) /\ p[i] = t[i - Len(s)]
    <3>1. j - Len(s) \in 1 .. Len(t) /\ p[j] = t[j - Len(s)] /\ i - Len(s) < j - Len(s)
      BY <2>2, <1>1, <1>3, <1>5
    <3>2. QED BY <2>2, <3>1 DEF Span
  <2>3. CASE i \in a .. Len(s) /\ p[i] = s[i] /\ j - Len(s) \in 1 .. Len(t) /\ p[j] = t[j - Len(s)]
    <3>1. Free(p[i]) \/ Phase(p[i]) \in lo .. m
      BY <2>3 DEF Span
    <3>2. Free(p[j]) \/ Phase(p[j]) \in n .. hi
      BY <2>3 DEF Span
    <3>3. QED BY <1>0, <3>1, <3>2
  <2>4. QED BY <1>3, <1>5, <2>1, <2>2, <2>3
<1>6. QED BY <1>2, <1>4, <1>5 DEF Span, p

StepOf(op, arg) == [op |-> op, arg |-> arg]

Steps(c, op, args, n) ==
  \A i \in 1 .. Len(args) : WellFormed(c, StepOf(op, args[i])) /\ Phase(StepOf(op, args[i])) = n

LEMMA EachSpan ==
  ASSUME NEW c, NEW op, NEW args, IsSequence(args), NEW n \in Phases,
         Steps(c, op, args, n)
  PROVE  /\ Span(c, Each(op, args), 1, n, n) /\ Len(Each(op, args)) = Len(args)
         /\ \A i \in 1 .. Len(args) : Each(op, args)[i] = StepOf(op, args[i])
<1> DEFINE e == Each(op, args)
<1>1. Len(args) \in Nat /\ DOMAIN args = 1 .. Len(args)
  BY SequenceFacts
<1>2. e = [i \in 1 .. Len(args) |-> StepOf(op, args[i])]
  BY <1>1 DEF Each, StepOf
<1> HIDE DEF e
<1>3. \A i \in 1 .. Len(args) : e[i] = StepOf(op, args[i])
  BY <1>2
<1>4. e = [i \in 1 .. Len(args) |-> e[i]]
  BY <1>2
<1>5. IsSequence(e) /\ Len(e) = Len(args)
  BY <1>1, <1>4, FunctionIsSequence
<1>6. \A i \in 1 .. Len(e) : WellFormed(c, e[i]) /\ Phase(e[i]) = n
  BY <1>3, <1>5 DEF Steps
<1>7. n \in Nat
  BY PhaseOrder
<1>8. QED BY <1>3, <1>5, <1>6, <1>7 DEF Span, e

LEMMA PassSpan ==
  ASSUME NEW c, NEW op \in {"file", "script"}, NEW items, IsSequence(items), NEW stage,
         op = "file" => items = c.files
  PROVE  /\ Span(c, Pass(op, items, stage), 1, FilePhase(stage), FilePhase(stage))
         /\ \A x \in Range(items) : x.stage = stage =>
              [op |-> op, arg |-> x] \in Range(Pass(op, items, stage))
<1> DEFINE e == Pass(op, items, stage)
           Passing(x) == [op |-> IF x.stage = stage THEN op ELSE "continue", arg |-> x]
<1>1. Len(items) \in Nat /\ DOMAIN items = 1 .. Len(items) /\ Range(items) = {items[i] : i \in 1 .. Len(items)}
  BY SequenceFacts
<1>2. e = [i \in 1 .. Len(items) |-> Passing(items[i])]
  BY <1>1 DEF Pass
<1> HIDE DEF e
<1>3. \A i \in 1 .. Len(items) : e[i] = Passing(items[i])
  BY <1>2
<1>4. e = [i \in 1 .. Len(items) |-> e[i]]
  BY <1>2
<1>5. IsSequence(e) /\ Len(e) = Len(items)
  BY <1>1, <1>4, FunctionIsSequence
<1>6. ASSUME NEW i \in 1 .. Len(e)
      PROVE  WellFormed(c, e[i]) /\ (Free(e[i]) \/ Phase(e[i]) = FilePhase(stage))
  <2>1. e[i] = Passing(items[i]) /\ items[i] \in Range(items)
    BY <1>1, <1>3, <1>5
  <2>2. CASE items[i].stage # stage
    BY <2>1, <2>2 DEF WellFormed, Free, InnerOps
  <2>3. CASE items[i].stage = stage /\ op = "script"
    BY <2>1, <2>3 DEF WellFormed, Free, InnerOps
  <2>4. CASE items[i].stage = stage /\ op = "file"
    BY <2>1, <2>4 DEF WellFormed, Phase, InnerOps
  <2>5. QED BY <2>2, <2>3, <2>4
<1>7. Span(c, e, 1, FilePhase(stage), FilePhase(stage))
  <2>1. FilePhase(stage) \in Nat
    BY PhaseOrder
  <2>2. QED BY <1>5, <1>6, <2>1 DEF Span
<1>8. ASSUME NEW x \in Range(items), x.stage = stage
      PROVE  [op |-> op, arg |-> x] \in Range(e)
  <2>1. PICK i \in 1 .. Len(items) : x = items[i]
    BY <1>1
  <2>2. e[i] = [op |-> op, arg |-> x]
    BY <1>3, <1>8, <2>1
  <2>3. QED BY <1>5, <2>2, SequenceFacts
<1>9. QED BY <1>7, <1>8 DEF e

LEMMA ByPriorityIsSequence ==
  ASSUME NEW scripts, IsSequence(scripts)
  PROVE  IsSequence(ByPriority(scripts))
<1> DEFINE e == ByPriority(scripts)
<1>1. Len(scripts) \in Nat /\ DOMAIN scripts = 1 .. Len(scripts)
  BY SequenceFacts
<1>2. e = [i \in 1 .. Len(scripts) |-> e[i]]
  BY <1>1 DEF ByPriority
<1> HIDE DEF e
<1>3. IsSequence(e)
  BY <1>1, <1>2, FunctionIsSequence
<1>4. QED BY <1>3 DEF e

(* A tuple of one or two names, and no name, is a sequence.                *)
LEMMA TuplesAreSequences ==
  /\ \A x : IsSequence(<<x>>) /\ Len(<<x>>) = 1 /\ <<x>>[1] = x /\ Range(<<x>>) = {x}
  /\ \A x, y : IsSequence(<<x, y>>) /\ Len(<<x, y>>) = 2 /\ <<x, y>>[1] = x /\ <<x, y>>[2] = y
  /\ IsSequence(<<>>) /\ Len(<<>>) = 0 /\ Range(<<>>) = {}
  BY DEF IsSequence, Range

LEMMA IfSpan ==
  ASSUME NEW c, NEW cond, NEW s, NEW n \in Phases, Span(c, s, 1, n, n)
  PROVE  Span(c, If(cond, s), 1, n, n)
<1>1. Span(c, <<>>, 1, n, n)
  BY TuplesAreSequences DEF Span
<1>2. QED BY <1>1 DEF If

LEMMA OnceSpan ==
  ASSUME NEW c, NEW op, NEW n \in Phases,
         WellFormed(c, [op |-> op, arg |-> <<>>]), Phase([op |-> op, arg |-> <<>>]) = n
  PROVE  Span(c, Once(op), 1, n, n) /\ Range(Once(op)) = {[op |-> op, arg |-> <<>>]}
  BY TuplesAreSequences DEF Span, Once

LEMMA SpanSame ==
  ASSUME NEW c, NEW s, NEW t, NEW n \in Phases, Span(c, s, 1, n, n), Span(c, t, 1, n, n)
  PROVE  Span(c, s \o t, 1, n, n) /\ Range(s \o t) = Range(s) \cup Range(t)
<1>1. Len(s) \in Nat
  BY SequenceFacts DEF Span
<1>2. 1 =< Len(s) + 1 /\ 1 \in {1, 2} /\ n =< n
  BY <1>1, PhaseOrder
<1>3. Span(c, s \o t, 1, n, n)
  BY <1>2, SpanConcat
<1>4. QED BY <1>3, ConcatFacts DEF Span

LEMMA HooksSpan ==
  ASSUME NEW c \in Range(Configurations), NEW stage
  PROVE  /\ Span(c, Hooks(c, stage), 1, FilePhase(stage), FilePhase(stage))
         /\ \A f \in Range(c.files) : f.stage = stage =>
              [op |-> "file", arg |-> f] \in Range(Hooks(c, stage))
<1> DEFINE scripts == ByPriority(c.scripts)
<1>0. FilePhase(stage) \in Phases
  BY PhaseOrder
<1>1. IsSequence(c.files) /\ IsSequence(scripts)
  BY RootfsAssumption, ByPriorityIsSequence
<1> HIDE DEF scripts
<1>2. Span(c, Pass("script", scripts, stage), 1, FilePhase(stage), FilePhase(stage))
  BY <1>0, <1>1, PassSpan
<1>3. /\ Span(c, Pass("file", c.files, stage), 1, FilePhase(stage), FilePhase(stage))
      /\ \A x \in Range(c.files) : x.stage = stage =>
           [op |-> "file", arg |-> x] \in Range(Pass("file", c.files, stage))
  BY <1>0, <1>1, PassSpan
<1>4. Hooks(c, stage) = Pass("file", c.files, stage) \o Pass("script", scripts, stage)
  BY DEF Hooks, scripts
<1>5. \A s, t : Span(c, s, 1, FilePhase(stage), FilePhase(stage)) /\ Span(c, t, 1, FilePhase(stage), FilePhase(stage))
                => /\ Span(c, s \o t, 1, FilePhase(stage), FilePhase(stage))
                   /\ Range(s \o t) = Range(s) \cup Range(t)
  BY <1>0, SpanSame
<1>6. QED BY <1>2, <1>3, <1>4, <1>5

LEMMA UsergroupSpan ==
  ASSUME NEW c \in Range(Configurations)
  PROVE  /\ Span(c, ProcUsergroup(c), 1, Accounts, Accounts)
         /\ \A u \in Range(c.users) : StepOf("user", u) \in Range(ProcUsergroup(c))
<1>1. IsSequence(c.users) /\ IsSequence(c.groups)
  BY RootfsAssumption
<1>2. Span(c, Each("group", c.groups), 1, Accounts, Accounts)
  BY <1>1, PhaseOrder, EachSpan DEF Steps, StepOf, WellFormed, InnerOps, Phase
<1> DEFINE us == c.users
<1>3. IsSequence(us) /\ Range(us) = Range(c.users)
  BY <1>1
<1> HIDE DEF us
<1>4. Steps(c, "user", us, Accounts)
  BY <1>3, SequenceFacts DEF Steps, StepOf, WellFormed, InnerOps, Phase
<1>5. /\ Span(c, Each("user", us), 1, Accounts, Accounts)
      /\ Len(Each("user", us)) = Len(us)
      /\ \A i \in 1 .. Len(us) : Each("user", us)[i] = StepOf("user", us[i])
  <2>1. Accounts \in Phases
    BY PhaseOrder
  <2>2. IsSequence(us) /\ Steps(c, "user", us, Accounts)
    BY <1>3, <1>4
  <2>3. QED BY <2>1, <2>2, EachSpan
<1>6. ASSUME NEW u \in Range(c.users) PROVE StepOf("user", u) \in Range(Each("user", us))
  <2>1. PICK i \in 1 .. Len(us) : u = us[i]
    BY <1>3, SequenceFacts
  <2>2. Each("user", us)[i] = StepOf("user", u)
    BY <1>5, <2>1
  <2>3. IsSequence(Each("user", us))
    BY <1>5 DEF Span
  <2>4. QED BY <1>5, <2>2, <2>3, SequenceFacts
<1>7. \A s, t : Span(c, s, 1, Accounts, Accounts) /\ Span(c, t, 1, Accounts, Accounts) =>
                Span(c, s \o t, 1, Accounts, Accounts) /\ Range(s \o t) = Range(s) \cup Range(t)
  <2>1. Accounts \in Phases
    BY PhaseOrder
  <2>2. SUFFICES ASSUME NEW s, NEW t, Span(c, s, 1, Accounts, Accounts), Span(c, t, 1, Accounts, Accounts)
                 PROVE  Span(c, s \o t, 1, Accounts, Accounts) /\ Range(s \o t) = Range(s) \cup Range(t)
    OBVIOUS
  <2>3. Span(c, s \o t, 1, Accounts, Accounts)
    BY <2>1, <2>2, SpanSame
  <2>4. Range(s \o t) = Range(s) \cup Range(t)
    BY <2>2, ConcatFacts DEF Span
  <2>5. QED BY <2>3, <2>4
<1>8. QED BY <1>2, <1>5, <1>6, <1>7 DEF ProcUsergroup, us

LEMMA FilesystemSpan ==
  ASSUME NEW c \in Range(Configurations)
  PROVE  Span(c, ProcFilesystem(c), 1, BuildTime, BuildTime)
<1>1. IsSequence(c.files) /\ IsSequence(c.remove)
  BY RootfsAssumption
<1>2. Span(c, Pass("file", c.files, "build"), 1, BuildTime, BuildTime)
  BY <1>1, PassSpan DEF FilePhase
<1>3. Span(c, Each("remove", c.remove), 1, BuildTime, BuildTime)
  BY <1>1, PhaseOrder, EachSpan DEF Steps, StepOf, WellFormed, InnerOps, Phase
<1>4. QED BY <1>2, <1>3, PhaseOrder, SpanSame DEF ProcFilesystem

LEMMA SystemdSpan ==
  ASSUME NEW c \in Range(Configurations)
  PROVE  /\ Span(c, ProcSystemd(c), 1, Enables, Later)
         /\ c.enable # {} => \E x \in Range(ProcSystemd(c)) : x.op = "enable"
         /\ c.disable # {} => \E x \in Range(ProcSystemd(c)) : x.op = "disable"
         /\ c.default # "none" => \E x \in Range(ProcSystemd(c)) : x.op = "default"
<1> DEFINE e == If(c.enable # {}, Once("enable"))
           d == If(c.disable # {}, Once("disable"))
           t == If(c.default # "none", Once("default"))
           x(op) == [op |-> op, arg |-> <<>>]
<1>1. Span(c, Once("enable"), 1, Enables, Enables) /\ Range(Once("enable")) = {x("enable")}
  BY PhaseOrder, OnceSpan DEF WellFormed, InnerOps, Phase
<1>2. Span(c, Once("disable"), 1, Disables, Disables) /\ Range(Once("disable")) = {x("disable")}
  BY PhaseOrder, OnceSpan DEF WellFormed, InnerOps, Phase
<1>3. Span(c, Once("default"), 1, Later, Later) /\ Range(Once("default")) = {x("default")}
  BY PhaseOrder, OnceSpan DEF WellFormed, InnerOps, Phase
<1>4. Span(c, e, 1, Enables, Enables) /\ Span(c, d, 1, Disables, Disables) /\ Span(c, t, 1, Later, Later)
  BY <1>1, <1>2, <1>3, PhaseOrder, IfSpan
<1>5. /\ c.enable # {} => x("enable") \in Range(e)
      /\ c.disable # {} => x("disable") \in Range(d)
      /\ c.default # "none" => x("default") \in Range(t)
  BY <1>1, <1>2, <1>3 DEF If
<1>6. ProcSystemd(c) = (e \o d) \o t
  BY DEF ProcSystemd
<1> HIDE DEF e, d, t
<1>7. Len(e) \in Nat /\ IsSequence(e) /\ IsSequence(d) /\ IsSequence(t)
  BY <1>4, SequenceFacts DEF Span
<1>8. Span(c, e \o d, 1, Enables, Disables) /\ Range(e \o d) = Range(e) \cup Range(d) /\ Len(e \o d) \in Nat
  <2>1. 1 =< Len(e) + 1 /\ 1 \in {1, 2} /\ Enables =< Disables
    BY <1>7, PhaseOrder
  <2>2. Span(c, e \o d, 1, Enables, Disables)
    BY <1>4, <2>1, PhaseOrder, SpanConcat
  <2>3. QED BY <2>2, <1>7, ConcatFacts, SequenceFacts DEF Span
<1>9. Span(c, (e \o d) \o t, 1, Enables, Later) /\ Range((e \o d) \o t) = Range(e) \cup Range(d) \cup Range(t)
  <2>1. 1 =< Len(e \o d) + 1 /\ 1 \in {1, 2} /\ Enables =< Later /\ Disables =< Later
    BY <1>8, PhaseOrder
  <2>2. Span(c, (e \o d) \o t, 1, Enables, Later)
    BY <1>4, <1>8, <2>1, PhaseOrder, SpanConcat
  <2>3. QED BY <2>2, <1>7, <1>8, ConcatFacts DEF Span
<1>10. QED BY <1>5, <1>6, <1>9

LEMMA OpenConfigSpan ==
  ASSUME NEW c, NEW names, IsSequence(names), Range(names) \subseteq GenFiles
  PROVE  Span(c, Each("open_config", names), 1, Later, Later)
<1>1. Steps(c, "open_config", names, Later)
  BY SequenceFacts DEF Steps, StepOf, WellFormed, InnerOps, Phase
<1>2. Later \in Phases
  BY PhaseOrder
<1>3. QED BY <1>1, <1>2, EachSpan

LEMMA WriteSpan ==
  ASSUME NEW c, NEW name \in Unpackaged
  PROVE  Span(c, Each("write", <<name>>), 1, Later, Later)
<1> DEFINE names == <<name>>
<1>1. IsSequence(names) /\ Len(names) = 1 /\ names[1] = name
  BY TuplesAreSequences
<1> HIDE DEF names
<1>2. Steps(c, "write", names, Later)
  BY <1>1 DEF Steps, StepOf, WellFormed, InnerOps, Phase
<1>3. Later \in Phases
  BY PhaseOrder
<1>4. Span(c, Each("write", names), 1, Later, Later)
  BY <1>1, <1>2, <1>3, EachSpan
<1>5. QED BY <1>4 DEF names

LEMMA LaterSpans ==
  ASSUME NEW c
  PROVE  /\ Span(c, ProcLocale, 1, Later, Later) /\ Span(c, ProcNames(c), 1, Later, Later)
         /\ \E x \in Range(ProcLocale) : x.op = "timezone"
         /\ \E x \in Range(ProcLocale) : x.op = "reset_locale"
<1> DEFINE Fine(s) == Span(c, s, 1, Later, Later)
           x(op) == [op |-> op, arg |-> <<>>]
<1>1. \A s, t : Fine(s) /\ Fine(t) => Fine(s \o t) /\ Range(s \o t) = Range(s) \cup Range(t)
  <2>1. Later \in Phases
    BY PhaseOrder
  <2>2. QED BY <2>1, SpanSame
<1>2. /\ Fine(Once("reset_locale")) /\ Range(Once("reset_locale")) = {x("reset_locale")}
      /\ Fine(Once("locale-gen"))
      /\ Fine(Once("timezone")) /\ Range(Once("timezone")) = {x("timezone")}
  BY PhaseOrder, OnceSpan DEF WellFormed, InnerOps, Phase
<1>3. \A n \in GenFiles : Fine(Each("open_config", <<n>>))
  <2> SUFFICES ASSUME NEW n \in GenFiles PROVE Fine(Each("open_config", <<n>>))
    OBVIOUS
  <2>1. IsSequence(<<n>>) /\ Range(<<n>>) \subseteq GenFiles
    BY TuplesAreSequences
  <2>2. QED BY <2>1, OpenConfigSpan
<1>4. Fine(Each("open_config", <<"machine-info", "environment">>))
  <2> DEFINE names == <<"machine-info", "environment">>
  <2>1. IsSequence(names) /\ Range(names) \subseteq GenFiles
    BY TuplesAreSequences, SequenceFacts DEF GenFiles, Range
  <2> HIDE DEF names
  <2>2. Fine(Each("open_config", names))
    BY <2>1, OpenConfigSpan
  <2>3. QED BY <2>2 DEF names
<1>5. Fine(Each("write", <<"timezone">>)) /\ Fine(Each("write", <<"environment.conf">>))
  BY WriteSpan DEF Unpackaged
<1>6. {"locale.gen", "locale.conf", "hostname", "hosts"} \subseteq GenFiles
  BY DEF GenFiles
<1>7. Fine(If(c.hostname, Each("open_config", <<"hostname">>)))
  BY <1>3, <1>6, PhaseOrder, IfSpan
<1>8. Fine(ProcNames(c))
  BY <1>1, <1>3, <1>4, <1>5, <1>6, <1>7 DEF ProcNames
<1>9. Fine(ProcLocale) /\ x("timezone") \in Range(ProcLocale) /\ x("reset_locale") \in Range(ProcLocale)
  <2> DEFINE a == Once("reset_locale")
             b == Each("open_config", <<"locale.gen">>)
             d == Once("locale-gen")
             e == Each("open_config", <<"locale.conf">>)
             f == Once("timezone")
             g == Each("write", <<"timezone">>)
  <2>1. Fine(a) /\ Fine(b) /\ Fine(d) /\ Fine(e) /\ Fine(f) /\ Fine(g)
    BY <1>2, <1>3, <1>5, <1>6
  <2>2. x("reset_locale") \in Range(a) /\ x("timezone") \in Range(f)
    BY <1>2
  <2>3. ProcLocale = ((((a \o b) \o d) \o e) \o f) \o g
    BY DEF ProcLocale
  <2> HIDE DEF a, b, d, e, f, g, Fine, x
  <2>4. Fine(a \o b) /\ x("reset_locale") \in Range(a \o b)
    BY <1>1, <2>1, <2>2
  <2>5. Fine((a \o b) \o d) /\ x("reset_locale") \in Range((a \o b) \o d)
    BY <1>1, <2>1, <2>4
  <2>6. Fine(((a \o b) \o d) \o e) /\ x("reset_locale") \in Range(((a \o b) \o d) \o e)
    BY <1>1, <2>1, <2>5
  <2>7. QED BY <1>1, <2>1, <2>2, <2>3, <2>6
<1>10. QED BY <1>8, <1>9

(* The packages first, then steps up to phase hi.                          *)
Begun(c, p, hi) == Span(c, p, 2, PreUser, hi) /\ Len(p) >= 1 /\ p[1].op = "pacman"

LEMMA BegunConcat ==
  ASSUME NEW c, NEW p, NEW t, NEW m \in Phases, NEW n \in Phases, NEW hi \in Phases,
         Begun(c, p, m), Span(c, t, 1, n, hi), m =< n, n =< hi
  PROVE  Begun(c, p \o t, hi) /\ Range(p \o t) = Range(p) \cup Range(t)
<1>1. Len(p) \in Nat /\ Len(t) \in Nat /\ IsSequence(p) /\ IsSequence(t)
  BY SequenceFacts DEF Begun, Span
<1>2. PreUser =< n /\ m =< hi /\ 2 =< Len(p) + 1 /\ 2 \in {1, 2} /\ PreUser \in Phases
  <2>1. PreUser \in Phases /\ \A k \in Phases : PreUser =< k
    BY PhaseOrder DEF Phases
  <2>2. {m, n, hi} \subseteq Nat
    BY PhaseOrder
  <2>3. QED BY <1>1, <2>1, <2>2 DEF Begun
<1>3. Span(c, p, 2, PreUser, m)
  BY DEF Begun
<1>4. Span(c, p \o t, 2, PreUser, hi)
  BY <1>2, <1>3, SpanConcat
<1>5. Len(p \o t) >= 1 /\ (p \o t)[1].op = "pacman"
  <2>1. /\ Len(p \o t) = Len(p) + Len(t)
        /\ \A i \in 1 .. Len(p) + Len(t) : (p \o t)[i] = IF i =< Len(p) THEN p[i] ELSE t[i - Len(p)]
    BY <1>1, ConcatFacts
  <2>2. Len(p) >= 1 /\ p[1].op = "pacman"
    BY DEF Begun
  <2>3. 1 \in 1 .. Len(p) + Len(t) /\ 1 =< Len(p)
    BY <1>1, <2>2
  <2>4. QED BY <1>1, <2>1, <2>2, <2>3
<1>6. QED BY <1>1, <1>4, <1>5, ConcatFacts DEF Begun

(* What the proofs use of a program.                                       *)
ProgramOf(c, p) ==
  /\ IsSequence(p) /\ Len(p) >= 4
  /\ p[1].op = "pacman"
  /\ p[Len(p) - 1].op = "initrds"
  /\ p[Len(p)] = [op |-> "write", arg |-> "machine-id"]
  /\ \A i \in 2 .. Len(p) - 2 : WellFormed(c, p[i])
  /\ \A i, j \in 2 .. Len(p) - 2 : i < j => Free(p[i]) \/ Free(p[j]) \/ Phase(p[i]) =< Phase(p[j])

(* Nothing that is configured is left out.                                 *)
HasAll(c, p) ==
  /\ \A u \in Range(c.users) : StepOf("user", u) \in Range(p)
  /\ \A f \in Range(c.files) : f.stage = "pre-user" => StepOf("file", f) \in Range(p)
  /\ c.enable # {} => \E x \in Range(p) : x.op = "enable"
  /\ c.disable # {} => \E x \in Range(p) : x.op = "disable"
  /\ c.default # "none" => \E x \in Range(p) : x.op = "default"
  /\ \E x \in Range(p) : x.op = "reset_locale"
  /\ \E x \in Range(p) : x.op = "timezone"

(* The steps before mkinitcpio.                                            *)
Prelude(c) ==
  Once("pacman") \o Hooks(c, "pre-user") \o ProcUsergroup(c) \o ProcFilesystem(c)
    \o ProcSystemd(c) \o ProcLocale \o ProcNames(c) \o Hooks(c, "pre-initramfs")

LEMMA PreludeBegun ==
  ASSUME NEW c \in Range(Configurations)
  PROVE  Begun(c, Prelude(c), Later) /\ HasAll(c, Prelude(c))
<1> DEFINE t1 == Hooks(c, "pre-user")
           t2 == ProcUsergroup(c)
           t3 == ProcFilesystem(c)
           t4 == ProcSystemd(c)
           t5 == ProcLocale
           t6 == ProcNames(c)
           t7 == Hooks(c, "pre-initramfs")
           p0 == Once("pacman")
           p1 == p0 \o t1
           p2 == p1 \o t2
           p3 == p2 \o t3
           p4 == p3 \o t4
           p5 == p4 \o t5
           p6 == p5 \o t6
           p7 == p6 \o t7
<1>1. Prelude(c) = p7
  BY DEF Prelude
<1>2. /\ Span(c, t1, 1, PreUser, PreUser) /\ Span(c, t7, 1, Later, Later)
      /\ \A f \in Range(c.files) : f.stage = "pre-user" => StepOf("file", f) \in Range(t1)
  BY HooksSpan DEF FilePhase, StepOf
<1>3. /\ Span(c, t2, 1, Accounts, Accounts) /\ Span(c, t3, 1, BuildTime, BuildTime)
      /\ \A u \in Range(c.users) : StepOf("user", u) \in Range(t2)
  BY UsergroupSpan, FilesystemSpan
<1>4. /\ Span(c, t4, 1, Enables, Later)
      /\ c.enable # {} => \E x \in Range(t4) : x.op = "enable"
      /\ c.disable # {} => \E x \in Range(t4) : x.op = "disable"
      /\ c.default # "none" => \E x \in Range(t4) : x.op = "default"
  BY SystemdSpan
<1>5. /\ Span(c, t5, 1, Later, Later) /\ Span(c, t6, 1, Later, Later)
      /\ \E x \in Range(t5) : x.op = "timezone"
      /\ \E x \in Range(t5) : x.op = "reset_locale"
  BY LaterSpans
<1>6. Begun(c, p0, PreUser)
  BY TuplesAreSequences DEF Begun, Span, Once
<1>7. PreUser =< PreUser /\ Accounts =< Accounts /\ BuildTime =< BuildTime /\ Later =< Later
      /\ PreUser =< Accounts /\ Accounts =< BuildTime /\ BuildTime =< Enables /\ Enables =< Later
  BY PhaseOrder
<1> HIDE DEF t1, t2, t3, t4, t5, t6, t7, p0, p1, p2, p3, p4, p5, p6, p7
<1>8. Begun(c, p1, PreUser) /\ Range(p1) = Range(p0) \cup Range(t1)
  BY <1>2, <1>6, <1>7, PhaseOrder, BegunConcat DEF p1
<1>9. Begun(c, p2, Accounts) /\ Range(p2) = Range(p1) \cup Range(t2)
  BY <1>3, <1>7, <1>8, PhaseOrder, BegunConcat DEF p2
<1>10. Begun(c, p3, BuildTime) /\ Range(p3) = Range(p2) \cup Range(t3)
  BY <1>3, <1>7, <1>9, PhaseOrder, BegunConcat DEF p3
<1>11. Begun(c, p4, Later) /\ Range(p4) = Range(p3) \cup Range(t4)
  BY <1>4, <1>7, <1>10, PhaseOrder, BegunConcat DEF p4
<1>12. Begun(c, p5, Later) /\ Range(p5) = Range(p4) \cup Range(t5)
  BY <1>5, <1>7, <1>11, PhaseOrder, BegunConcat DEF p5
<1>13. Begun(c, p6, Later) /\ Range(p6) = Range(p5) \cup Range(t6)
  BY <1>5, <1>7, <1>12, PhaseOrder, BegunConcat DEF p6
<1>14. Begun(c, p7, Later) /\ Range(p7) = Range(p6) \cup Range(t7)
  BY <1>2, <1>7, <1>13, PhaseOrder, BegunConcat DEF p7
<1>15. HasAll(c, p7)
  BY <1>2, <1>3, <1>4, <1>5, <1>8, <1>9, <1>10, <1>11, <1>12, <1>13, <1>14 DEF HasAll
<1>16. QED BY <1>1, <1>14, <1>15

LEMMA ProgramFacts ==
  ASSUME NEW c \in Range(Configurations)
  PROVE  ProgramOf(c, Program(c)) /\ HasAll(c, Program(c))
<1> DEFINE q == Prelude(c)
           g == Each("open_config", <<"mkinitcpio.conf">>)
           o == Once("initrds")
           w == Each("write", <<"machine-id">>)
           r == q \o (g \o o)
           p == r \o w
<1>1. p = Program(c)
  BY DEF Program, Prelude, ProcMkinitcpio, GenMkinitcpio, ProcMachineId
<1>2. Begun(c, q, Later) /\ HasAll(c, q)
  BY PreludeBegun
<1>3. IsSequence(q) /\ Len(q) \in Nat /\ Len(q) >= 1
  BY <1>2, SequenceFacts DEF Begun, Span
<1>4. /\ IsSequence(g) /\ Len(g) = 1 /\ g[1] = [op |-> "open_config", arg |-> "mkinitcpio.conf"]
      /\ IsSequence(w) /\ Len(w) = 1 /\ w[1] = [op |-> "write", arg |-> "machine-id"]
      /\ IsSequence(o) /\ Len(o) = 1 /\ o[1].op = "initrds"
  <2>1. Range(<<"mkinitcpio.conf">>) \subseteq GenFiles /\ "machine-id" \in Unpackaged
    BY TuplesAreSequences DEF GenFiles, Unpackaged
  <2>2. IsSequence(g) /\ IsSequence(w)
    BY <2>1, TuplesAreSequences, OpenConfigSpan, WriteSpan DEF Span
  <2>3. DOMAIN <<"mkinitcpio.conf">> = 1 .. 1 /\ DOMAIN <<"machine-id">> = 1 .. 1
    BY TuplesAreSequences, SequenceFacts
  <2>4. g = [i \in 1 .. 1 |-> [op |-> "open_config", arg |-> "mkinitcpio.conf"]]
    BY <2>3 DEF Each
  <2>5. w = [i \in 1 .. 1 |-> [op |-> "write", arg |-> "machine-id"]]
    BY <2>3 DEF Each
  <2>6. o = <<[op |-> "initrds", arg |-> <<>>]>>
    BY DEF Once
  <2> HIDE DEF g, w, o
  <2>7. g = [i \in 1 .. 1 |-> g[i]] /\ w = [i \in 1 .. 1 |-> w[i]]
    BY <2>4, <2>5
  <2>8. Len(g) = 1 /\ Len(w) = 1
    BY <2>7, FunctionIsSequence
  <2>9. QED BY <2>2, <2>4, <2>5, <2>6, <2>8, TuplesAreSequences
<1> HIDE DEF q, g, o, w, r, p
<1>5. /\ IsSequence(g \o o) /\ Len(g \o o) = 2
      /\ (g \o o)[1] = g[1] /\ (g \o o)[2] = o[1]
  <2>1. /\ IsSequence(g \o o) /\ Len(g \o o) = Len(g) + Len(o)
        /\ \A i \in 1 .. Len(g) + Len(o) : (g \o o)[i] = IF i =< Len(g) THEN g[i] ELSE o[i - Len(g)]
    BY <1>4, ConcatFacts
  <2>2. QED BY <1>4, <2>1
<1>6. /\ IsSequence(r) /\ Len(r) = Len(q) + 2 /\ Range(q) \subseteq Range(r)
      /\ \A i \in 1 .. Len(q) + 2 : r[i] = IF i =< Len(q) THEN q[i] ELSE (g \o o)[i - Len(q)]
  BY <1>3, <1>5, ConcatFacts DEF r
<1>7. /\ IsSequence(p) /\ Len(p) = Len(q) + 3 /\ Range(q) \subseteq Range(p)
      /\ \A i \in 1 .. Len(q) + 3 : p[i] = IF i =< Len(q) + 2 THEN r[i] ELSE w[i - (Len(q) + 2)]
  <2>1. /\ IsSequence(p) /\ Len(p) = Len(r) + Len(w) /\ Range(p) = Range(r) \cup Range(w)
        /\ \A i \in 1 .. Len(r) + Len(w) : p[i] = IF i =< Len(r) THEN r[i] ELSE w[i - Len(r)]
    BY <1>4, <1>6, ConcatFacts DEF p
  <2>2. Len(r) + Len(w) = Len(q) + 3
    BY <1>3, <1>4, <1>6
  <2>3. QED BY <1>6, <2>1, <2>2
<1>8. /\ \A i \in 1 .. Len(q) : p[i] = q[i]
      /\ p[Len(q) + 1] = g[1] /\ p[Len(q) + 2] = o[1] /\ p[Len(q) + 3] = w[1]
  BY <1>3, <1>5, <1>6, <1>7
<1>9. ASSUME NEW i \in 2 .. Len(p) - 2
      PROVE  \/ i \in 2 .. Len(q) /\ p[i] = q[i]
             \/ i = Len(q) + 1 /\ p[i] = g[1]
  BY <1>3, <1>7, <1>8
<1>10. WellFormed(c, g[1]) /\ Phase(g[1]) = Later
  BY <1>4 DEF WellFormed, InnerOps, Phase, GenFiles
<1>11. /\ \A i \in 2 .. Len(q) : WellFormed(c, q[i]) /\ (Free(q[i]) \/ Phase(q[i]) \in PreUser .. Later)
       /\ \A i, j \in 2 .. Len(q) : i < j => Free(q[i]) \/ Free(q[j]) \/ Phase(q[i]) =< Phase(q[j])
  BY <1>2 DEF Begun, Span
<1>12. \A i \in 2 .. Len(p) - 2 : WellFormed(c, p[i])
  BY <1>9, <1>10, <1>11
<1>13. ASSUME NEW i \in 2 .. Len(p) - 2, NEW j \in 2 .. Len(p) - 2, i < j
       PROVE  Free(p[i]) \/ Free(p[j]) \/ Phase(p[i]) =< Phase(p[j])
  <2>1. i \in 2 .. Len(q) /\ p[i] = q[i]
    BY <1>3, <1>7, <1>9, <1>13
  <2>2. CASE j \in 2 .. Len(q) /\ p[j] = q[j]
    BY <1>11, <1>13, <2>1, <2>2
  <2>3. CASE p[j] = g[1]
    <3>1. Free(p[i]) \/ Phase(p[i]) \in PreUser .. Later
      BY <1>11, <2>1
    <3>2. PreUser \in Nat /\ Later \in Nat
      BY PhaseOrder
    <3>3. QED BY <1>10, <2>3, <3>1, <3>2
  <2>4. QED BY <1>9, <2>2, <2>3
<1>14. p[1].op = "pacman"
  BY <1>2, <1>3, <1>8 DEF Begun
<1>15. ProgramOf(c, p)
  BY <1>3, <1>4, <1>7, <1>8, <1>12, <1>13, <1>14 DEF ProgramOf
<1>16. HasAll(c, p)
  BY <1>2, <1>7 DEF HasAll, q
<1>17. QED BY <1>1, <1>15, <1>16

-----------------------------------------------------------------------------
(* Types.                                                                  *)

AllUsers == UNION {Range(c.users) : c \in Range(Configurations)}
UserNames == {"root"} \cup {u.name : u \in AllUsers}
Uids == {0} \cup {u.uid : u \in AllUsers}
Contents == [by : {"none", "package", "file", "part", "generated"}, cfg : {0} \cup DOMAIN Configurations]
UserRecords == [name : UserNames, uid : Uids, home : Contents]
Real == {"old", "new"}
Hooked == Real \cup {"none", "fake"}
ImageStates == [run : Nat, with : Hooked \cup {"skip"}]

UserSubs == {"created", "modified"}
PresetSubs == {"hook", "fake", "make", "restore", "rename"}

(* Which part of which step a run can be in.                               *)
SubOK ==
  /\ sub \in {"start", "open", "opened", "next"} \cup UserSubs \cup PresetSubs
  /\ sub = "open" => At("open_config")
  /\ sub = "opened" => At("open_config") \/ At("write")
  /\ sub \in UserSubs => At("user")
  /\ sub \in PresetSubs \cup {"next"} => At("initrds")
  /\ sub \in PresetSubs => preset \in DOMAIN Presets /\ preset \notin left
  /\ left \subseteq DOMAIN Presets

TypeOK ==
  /\ cfg \in DOMAIN Configurations /\ runs \in Nat \ {0} /\ pc \in 0 .. Len(P) + 1
  /\ etc \in [Files -> Contents] /\ dist \in [Files -> Contents] /\ owner \in [Files -> Uids]
  /\ users \in Seq(UserRecords) /\ passwd \in Seq(UserRecords)
  /\ hook \in Hooked /\ bak \in Hooked
  /\ images \in [Images -> ImageStates]
  /\ SubOK

(* The program of this run.                                                *)
LEMMA ProgramNow ==
  ASSUME cfg \in DOMAIN Configurations
  PROVE  /\ C \in Range(Configurations) /\ ProgramOf(C, P) /\ HasAll(C, P)
         /\ Len(P) \in Nat /\ Len(P) >= 4 /\ DOMAIN P = 1 .. Len(P)
<1>1. C \in Range(Configurations)
  BY DEF C, Range
<1>2. P = Program(C)
  BY DEF P, Programs, C
<1>3. ProgramOf(C, P) /\ HasAll(C, P)
  BY <1>1, <1>2, ProgramFacts
<1>4. QED BY <1>1, <1>3, SequenceFacts DEF ProgramOf

LEMMA ProgramLength ==
  \A i \in DOMAIN Configurations : Len(Programs[i]) \in Nat /\ Len(Programs[i]) >= 4
<1> SUFFICES ASSUME NEW i \in DOMAIN Configurations
             PROVE  Len(Programs[i]) \in Nat /\ Len(Programs[i]) >= 4
  OBVIOUS
<1>1. Configurations[i] \in Range(Configurations) /\ Programs[i] = Program(Configurations[i])
  BY DEF Range, Programs
<1>2. QED BY <1>1, ProgramFacts, SequenceFacts DEF ProgramOf

(* Where the steps of a kind are, and what they are given.                 *)
LEMMA StepFacts ==
  ASSUME cfg \in DOMAIN Configurations, Running
  PROVE  /\ pc \in 1 .. Len(P)
         /\ At("pacman") <=> pc = 1
         /\ At("initrds") <=> pc = Len(P) - 1
         /\ pc = Len(P) => At("write")
         /\ At("write") => Arg \in Unpackaged
         /\ At("open_config") => Arg \in GenFiles
         /\ At("file") => Arg \in Range(C.files)
         /\ At("user") => Arg \in Range(C.users)
<1>1. pc \in 1 .. Len(P) /\ Len(P) \in Nat /\ Len(P) >= 4
  BY ProgramNow DEF Running
<1>2. ProgramOf(C, P)
  BY ProgramNow
<1>3. CASE pc = 1
  BY <1>1, <1>2, <1>3 DEF ProgramOf, At, Arg, Running
<1>4. CASE pc = Len(P) - 1
  BY <1>1, <1>2, <1>4 DEF ProgramOf, At, Arg, Running
<1>5. CASE pc = Len(P)
  BY <1>1, <1>2, <1>5 DEF ProgramOf, At, Arg, Running, Unpackaged
<1>6. CASE pc \in 2 .. Len(P) - 2
  <2>1. WellFormed(C, P[pc])
    BY <1>2, <1>6 DEF ProgramOf
  <2>2. P[pc].op \in InnerOps /\ pc # 1 /\ pc # Len(P) - 1 /\ pc # Len(P)
    BY <1>1, <1>6, <2>1 DEF WellFormed
  <2>3. "pacman" \notin InnerOps /\ "initrds" \notin InnerOps
    BY DEF InnerOps
  <2>4. QED BY <1>1, <2>1, <2>2, <2>3 DEF WellFormed, At, Arg
<1>7. QED BY <1>1, <1>3, <1>4, <1>5, <1>6

LEMMA ArgTypes ==
  ASSUME TypeOK, Running
  PROVE  /\ At("write") \/ At("open_config") => Arg \in Files
         /\ At("file") => Arg.path \in Files
         /\ At("user") => Arg.name \in UserNames /\ Arg.uid \in Uids
<1>1. C \in Range(Configurations)
  BY ProgramNow DEF TypeOK
<1>2. At("write") \/ At("open_config") => Arg \in Files
  BY StepFacts DEF TypeOK, Files, GenFiles, Unpackaged
<1>3. At("file") => Arg.path \in Files
  BY <1>1, StepFacts DEF TypeOK, Files
<1>4. At("user") => Arg \in AllUsers
  BY <1>1, StepFacts DEF TypeOK, AllUsers
<1>5. QED BY <1>2, <1>3, <1>4 DEF UserNames, Uids

(* How a step moves in the program.                                        *)
Moved ==
  /\ Running /\ cfg' = cfg /\ runs' = runs /\ P' = P /\ C' = C
  /\ \/ pc' = pc
     \/ pc' \in {pc + 1, 0} /\ sub' = "start" /\ left' = {} /\ preset' = "none"

LEMMA StepMoves ==
  ASSUME SubOK, Step
  PROVE  Moved
<1>1. cfg' = cfg => P' = P /\ C' = C
  BY DEF P, C
<1> USE <1>1 DEF Moved, run, Advance, Fail, Goto, Failed, Part, At, KeepRest, Recreating
<1>2. CASE PacmanInstalls \/ PacmanHasNothing
  BY <1>2 DEF PacmanInstalls, PacmanHasNothing
<1>3. CASE ProcGroup \/ UserCommand
  BY <1>3 DEF ProcGroup, UserCommand
<1>4. CASE UserRest \/ AddFile \/ PassOver \/ RunScript
  BY <1>4 DEF UserRest, AddFile, PassOver, RunScript
<1>5. CASE RemoveFile \/ Systemctl \/ LocaleArchive \/ SetTimezone
  BY <1>5 DEF RemoveFile, Systemctl, LocaleArchive, SetTimezone
<1>6. CASE OpenConfig \/ TruncateFile \/ WriteFile
  BY <1>6 DEF OpenConfig, TruncateFile, WriteFile, SubOK
<1>7. CASE StartInitrds \/ NextPreset
  BY <1>7 DEF StartInitrds, NextPreset
<1>8. CASE MoveHook \/ WriteFakeHook \/ RunMkinitcpio
  BY <1>8 DEF MoveHook, WriteFakeHook, RunMkinitcpio
<1>9. CASE RemoveFakeHook \/ RestoreHook
  BY <1>9 DEF RemoveFakeHook, RestoreHook
<1>10. QED BY <1>2, <1>3, <1>4, <1>5, <1>6, <1>7, <1>8, <1>9 DEF Step

LEMMA LeastIndex ==
  ASSUME NEW I \in SUBSET Nat, I # {}
  PROVE  \E x \in I : \A y \in I : x =< y
<1>1. \E x \in I : \A y \in I : ~(<<y, x>> \in OpToRel(<, Nat))
  BY WFMin, NatLessThanWellFounded
<1>2. \A x, y \in Nat : x =< y \/ <<y, x>> \in OpToRel(<, Nat)
  BY DEF OpToRel
<1>3. QED BY <1>1, <1>2

(* lookup_name takes the first entry of that name.                         *)
LEMMA LookupFacts ==
  ASSUME NEW S, NEW list \in Seq(S), NEW name, Named(list, name) # {}
  PROVE  \E i \in Named(list, name) : /\ Lookup(list, name) = list[i] /\ list[i] \in S
                                      /\ \A j \in Named(list, name) : i =< j
<1>1. DOMAIN list = 1 .. Len(list) /\ Len(list) \in Nat /\ \A i \in DOMAIN list : list[i] \in S
  BY LenProperties
<1>2. Named(list, name) \subseteq Nat /\ Named(list, name) \subseteq DOMAIN list
  BY <1>1 DEF Named
<1> DEFINE i == CHOOSE i \in Named(list, name) : \A j \in Named(list, name) : i =< j
<1>3. \E x \in Named(list, name) : \A j \in Named(list, name) : x =< j
  BY <1>2, LeastIndex
<1>4. i \in Named(list, name) /\ \A j \in Named(list, name) : i =< j
  BY <1>3
<1>5. Lookup(list, name) = list[i]
  BY DEF Lookup
<1> HIDE DEF i
<1>6. QED BY <1>1, <1>2, <1>4, <1>5

LEMMA ContentTypes ==
  ASSUME TypeOK
  PROVE  /\ Nothing \in Contents /\ Original \in Contents /\ SkelNow \in Contents
         /\ \A by \in {"file", "part", "generated"} : Content(by, cfg) \in Contents
         /\ \A name : OwnerId(name) \in Uids
         /\ Original # Nothing /\ "root" \in UserNames /\ 0 \in Uids
<1>1. Nothing \in Contents /\ Original \in Contents /\ Original # Nothing
  BY DEF Nothing, Original, Content, Contents
<1>2. SkelNow \in Contents
  BY <1>1 DEF SkelNow, TypeOK
<1>3. \A by \in {"file", "part", "generated"} : Content(by, cfg) \in Contents
  BY DEF Content, Contents, TypeOK
<1>4. ASSUME NEW name PROVE OwnerId(name) \in Uids
  <2>1. CASE Named(passwd, name) = {}
    BY <2>1 DEF OwnerId, Uids
  <2>2. CASE Named(passwd, name) # {}
    <3>1. PICK i \in Named(passwd, name) : Lookup(passwd, name) = passwd[i] /\ passwd[i] \in UserRecords
      BY <2>2, LookupFacts DEF TypeOK
    <3>2. QED BY <2>2, <3>1 DEF OwnerId, UserRecords
  <2>3. QED BY <2>1, <2>2
<1>5. QED BY <1>1, <1>2, <1>3, <1>4 DEF UserNames, Uids

(* Changing entries of a list of users keeps its type and its length.      *)
LEMMA MapUsers ==
  ASSUME NEW S, NEW list \in Seq(S), NEW new, DOMAIN new = DOMAIN list,
         new = [i \in DOMAIN list |-> new[i]], \A i \in DOMAIN list : new[i] \in S
  PROVE  new \in Seq(S) /\ Len(new) = Len(list)
<1>1. DOMAIN list = 1 .. Len(list) /\ Len(list) \in Nat
  BY LenProperties
<1>2. new \in [1 .. Len(list) -> S]
  BY <1>1
<1>3. new \in Seq(S)
  BY <1>1, <1>2, SeqDef
<1>4. Len(new) = Len(list)
  BY <1>1, FunctionIsSequence
<1>5. QED BY <1>3, <1>4

LEMMA UsersTyped ==
  ASSUME TypeOK, Step
  PROVE  users' \in Seq(UserRecords) /\ passwd' \in Seq(UserRecords)
<1> USE DEF ReloadPasswd
<1>1. users \in Seq(UserRecords) /\ passwd \in Seq(UserRecords)
  BY DEF TypeOK
<1>2. \A i \in DOMAIN users : users[i] \in UserRecords
  BY <1>1, LenProperties
<1>3. CASE PacmanInstalls
  <2>1. [name |-> "root", uid |-> 0, home |-> Nothing] \in UserRecords
    BY ContentTypes DEF UserRecords
  <2>2. QED BY <1>1, <1>3, <2>1 DEF PacmanInstalls
<1>4. CASE UserCommand
  <2>1. Arg.name \in UserNames /\ Arg.uid \in Uids
    BY <1>4, ArgTypes DEF UserCommand, At
  <2>2. \A h \in Contents : [name |-> Arg.name, uid |-> Arg.uid, home |-> h] \in UserRecords
    BY <2>1 DEF UserRecords
  <2>3. CASE Named(passwd, Arg.name) = {}
    <3>1. \E h \in Contents : users' = Append(users, [name |-> Arg.name, uid |-> Arg.uid, home |-> h])
      BY <1>4, <2>3, ContentTypes DEF UserCommand
    <3>2. QED BY <1>1, <1>4, <2>2, <3>1, AppendProperties DEF UserCommand
  <2>4. CASE Named(passwd, Arg.name) # {}
    <3>1. users' = [i \in DOMAIN users |->
                      IF users[i].name = Arg.name THEN [users[i] EXCEPT !.uid = Arg.uid] ELSE users[i]]
      BY <1>4, <2>4 DEF UserCommand
    <3>2. \A u \in UserRecords : [u EXCEPT !.uid = Arg.uid] \in UserRecords
      BY <2>1 DEF UserRecords
    <3>3. \A i \in DOMAIN users : users'[i] \in UserRecords
      BY <1>2, <3>1, <3>2
    <3>4. users' \in Seq(UserRecords)
      BY <1>1, <3>1, <3>3, MapUsers
    <3>5. QED BY <1>1, <1>4, <3>4 DEF UserCommand
  <2>5. QED BY <2>3, <2>4
<1>5. CASE UserRest
  <2>1. users' = [i \in DOMAIN users |->
                    IF users[i].name = Arg.name /\ sub = "modified" THEN CopySkel(users[i]) ELSE users[i]]
    BY <1>5 DEF UserRest
  <2>2. \A u \in UserRecords : CopySkel(u) \in UserRecords
    BY ContentTypes DEF UserRecords, CopySkel
  <2>3. \A i \in DOMAIN users : users'[i] \in UserRecords
    BY <1>2, <2>1, <2>2
  <2>4. users' \in Seq(UserRecords)
    BY <1>1, <2>1, <2>3, MapUsers
  <2>5. QED BY <1>1, <1>5, <2>4 DEF UserRest
<1>6. CASE PacmanHasNothing \/ ProcGroup
  BY <1>1, <1>6 DEF PacmanHasNothing, ProcGroup
<1>7. CASE AddFile \/ PassOver \/ RunScript \/ RemoveFile \/ Systemctl \/ LocaleArchive \/ SetTimezone
  BY <1>1, <1>7 DEF AddFile, PassOver, RunScript, RemoveFile, Systemctl, LocaleArchive, SetTimezone, accounts
<1>8. CASE OpenConfig \/ TruncateFile \/ WriteFile
  BY <1>1, <1>8 DEF OpenConfig, TruncateFile, WriteFile, accounts
<1>9. CASE UNCHANGED accounts
  BY <1>1, <1>9 DEF accounts
<1>10. StartInitrds \/ NextPreset \/ MoveHook \/ WriteFakeHook \/ RunMkinitcpio \/ RemoveFakeHook \/ RestoreHook
          => UNCHANGED accounts
  BY DEF StartInitrds, NextPreset, MoveHook, WriteFakeHook, RunMkinitcpio, RemoveFakeHook, RestoreHook, KeepRest
<1>11. QED BY <1>3, <1>4, <1>5, <1>6, <1>7, <1>8, <1>9, <1>10 DEF Step

LEMMA TreeTyped ==
  ASSUME TypeOK, Step
  PROVE  etc' \in [Files -> Contents] /\ dist' \in [Files -> Contents] /\ owner' \in [Files -> Uids]
<1>1. etc \in [Files -> Contents] /\ dist \in [Files -> Contents] /\ owner \in [Files -> Uids]
  BY DEF TypeOK
<1>2. CASE PacmanInstalls
  BY <1>1, <1>2, ContentTypes DEF PacmanInstalls
<1>3. CASE AddFile
  <2>1. Content("file", cfg) \in Contents /\ OwnerId(Arg.owner) \in Uids
    BY ContentTypes
  <2>2. QED BY <1>1, <1>3, <2>1 DEF AddFile
<1>4. CASE OpenConfig
  BY <1>1, <1>4, ArgTypes, ContentTypes DEF OpenConfig, At
<1>5. CASE TruncateFile \/ WriteFile
  <2>1. Content("part", cfg) \in Contents /\ Content("generated", cfg) \in Contents
    BY ContentTypes
  <2>2. QED BY <1>1, <1>5, <2>1 DEF TruncateFile, WriteFile
<1>6. CASE UNCHANGED tree
  BY <1>1, <1>6 DEF tree
<1>7. PacmanHasNothing \/ ProcGroup \/ UserCommand \/ UserRest \/ PassOver \/ RunScript \/ RemoveFile
        \/ Systemctl \/ LocaleArchive \/ SetTimezone \/ StartInitrds \/ NextPreset \/ MoveHook
        \/ WriteFakeHook \/ RunMkinitcpio \/ RemoveFakeHook \/ RestoreHook => UNCHANGED tree
  BY DEF PacmanHasNothing, ProcGroup, UserCommand, UserRest, PassOver, RunScript, RemoveFile, Systemctl,
         LocaleArchive, SetTimezone, StartInitrds, NextPreset, MoveHook, WriteFakeHook, RunMkinitcpio,
         RemoveFakeHook, RestoreHook, KeepRest
<1>8. QED BY <1>2, <1>3, <1>4, <1>5, <1>6, <1>7 DEF Step

(* The steps that leave mkinitcpio's files alone.                          *)
LEMMA InitramfsKept ==
  Step => \/ PacmanInstalls \/ NextPreset \/ MoveHook \/ WriteFakeHook \/ RunMkinitcpio
          \/ RemoveFakeHook \/ RestoreHook
          \/ UNCHANGED initramfs
  BY DEF Step, PacmanHasNothing, ProcGroup, UserCommand, UserRest, AddFile, PassOver, RunScript, RemoveFile,
         Systemctl, LocaleArchive, SetTimezone, OpenConfig, TruncateFile, WriteFile, StartInitrds

LEMMA InitramfsTyped ==
  ASSUME TypeOK, Step
  PROVE  hook' \in Hooked /\ bak' \in Hooked /\ images' \in [Images -> ImageStates]
<1>1. hook \in Hooked /\ bak \in Hooked /\ images \in [Images -> ImageStates] /\ runs \in Nat
  BY DEF TypeOK
<1>2. NoImage \in ImageStates /\ \A h \in Hooked \cup {"skip"} : [run |-> runs, with |-> h] \in ImageStates
  BY <1>1 DEF NoImage, ImageStates, Hooked
<1>3. CASE PacmanInstalls
  BY <1>1, <1>2, <1>3 DEF PacmanInstalls, Hooked, Real
<1>4. CASE NextPreset
  BY <1>1, <1>2, <1>4 DEF NextPreset
<1>5. CASE MoveHook \/ WriteFakeHook
  BY <1>1, <1>5 DEF MoveHook, KeepHook, WriteFakeHook, Hooked
<1>6. CASE RunMkinitcpio
  BY <1>1, <1>2, <1>6 DEF RunMkinitcpio
<1>7. CASE RemoveFakeHook \/ RestoreHook
  BY <1>1, <1>7 DEF RemoveFakeHook, RestoreHook, Hooked
<1>8. QED BY <1>1, <1>3, <1>4, <1>5, <1>6, <1>7, InitramfsKept DEF initramfs

LEMMA SubTyped ==
  ASSUME TypeOK, Step
  PROVE  SubOK' /\ pc' \in 0 .. Len(P') + 1
<1>1. Moved /\ SubOK /\ Len(P) \in Nat /\ pc \in 1 .. Len(P)
  BY StepMoves, ProgramNow, StepFacts DEF TypeOK, Moved
<1>2. pc' \in 0 .. Len(P') + 1
  BY <1>1 DEF Moved
<1> SUFFICES SubOK'
  BY <1>2
<1>3. CASE sub' = "start" /\ left' = {}
  BY <1>3 DEF SubOK, UserSubs, PresetSubs
<1>4. CASE pc' = pc /\ ~(sub' = "start" /\ left' = {})
  <2>1. /\ At("open_config")' <=> At("open_config")
        /\ At("write")' <=> At("write")
        /\ At("user")' <=> At("user")
        /\ At("initrds")' <=> At("initrds")
    BY <1>1, <1>4 DEF At, Running, Moved
  <2>2. pc # pc + 1 /\ pc # 0 /\ SubOK
    BY <1>1
  <2> USE <2>1, <2>2, <1>4 DEF SubOK, UserSubs, PresetSubs, Advance, Fail, Goto, Failed, Part, Recreating
  <2>3. CASE UserCommand
    BY <2>3 DEF UserCommand
  <2>4. CASE OpenConfig \/ TruncateFile
    BY <2>4 DEF OpenConfig, TruncateFile
  <2>5. CASE StartInitrds
    BY <2>5 DEF StartInitrds
  <2>6. CASE NextPreset
    BY <2>6 DEF NextPreset
  <2>7. CASE MoveHook \/ WriteFakeHook
    BY <2>7 DEF MoveHook, WriteFakeHook
  <2>8. CASE RunMkinitcpio
    BY <2>8 DEF RunMkinitcpio
  <2>9. CASE RemoveFakeHook \/ RestoreHook
    BY <2>9 DEF RemoveFakeHook, RestoreHook
  <2>10. ~(PacmanInstalls \/ PacmanHasNothing \/ ProcGroup \/ UserRest \/ AddFile \/ PassOver \/ RunScript
           \/ RemoveFile \/ Systemctl \/ LocaleArchive \/ SetTimezone \/ WriteFile)
    BY DEF PacmanInstalls, PacmanHasNothing, ProcGroup, UserRest, AddFile, PassOver, RunScript,
           RemoveFile, Systemctl, LocaleArchive, SetTimezone, WriteFile
  <2>11. QED BY <2>3, <2>4, <2>5, <2>6, <2>7, <2>8, <2>9, <2>10 DEF Step
<1>5. QED BY <1>1, <1>3, <1>4 DEF Moved

(* What does not belong to a step of the program.                          *)
Between ==
  /\ UNCHANGED <<tree, users, groups, system, initramfs>>
  /\ sub' = "start" /\ left' = {} /\ preset' = "none"
  /\ \/ Running /\ pc' = 0 /\ UNCHANGED <<run, passwd>>
     \/ Ended /\ pc' = 1 /\ runs' = runs + 1 /\ cfg' \in DOMAIN Configurations /\ passwd' = <<>>

LEMMA NextCases == [Next]_vars => Step \/ Between \/ UNCHANGED vars
  BY DEF Next, Stop, RunAgain, NoMoreRuns, Between, Fail, Goto, Failed, accounts

LEMMA TypeStep ==
  ASSUME TypeOK, [Next]_vars
  PROVE  TypeOK'
<1>1. CASE Step
  <2>1. Moved
    BY <1>1, StepMoves DEF TypeOK
  <2>2. QED BY <1>1, <2>1, UsersTyped, TreeTyped, InitramfsTyped, SubTyped DEF TypeOK, Moved
<1>2. CASE Between
  <2>1. SubOK'
    BY <1>2 DEF Between, SubOK, UserSubs, PresetSubs
  <2>2. cfg' \in DOMAIN Configurations /\ runs' \in Nat \ {0}
    BY <1>2 DEF Between, TypeOK, run
  <2>3. Len(P') \in Nat
    BY <2>2, ProgramLength DEF P
  <2>4. pc' \in 0 .. Len(P') + 1
    BY <1>2, <2>3 DEF Between
  <2>5. <<>> \in Seq(UserRecords)
    BY EmptySeq
  <2>6. QED BY <1>2, <2>1, <2>2, <2>4, <2>5 DEF Between, TypeOK, tree, initramfs, run
<1>3. CASE UNCHANGED vars
  BY <1>3 DEF vars, tree, accounts, system, initramfs, run, TypeOK, SubOK, At, Running, P
<1>4. QED BY <1>1, <1>2, <1>3, NextCases

LEMMA TypeInit == Init => TypeOK
<1> SUFFICES ASSUME Init PROVE TypeOK
  OBVIOUS
<1>1. Len(P) \in Nat /\ cfg \in DOMAIN Configurations
  BY ProgramNow DEF Init
<1>2. pc \in 0 .. Len(P) + 1 /\ runs \in Nat \ {0}
  BY <1>1 DEF Init
<1>3. Nothing \in Contents /\ NoImage \in ImageStates
  BY DEF Nothing, Content, Contents, NoImage, ImageStates, Hooked
<1>4. etc \in [Files -> Contents] /\ dist \in [Files -> Contents] /\ owner \in [Files -> Uids]
  BY <1>3 DEF Init, Uids
<1>5. images \in [Images -> ImageStates] /\ hook \in Hooked /\ bak \in Hooked
  BY <1>3 DEF Init, Hooked
<1>6. SubOK
  BY DEF Init, SubOK, UserSubs, PresetSubs
<1>7. users \in Seq(UserRecords) /\ passwd \in Seq(UserRecords)
  BY EmptySeq DEF Init
<1>8. QED BY <1>1, <1>2, <1>4, <1>5, <1>6, <1>7 DEF TypeOK

(* Every part of the root file system has its type, and every part of a    *)
(* step is reached only within that step.                                  *)
THEOREM Typing == Spec => []TypeOK
<1>1. Init => TypeOK
  BY TypeInit
<1>2. TypeOK /\ [Next]_vars => TypeOK'
  BY TypeStep
<1>3. QED BY <1>1, <1>2, PTL DEF Spec

-----------------------------------------------------------------------------
(* The packages come first: before them nothing is in the root file system.*)

Installed ==
  users = <<>> => pc \in {0, 1} /\ \A p \in Files : etc[p] = Nothing /\ dist[p] = Nothing

(* The steps that leave the users alone.                                   *)
LEMMA UsersCases ==
  Step => \/ PacmanInstalls \/ UserCommand \/ UserRest
          \/ users' = users
  BY DEF Step, PacmanHasNothing, ProcGroup, AddFile, PassOver, RunScript, RemoveFile, Systemctl, LocaleArchive,
         SetTimezone, OpenConfig, TruncateFile, WriteFile, StartInitrds, NextPreset, MoveHook, WriteFakeHook,
         RunMkinitcpio, RemoveFakeHook, RestoreHook, KeepRest, accounts

LEMMA AppendNotEmpty ==
  ASSUME NEW S, NEW s \in Seq(S), NEW x
  PROVE  Append(s, x) # <<>>
<1> DEFINE T == S \cup {x}
<1>1. s \in Seq(T) /\ x \in T
  BY SeqMonotonic
<1> HIDE DEF T
<1>2. Len(Append(s, x)) = Len(s) + 1 /\ Len(s) \in Nat
  BY <1>1, AppendProperties, LenProperties
<1>3. QED BY <1>2, EmptySeq

LEMMA UsersKept ==
  ASSUME TypeOK, Step, users # <<>>
  PROVE  users' # <<>>
<1>1. users \in Seq(UserRecords)
  BY DEF TypeOK
<1>2. Len(users) \in Nat /\ Len(users) # 0 /\ DOMAIN users = 1 .. Len(users)
  BY <1>1, EmptySeq, LenProperties
<1>3. 1 \in DOMAIN users
  BY <1>2
<1>4. CASE PacmanInstalls
  BY <1>4 DEF PacmanInstalls
<1>5. CASE UserCommand
  <2>1. CASE Named(passwd, Arg.name) = {}
    <3>1. \A u : Append(users, u) # <<>>
      BY <1>1, AppendNotEmpty
    <3>2. QED BY <1>5, <2>1, <3>1 DEF UserCommand
  <2>2. CASE Named(passwd, Arg.name) # {}
    <3>1. DOMAIN users' = DOMAIN users
      BY <1>5, <2>2 DEF UserCommand
    <3>2. QED BY <1>3, <3>1
  <2>3. QED BY <2>1, <2>2
<1>6. CASE UserRest
  <2>1. DOMAIN users' = DOMAIN users
    BY <1>6 DEF UserRest
  <2>2. QED BY <1>3, <2>1
<1>7. QED BY <1>4, <1>5, <1>6, UsersCases

(* The steps that leave the files alone.                                   *)
LEMMA TreeCases ==
  Step => \/ PacmanInstalls \/ AddFile \/ OpenConfig \/ TruncateFile \/ WriteFile
          \/ UNCHANGED <<etc, dist, owner>>
  BY DEF Step, PacmanHasNothing, ProcGroup, UserCommand, UserRest, PassOver, RunScript, RemoveFile, Systemctl,
         LocaleArchive, SetTimezone, StartInitrds, NextPreset, MoveHook, WriteFakeHook, RunMkinitcpio,
         RemoveFakeHook, RestoreHook, KeepRest, tree

(* The first step, and only this one, installs; the others find users.     *)
LEMMA FirstStep ==
  ASSUME TypeOK, Installed, Step
  PROVE  /\ PacmanInstalls => pc = 1 /\ pc' = 2 /\ users' # <<>> /\ sub' = "start"
         /\ ~PacmanInstalls => users # <<>> /\ users' # <<>>
<1>1. Running /\ pc \in 1 .. Len(P) /\ Len(P) \in Nat /\ (At("pacman") <=> pc = 1)
  BY StepMoves, StepFacts DEF TypeOK, Moved
<1>2. PacmanInstalls => pc = 1
  BY <1>1 DEF PacmanInstalls
<1>3. PacmanInstalls => pc' = 2 /\ users' # <<>> /\ sub' = "start"
  BY <1>2, UsersKept DEF PacmanInstalls, Advance, Goto
<1>4. ASSUME ~PacmanInstalls PROVE users # <<>>
  <2>1. CASE pc # 1
    BY <1>1, <2>1 DEF Installed
  <2>2. CASE pc = 1
    <3>1. PacmanHasNothing
      BY <1>1, <1>4, <2>2 DEF Step, ProcGroup, UserCommand, UserRest, AddFile, PassOver, RunScript, RemoveFile,
           Systemctl, LocaleArchive, SetTimezone, OpenConfig, TruncateFile, WriteFile, StartInitrds, NextPreset,
           MoveHook, WriteFakeHook, RunMkinitcpio, RemoveFakeHook, RestoreHook, Recreating, At, TypeOK, SubOK
    <3>2. QED BY <3>1 DEF PacmanHasNothing
  <2>3. QED BY <2>1, <2>2
<1>5. QED BY <1>2, <1>3, <1>4, UsersKept

LEMMA InstalledStep ==
  ASSUME TypeOK, Installed, [Next]_vars
  PROVE  Installed'
<1>1. CASE Step
  BY <1>1, FirstStep DEF Installed
<1>2. CASE Between
  BY <1>2 DEF Between, Installed, tree
<1>3. CASE UNCHANGED vars
  BY <1>3 DEF vars, tree, accounts, Installed
<1>4. QED BY <1>1, <1>2, <1>3, NextCases

-----------------------------------------------------------------------------
(* What a package brought.                                                 *)

FromConfig(p) == \E c \in Range(Configurations) : \E f \in Range(c.files) : f.path = p
Opening(p) == sub \in {"open", "opened"} /\ Arg = p

KeptAt(p) ==
  /\ dist[p] \in {Nothing, Original}
  /\ users # <<>> => Original \in {etc[p], dist[p]}
  /\ Opening(p) => dist[p] = Original

KeptInv == \A p \in Packaged : FromConfig(p) \/ KeptAt(p)

LEMMA OpeningSteps ==
  Step => OpenConfig \/ TruncateFile \/ sub' \notin {"open", "opened"}
  BY DEF Step, PacmanInstalls, PacmanHasNothing, ProcGroup, UserCommand, UserRest, AddFile, PassOver, RunScript,
         RemoveFile, Systemctl, LocaleArchive, SetTimezone, WriteFile, StartInitrds, NextPreset, MoveHook,
         WriteFakeHook, RunMkinitcpio, RemoveFakeHook, RestoreHook, KeepRest, Advance, Fail, Goto, Part

LEMMA KeptStep ==
  ASSUME TypeOK, Installed, KeptInv, Step
  PROVE  KeptInv'
<1> SUFFICES ASSUME NEW p \in Packaged, ~FromConfig(p) PROVE KeptAt(p)'
  BY DEF KeptInv, FromConfig
<1>1. KeptAt(p)
  BY DEF KeptInv
<1>2. p \in Files /\ p \notin Unpackaged /\ Original # Nothing
  BY ContentsAssumption, ContentTypes DEF Files
<1>3. Running /\ C \in Range(Configurations) /\ Moved
  BY StepMoves, ProgramNow DEF TypeOK, Moved
<1>4. etc \in [Files -> Contents] /\ dist \in [Files -> Contents]
  BY DEF TypeOK
<1>5. CASE PacmanInstalls
  <2>1. sub' = "start" /\ dist' = dist
    BY <1>5 DEF PacmanInstalls, Advance, Goto
  <2>2. Original \in {etc'[p], dist'[p]}
    BY <1>1, <1>2, <1>4, <1>5, <2>1 DEF PacmanInstalls, KeptAt, Installed
  <2>3. QED BY <1>1, <2>1, <2>2 DEF KeptAt, Opening
<1>6. CASE AddFile
  <2>1. Arg.path # p
    BY <1>3, <1>6, StepFacts DEF AddFile, FromConfig, TypeOK
  <2>2. etc'[p] = etc[p] /\ dist' = dist /\ users' = users /\ sub' = "start"
    BY <1>4, <1>6, <2>1 DEF AddFile, accounts, Advance, Goto
  <2>3. QED BY <1>1, <2>2 DEF KeptAt, Opening
<1>7. CASE OpenConfig
  <2>1. users' = users /\ users # <<>> /\ sub' = "open" /\ pc' = pc /\ Arg' = Arg
    <3>1. ~PacmanInstalls
      BY <1>7 DEF OpenConfig, PacmanInstalls, At
    <3>2. QED BY <1>3, <1>7, <3>1, FirstStep DEF OpenConfig, accounts, Part, Arg, Moved
  <2>2. CASE Arg = p
    <3>1. MoveToDist(p) => etc[p] = Original
      BY <1>1, <1>2, <2>1 DEF MoveToDist, KeptAt
    <3>2. dist'[p] = Original
      BY <1>1, <1>2, <1>4, <1>7, <2>1, <2>2, <3>1 DEF OpenConfig, MoveToDist, KeptAt
    <3>3. QED BY <3>2 DEF KeptAt
  <2>3. CASE Arg # p
    <3>1. etc'[p] = etc[p] /\ dist'[p] = dist[p]
      BY <1>2, <1>4, <1>7, <2>3 DEF OpenConfig
    <3>2. QED BY <1>1, <2>1, <2>3, <3>1 DEF KeptAt, Opening
  <2>4. QED BY <2>2, <2>3
<1>8. CASE TruncateFile \/ WriteFile
  <2>1. dist' = dist /\ users' = users /\ (Opening(p)' => Opening(p) \/ Arg = p)
    BY <1>3, <1>8 DEF TruncateFile, WriteFile, accounts, Opening, Part, Advance, Goto, Arg, Moved
  <2>2. CASE Arg = p
    <3>1. Opening(p)
      BY <1>2, <1>8, <2>2, StepFacts, <1>3 DEF Opening, TruncateFile, WriteFile, TypeOK
    <3>2. dist[p] = Original
      BY <1>1, <3>1 DEF KeptAt
    <3>3. QED BY <2>1, <3>2 DEF KeptAt
  <2>3. CASE Arg # p
    <3>1. etc'[p] = etc[p]
      BY <1>2, <1>4, <1>8, <2>3 DEF TruncateFile, WriteFile
    <3>2. QED BY <1>1, <2>1, <2>3, <3>1 DEF KeptAt
  <2>4. QED BY <2>2, <2>3
<1>9. CASE /\ UNCHANGED <<etc, dist, owner>>
           /\ ~(PacmanInstalls \/ AddFile \/ OpenConfig \/ TruncateFile \/ WriteFile)
  <2>1. users # <<>> /\ ~Opening(p)'
    BY <1>9, FirstStep, OpeningSteps DEF Opening
  <2>2. QED BY <1>1, <1>9, <2>1 DEF KeptAt
<1>10. QED BY <1>5, <1>6, <1>7, <1>8, <1>9, TreeCases

LEMMA KeptNext ==
  ASSUME TypeOK, Installed, KeptInv, [Next]_vars
  PROVE  KeptInv'
<1>1. CASE Between
  BY <1>1 DEF Between, KeptInv, FromConfig, KeptAt, Opening, tree
<1>2. CASE UNCHANGED vars
  BY <1>2 DEF vars, tree, accounts, run, KeptInv, FromConfig, KeptAt, Opening, Arg, P
<1>3. QED BY <1>1, <1>2, KeptStep, NextCases

(* What the packages brought survives all runs of the builder, wherever    *)
(* they stopped, whatever configurations they had (open_config).           *)
THEOREM PackagesAreKept == Spec => []PackagedKept
<1> DEFINE Inv == TypeOK /\ Installed /\ KeptInv
<1>1. Init => Inv
  <2>1. Init => Installed
    BY DEF Init, Installed
  <2>2. Init => KeptInv
    BY ContentsAssumption DEF Init, KeptInv, KeptAt, Opening, Files
  <2>3. QED BY <2>1, <2>2, TypeInit
<1>2. Inv /\ [Next]_vars => Inv'
  BY TypeStep, InstalledStep, KeptNext
<1>3. Inv => PackagedKept
  BY DEF KeptInv, KeptAt, FromConfig, PackagedKept
<1>4. QED BY <1>1, <1>2, <1>3, PTL DEF Spec

-----------------------------------------------------------------------------
(* The autodetect hook.                                                    *)

HookInv ==
  /\ bak \in RealHooks \cup {"none"}
  /\ users # <<>> => hook \in RealHooks \/ bak \in RealHooks
  /\ RealHooks \subseteq Real \cup {"none"} /\ (users # <<>> => RealHooks \subseteq Real)
  /\ sub \in {"hook", "fake", "rename"} => C.fake
  /\ sub \in {"fake", "rename"} => hook = "none"
  /\ sub \in {"make", "restore"} /\ C.fake => hook = "fake"
  /\ sub = "next" /\ C.fake => left = DOMAIN Presets \/ hook \in RealHooks
  /\ users # <<>> /\ DOMAIN Presets = {} => hook \in RealHooks
  /\ pc >= Len(P) /\ C.fake => hook \in RealHooks

(* Between the steps of the program there is no part of a step.            *)
LEMMA OtherSteps ==
  ASSUME SubOK, Step
  PROVE  \/ PacmanInstalls \/ StartInitrds \/ NextPreset \/ MoveHook \/ WriteFakeHook \/ RunMkinitcpio
         \/ RemoveFakeHook \/ RestoreHook
         \/ ~At("initrds") /\ UNCHANGED initramfs /\ sub' \in {"start", "open", "opened"} \cup UserSubs
  BY DEF Step, PacmanHasNothing, ProcGroup, UserCommand, UserRest, AddFile, PassOver, RunScript,
         RemoveFile, Systemctl, LocaleArchive, SetTimezone, OpenConfig, TruncateFile, WriteFile, UserSubs,
         Advance, Fail, Goto, Part, At, SubOK

LEMMA HookStep ==
  ASSUME TypeOK, Installed, HookInv, Step
  PROVE  HookInv'
<1>1. /\ Moved /\ Running /\ pc \in 1 .. Len(P) /\ Len(P) \in Nat /\ Len(P) >= 4
      /\ (At("initrds") <=> pc = Len(P) - 1) /\ (At("pacman") <=> pc = 1)
      /\ C' = C /\ P' = P
  BY StepMoves, StepFacts, ProgramNow DEF TypeOK, Moved
<1>2. hook \in Hooked /\ bak \in Hooked
  BY DEF TypeOK
<1>3. /\ PacmanInstalls => pc = 1 /\ pc' = 2 /\ users' # <<>> /\ sub' = "start"
      /\ ~PacmanInstalls => users # <<>> /\ users' # <<>>
  BY FirstStep
<1>4. ~PacmanInstalls => RealHooks' = RealHooks
  <2>1. ~PacmanInstalls => installed' = installed
    BY OtherSteps DEF TypeOK, StartInitrds, NextPreset, MoveHook, WriteFakeHook, RunMkinitcpio,
       RemoveFakeHook, RestoreHook, KeepRest, initramfs
  <2>2. QED BY <2>1 DEF RealHooks
<1> USE DEF HookInv, Real, Hooked
<1>5. CASE PacmanInstalls
  <2>1. /\ hook' \in Real /\ bak' = bak
        /\ installed' = [hook |-> hook', over |-> bak # "none"]
    BY <1>5 DEF PacmanInstalls
  <2>2. RealHooks' = IF bak # "none" THEN Real ELSE {hook'}
    BY <2>1 DEF RealHooks
  <2>3. QED BY <1>1, <1>3, <1>5, <2>1, <2>2
<1>6. CASE StartInitrds
  <2>1. pc' = pc /\ pc = Len(P) - 1 /\ hook' = hook /\ bak' = bak /\ sub' = "next" /\ left' = DOMAIN Presets
    BY <1>1, <1>6 DEF StartInitrds, Recreating, initramfs
  <2>2. users # <<>>
    BY <1>1, <1>3, <2>1
  <2>3. RealHooks' = RealHooks
    BY <1>1, <1>3, <1>4, <2>1
  <2>4. QED BY <1>1, <1>2, <1>3, <2>1, <2>2, <2>3
<1>7. CASE NextPreset
  <2>1. pc = Len(P) - 1 /\ hook' = hook /\ bak' = bak /\ sub = "next"
    BY <1>1, <1>7 DEF NextPreset, Recreating
  <2>2. users # <<>>
    BY <1>1, <1>3, <2>1
  <2>3. CASE left = {}
    <3>1. (C.fake => hook \in RealHooks) /\ RealHooks' = RealHooks
      BY <1>1, <1>3, <1>4, <2>1, <2>2, <2>3
    <3>2. sub' = "start"
      BY <1>7, <2>3 DEF NextPreset, Advance, Goto
    <3>3. QED BY <1>1, <2>1, <2>2, <3>1, <3>2
  <2>4. CASE left # {}
    <3>1. pc' = pc /\ sub' = IF C.fake THEN "hook" ELSE "make"
      BY <1>7, <2>4 DEF NextPreset
    <3>2. QED BY <1>1, <1>3, <1>4, <2>1, <2>2, <3>1
  <2>5. QED BY <2>3, <2>4
<1>8. CASE MoveHook \/ WriteFakeHook
  <2>1. pc = Len(P) - 1 /\ pc' = pc
    BY <1>1, <1>8 DEF MoveHook, WriteFakeHook, Recreating, Part
  <2>2. users # <<>> /\ DOMAIN Presets # {}
    <3>1. users # <<>>
      BY <1>1, <1>3, <2>1
    <3>2. sub \in PresetSubs
      BY <1>8 DEF MoveHook, WriteFakeHook, Recreating, PresetSubs
    <3>3. QED BY <3>1, <3>2 DEF TypeOK, SubOK
  <2>3. RealHooks' = RealHooks /\ RealHooks \subseteq Real
    BY <1>1, <1>3, <1>4, <2>1, <2>2
  <2>4. CASE MoveHook
    <3>1. /\ hook # "none" /\ sub = "hook" /\ sub' = "fake" /\ hook' = "none"
          /\ bak' = IF bak = "none" THEN hook ELSE bak
      BY <2>4 DEF MoveHook, Recreating, Part, KeepHook
    <3>2. bak' \in RealHooks
      BY <2>2, <3>1
    <3>3. QED BY <1>1, <1>3, <2>1, <2>2, <2>3, <3>1, <3>2
  <2>5. CASE WriteFakeHook
    BY <1>1, <1>3, <2>1, <2>2, <2>3, <2>5 DEF WriteFakeHook, Recreating, Part
  <2>6. QED BY <1>8, <2>4, <2>5
<1>9. CASE RunMkinitcpio
  <2>1. pc = Len(P) - 1 /\ pc' \in {pc, 0} /\ hook' = hook /\ bak' = bak /\ sub = "make" /\ sub' \in {"restore", "start"}
    BY <1>1, <1>9 DEF RunMkinitcpio, Recreating, Part, Fail, Goto, Failed
  <2>2. users # <<>>
    BY <1>1, <1>3, <2>1
  <2>3. RealHooks' = RealHooks /\ users' # <<>>
    BY <1>1, <1>3, <1>4, <2>1
  <2>4. QED BY <1>1, <2>1, <2>2, <2>3
<1>10. CASE RemoveFakeHook \/ RestoreHook
  <2>1. pc = Len(P) - 1 /\ pc' = pc
    BY <1>1, <1>10 DEF RemoveFakeHook, RestoreHook, Recreating, Part
  <2>2. users # <<>> /\ DOMAIN Presets # {}
    <3>1. users # <<>>
      BY <1>1, <1>3, <2>1
    <3>2. sub \in PresetSubs
      BY <1>10 DEF RemoveFakeHook, RestoreHook, Recreating, PresetSubs
    <3>3. QED BY <3>1, <3>2 DEF TypeOK, SubOK
  <2>3. QED BY <1>1, <1>2, <1>3, <1>4, <1>10, <2>1, <2>2 DEF RemoveFakeHook, RestoreHook, Recreating, Part
<1>11. CASE /\ ~At("initrds") /\ UNCHANGED initramfs
            /\ sub' \in {"start", "open", "opened"} \cup UserSubs
            /\ ~PacmanInstalls
  <2>1. hook' = hook /\ bak' = bak /\ users # <<>>
    BY <1>3, <1>11 DEF initramfs
  <2>2. pc' >= Len(P) => pc >= Len(P)
    BY <1>1, <1>11 DEF Moved
  <2>3. sub' \notin {"hook", "fake", "rename", "make", "restore", "next"}
    BY <1>11 DEF UserSubs
  <2>4. QED BY <1>1, <1>3, <1>11, <1>4, <2>1, <2>2, <2>3
<1>12. QED BY <1>5, <1>6, <1>7, <1>8, <1>9, <1>10, <1>11, OtherSteps DEF TypeOK

LEMMA HookNext ==
  ASSUME TypeOK, Installed, HookInv, [Next]_vars
  PROVE  HookInv'
<1>1. CASE Between
  <2>1. pc' < Len(P') /\ ~(pc' >= Len(P'))
    <3>1. cfg' \in DOMAIN Configurations
      BY <1>1 DEF Between, TypeOK, run
    <3>2. Len(P') \in Nat /\ Len(P') >= 4
      BY <3>1, ProgramLength DEF P
    <3>3. QED BY <1>1, <3>2 DEF Between
  <2>2. RealHooks' = RealHooks
    BY <1>1 DEF Between, RealHooks, initramfs
  <2>3. QED BY <1>1, <2>1, <2>2 DEF Between, HookInv, initramfs, system
<1>2. CASE UNCHANGED vars
  BY <1>2 DEF vars, initramfs, system, accounts, run, HookInv, RealHooks, C, P
<1>3. QED BY <1>1, <1>2, HookStep, NextCases

(* The autodetect hook that pacman installed last is in place or kept as   *)
(* .bak, and in place after a run that used the fake one, wherever earlier *)
(* runs stopped between their rename, write, remove and rename             *)
(* (recreate_initrd).  When pacman installed it over the .bak of such a    *)
(* run, the hook is lost and an outdated one is put back: then only that   *)
(* one of the two is kept.                                                 *)
THEOREM TheHookIsKept == Spec => []HookKept
<1> DEFINE Inv == TypeOK /\ Installed /\ HookInv
<1>1. Init => Inv
  <2>1. Init => Installed
    BY DEF Init, Installed
  <2>2. ASSUME Init PROVE HookInv
    <3>1. Len(P) >= 4 /\ Len(P) \in Nat /\ pc = 1
      BY <2>2, ProgramNow DEF Init
    <3>2. QED BY <2>2, <3>1 DEF Init, HookInv, RealHooks, Real
  <2>3. QED BY <2>1, <2>2, TypeInit
<1>2. Inv /\ [Next]_vars => Inv'
  BY TypeStep, InstalledStep, HookNext
<1>3. Inv => HookKept
  <2> SUFFICES ASSUME Inv PROVE HookKept
    OBVIOUS
  <2>1. Done => pc >= Len(P)
    BY ProgramNow DEF TypeOK, Done
  <2>2. users # <<>> => {hook, bak} \cap RealHooks # {}
    BY DEF HookInv
  <2>3. QED BY <2>1, <2>2 DEF HookInv, HookKept
<1>4. QED BY <1>1, <1>2, <1>3, PTL DEF Spec

-----------------------------------------------------------------------------
(* The initramfs images.                                                   *)

Good(f) ==
  /\ \E i \in Made(f) : images[i] # NoImage
  /\ \A i \in Range(Presets[f]) :
        images[i] # NoImage => images[i].run = runs /\ (C.fake => images[i].with = "fake")

ImagesInv ==
  /\ sub = "next" => \A f \in DOMAIN Presets \ left : Good(f)
  /\ sub \in PresetSubs => \A f \in DOMAIN Presets \ (left \cup {preset}) : Good(f)
  /\ sub \in {"hook", "fake", "make"} => \A i \in Range(Presets[preset]) : images[i] = NoImage
  /\ sub \in {"restore", "rename"} => Good(preset)
  /\ pc >= Len(P) => \A f \in DOMAIN Presets : Good(f)

LEMMA GoodKept ==
  ASSUME NEW f \in DOMAIN Presets, C' = C, runs' = runs, Good(f),
         \A i \in Range(Presets[f]) : images'[i] = images[i]
  PROVE  Good(f)'
<1>1. Made(f)' = Made(f) /\ Made(f) \subseteq Range(Presets[f])
  BY DEF Made, Range
<1>2. QED BY <1>1 DEF Good

LEMMA ImagesOf ==
  ASSUME NEW f \in DOMAIN Presets
  PROVE  /\ Range(Presets[f]) \subseteq Images
         /\ \A g \in DOMAIN Presets \ {f} : Range(Presets[f]) \cap Range(Presets[g]) = {}
  BY ContentsAssumption DEF Images

LEMMA ImagesStep ==
  ASSUME TypeOK, HookInv, ImagesInv, Step
  PROVE  ImagesInv'
<1>1. /\ Moved /\ Running /\ pc \in 1 .. Len(P) /\ Len(P) \in Nat /\ Len(P) >= 4
      /\ (At("initrds") <=> pc = Len(P) - 1) /\ (At("pacman") <=> pc = 1)
      /\ C' = C /\ P' = P /\ runs' = runs /\ runs # 0 /\ SubOK
  BY StepMoves, StepFacts, ProgramNow DEF TypeOK, Moved
<1>2. images' = images => \A f \in DOMAIN Presets : Good(f) => Good(f)'
  BY <1>1, GoodKept
<1>3. images \in [Images -> ImageStates]
  BY DEF TypeOK
<1> USE DEF ImagesInv, PresetSubs
<1>4. CASE PacmanInstalls
  <2>1. pc = 1 /\ pc' = 2 /\ sub' = "start"
    BY <1>1, <1>4 DEF PacmanInstalls, Advance, Goto
  <2>2. QED BY <1>1, <2>1
<1>5. CASE StartInitrds
  <2>1. pc' = pc /\ pc = Len(P) - 1 /\ images' = images /\ sub' = "next" /\ left' = DOMAIN Presets
    BY <1>1, <1>5 DEF StartInitrds, Recreating, initramfs
  <2>2. QED BY <1>1, <2>1
<1>6. CASE NextPreset
  <2>1. pc = Len(P) - 1 /\ sub = "next"
    BY <1>1, <1>6 DEF NextPreset, Recreating
  <2>2. CASE left = {}
    <3>1. images' = images /\ sub' = "start" /\ \A f \in DOMAIN Presets : Good(f)
      BY <1>6, <2>1, <2>2 DEF NextPreset, Advance, Goto
    <3>2. QED BY <1>1, <1>2, <2>1, <3>1
  <2>3. CASE left # {}
    <3>1. PICK f \in left :
            /\ preset' = f /\ left' = left \ {f} /\ pc' = pc /\ sub' \in {"hook", "make"}
            /\ images' = [i \in Images |-> IF i \in OldImages(f) THEN NoImage ELSE images[i]]
      BY <1>6, <2>3 DEF NextPreset
    <3>2. f \in DOMAIN Presets
      BY <1>1 DEF SubOK
    <3>3. \A i \in Range(Presets[f]) : images'[i] = NoImage
      BY <3>1, <3>2, ImagesOf DEF OldImages
    <3>4. ASSUME NEW g \in DOMAIN Presets \ (left' \cup {f}) PROVE Good(g)'
      <4>1. Good(g)
        BY <2>1, <3>1
      <4>2. \A i \in Range(Presets[g]) : images'[i] = images[i]
        BY <3>1, <3>2, ImagesOf DEF OldImages
      <4>3. QED BY <1>1, <4>1, <4>2, GoodKept
    <3>5. QED BY <1>1, <2>1, <3>1, <3>3, <3>4
  <2>4. QED BY <2>2, <2>3
<1>7. CASE MoveHook \/ WriteFakeHook
  <2>1. /\ pc = Len(P) - 1 /\ pc' = pc /\ images' = images /\ left' = left /\ preset' = preset
        /\ sub \in {"hook", "fake"} /\ sub' \in {"fake", "make"}
    BY <1>1, <1>7 DEF MoveHook, WriteFakeHook, Recreating, Part
  <2>2. QED BY <1>1, <1>2, <2>1
<1>8. CASE RunMkinitcpio
  <2>1. pc = Len(P) - 1 /\ sub = "make" /\ preset \in DOMAIN Presets /\ preset \notin left
    BY <1>1, <1>8 DEF RunMkinitcpio, Recreating, SubOK
  <2>2. PICK made \in SUBSET Made(preset) :
          /\ images' = [i \in Images |->
               IF i \in made THEN [run |-> runs, with |-> IF C.no_autodetect /\ ~C.fake THEN "skip" ELSE hook]
               ELSE images[i]]
          /\ IF \E i \in Made(preset) : images'[i] # NoImage THEN Part("restore") ELSE Fail
    BY <1>8 DEF RunMkinitcpio
  <2>3. CASE ~(\E i \in Made(preset) : images'[i] # NoImage)
    <3>1. pc' = 0 /\ sub' = "start"
      BY <2>2, <2>3 DEF Fail, Goto, Failed
    <3>2. QED BY <1>1, <3>1
  <2>4. CASE \E i \in Made(preset) : images'[i] # NoImage
    <3>1. sub' = "restore" /\ pc' = pc /\ preset' = preset /\ left' = left
      BY <2>2, <2>4 DEF Part
    <3>2. made \subseteq Range(Presets[preset])
      BY <2>1 DEF Made, Range
    <3>3. ASSUME NEW g \in DOMAIN Presets \ (left \cup {preset}) PROVE Good(g)'
      <4>1. Good(g)
        BY <2>1
      <4>2. \A i \in Range(Presets[g]) : images'[i] = images[i]
        BY <2>1, <2>2, <3>2, ImagesOf
      <4>3. QED BY <1>1, <4>1, <4>2, GoodKept
    <3>4. ASSUME NEW i \in Range(Presets[preset]), images'[i] # NoImage
          PROVE  images'[i].run = runs /\ (C.fake => images'[i].with = "fake")
      <4>1. i \in Images /\ images[i] = NoImage
        BY <2>1, ImagesOf
      <4>2. i \in made
        BY <2>2, <3>4, <4>1
      <4>3. C.fake => hook = "fake"
        BY <2>1 DEF HookInv
      <4>4. QED BY <2>2, <4>1, <4>2, <4>3
    <3>5. Good(preset)'
      <4>1. Made(preset)' = Made(preset)
        BY <1>1, <3>1 DEF Made
      <4>2. QED BY <1>1, <2>4, <3>1, <3>4, <4>1 DEF Good
    <3>6. QED BY <1>1, <2>1, <3>1, <3>3, <3>5
  <2>5. QED BY <2>3, <2>4
<1>9. CASE RemoveFakeHook \/ RestoreHook
  <2>1. /\ pc = Len(P) - 1 /\ pc' = pc /\ images' = images /\ left' = left /\ preset' = preset
        /\ sub \in {"restore", "rename"} /\ sub' \in {"rename", "next"}
    BY <1>1, <1>9 DEF RemoveFakeHook, RestoreHook, Recreating, Part
  <2>2. preset \in DOMAIN Presets /\ \A f \in DOMAIN Presets \ left : Good(f)
    BY <1>1, <2>1 DEF SubOK
  <2>3. \A f \in DOMAIN Presets \ left' : Good(f)'
    BY <1>2, <2>1, <2>2
  <2>4. Good(preset)'
    <3>1. Good(preset) /\ \A i \in Range(Presets[preset]) : images'[i] = images[i]
      BY <2>1
    <3>2. Made(preset)' = Made(preset)
      BY <1>1, <2>1 DEF Made
    <3>3. QED BY <1>1, <2>1, <3>1, <3>2 DEF Good
  <2>5. QED BY <1>1, <2>1, <2>3, <2>4
<1>10. CASE ~At("initrds") /\ UNCHANGED initramfs /\ sub' \in {"start", "open", "opened"} \cup UserSubs
  <2>1. images' = images
    BY <1>10 DEF initramfs
  <2>2. pc' >= Len(P) => pc >= Len(P)
    BY <1>1, <1>10 DEF Moved
  <2>3. sub' \notin PresetSubs \cup {"next"}
    BY <1>10 DEF UserSubs
  <2>4. QED BY <1>1, <1>2, <2>1, <2>2, <2>3
<1>11. QED BY <1>1, <1>4, <1>5, <1>6, <1>7, <1>8, <1>9, <1>10, OtherSteps

LEMMA ImagesNext ==
  ASSUME TypeOK, HookInv, ImagesInv, [Next]_vars
  PROVE  ImagesInv'
<1>1. CASE Between
  <2>1. ~(pc' >= Len(P'))
    <3>1. cfg' \in DOMAIN Configurations
      BY <1>1 DEF Between, TypeOK, run
    <3>2. Len(P') \in Nat /\ Len(P') >= 4
      BY <3>1, ProgramLength DEF P
    <3>3. QED BY <1>1, <3>2 DEF Between
  <2>2. QED BY <1>1, <2>1 DEF Between, ImagesInv, PresetSubs
<1>2. CASE UNCHANGED vars
  BY <1>2 DEF vars, initramfs, run, ImagesInv, Good, Made, C, P
<1>3. QED BY <1>1, <1>2, ImagesStep, NextCases

(* Whatever images pacman or an earlier run left, whatever mkinitcpio made *)
(* and however it ended: a run that goes on has its own images, with the   *)
(* fake hook when that is configured (recreate_initrd).                    *)
THEOREM TheImagesAreNew == Spec => []ImagesAreNew
<1> DEFINE Inv == TypeOK /\ Installed /\ HookInv /\ ImagesInv
<1>1. Init => Inv
  <2>1. Init => Installed
    BY DEF Init, Installed
  <2>2. ASSUME Init PROVE HookInv /\ ImagesInv
    <3>1. Len(P) >= 4 /\ Len(P) \in Nat /\ pc = 1
      BY <2>2, ProgramNow DEF Init
    <3>2. QED BY <2>2, <3>1 DEF Init, HookInv, ImagesInv, PresetSubs, RealHooks, Real
  <2>3. QED BY <2>1, <2>2, TypeInit
<1>2. Inv /\ [Next]_vars => Inv'
  BY TypeStep, InstalledStep, HookNext, ImagesNext
<1>3. Inv => ImagesAreNew
  <2> SUFFICES ASSUME Inv PROVE ImagesAreNew
    OBVIOUS
  <2>1. Done => pc >= Len(P)
    BY ProgramNow DEF TypeOK, Done
  <2>2. QED BY <2>1 DEF ImagesInv, Good, ImagesAreNew
<1>4. QED BY <1>1, <1>2, <1>3, PTL DEF Spec

-----------------------------------------------------------------------------
(* What the steps before this one have done.                               *)

Before == 1 .. pc - 1

Writes(i, p) == \/ P[i].op \in {"open_config", "write"} /\ P[i].arg = p
                \/ P[i].op = "file" /\ P[i].arg.path = p
LastYet(i, p) == Writes(i, p) /\ \A j \in Before : Writes(j, p) => j =< i

(* The files: what the last step that has written one has written.         *)
WrittenInv ==
  \A p \in Files : \A i \in Before : LastYet(i, p) /\ ~Opening(p) =>
    etc[p] = Content(IF P[i].op = "file" THEN "file" ELSE "generated", cfg)

(* Of the file that step i has put there.                                  *)
Owned(i) == P[i].op = "file" /\ P[i].arg.stage # "pre-user" /\ Named(users, P[i].arg.owner) # {}
OwnedInv ==
  \A p \in Files : \A i \in Before : LastYet(i, p) /\ Owned(i) => owner[p] = UserOf(P[i].arg.owner).uid

(* ctx.passwd is etc/passwd, the homes left out.                           *)
Agree ==
  /\ DOMAIN passwd = DOMAIN users
  /\ \A i \in DOMAIN users : passwd[i].name = users[i].name /\ passwd[i].uid = users[i].uid
AgreeInv == pc > 1 /\ sub \notin UserSubs => Agree

Early(x) == x.op = "pacman" \/ Free(x) \/ Phase(x) =< Accounts
HasSkel ==
  /\ \E k \in Before : P[k].op = "file" /\ P[k].arg.path = SkelFile
  /\ \A j \in 1 .. pc : j =< Len(P) => Early(P[j])
SkelInv == HasSkel => etc[SkelFile] = Content("file", cfg)

(* A user after its step: homes, when also its home is done.               *)
OwnSkel == \E f \in Range(C.files) : f.path = SkelFile /\ f.stage = "pre-user"
UserMade(u, homes) ==
  /\ Named(users, u.name) # {}
  /\ \A i \in Named(users, u.name) :
       /\ users[i].uid = u.uid
       /\ OwnSkel /\ homes => users[i].home \in {Nothing, Content("file", cfg)}
UserInv ==
  /\ \A k \in Before : P[k].op = "user" => UserMade(P[k].arg, TRUE)
  /\ sub \in UserSubs => UserMade(Arg, sub = "created")

Past(op) == \E k \in Before : P[k].op = op
SystemInv ==
  /\ Past("enable") => C.enable \ C.disable \subseteq units
  /\ Past("disable") => C.disable \cap units = {}
  /\ Past("default") => target = C.default
  /\ Past("reset_locale") => archive \in {0, cfg}
  /\ Past("timezone") => localtime = C.zone

(* The steps between the first one and initrds, and the last one.          *)
LEMMA InnerStep ==
  ASSUME cfg \in DOMAIN Configurations, NEW i \in 1 .. Len(P)
  PROVE  /\ i = 1 => P[i].op = "pacman"
         /\ i = Len(P) - 1 => P[i].op = "initrds"
         /\ i = Len(P) => P[i].op = "write"
         /\ i \in 2 .. Len(P) - 2 => WellFormed(C, P[i])
         /\ P[i].op \in InnerOps => i \in 2 .. Len(P) - 2 \/ i = Len(P)
<1>1. Len(P) \in Nat /\ Len(P) >= 4 /\ ProgramOf(C, P)
  BY ProgramNow
<1>2. /\ i = 1 => P[i].op = "pacman"
      /\ i = Len(P) - 1 => P[i].op = "initrds"
      /\ i = Len(P) => P[i].op = "write"
      /\ i \in 2 .. Len(P) - 2 => WellFormed(C, P[i])
  BY <1>1 DEF ProgramOf
<1>3. i = 1 \/ i \in 2 .. Len(P) - 2 \/ i = Len(P) - 1 \/ i = Len(P)
  BY <1>1
<1>4. "pacman" \notin InnerOps /\ "initrds" \notin InnerOps
  BY DEF InnerOps
<1>5. QED BY <1>2, <1>3, <1>4

LEMMA PhaseRange ==
  ASSUME cfg \in DOMAIN Configurations, NEW i \in 2 .. Len(P) - 2, ~Free(P[i])
  PROVE  Phase(P[i]) \in Phases
<1>1. FilePhase(P[i].arg.stage) \in Phases
  BY PhaseOrder
<1>2. QED BY <1>1, PhaseOrder DEF Phase

LEMMA InOrder ==
  ASSUME cfg \in DOMAIN Configurations, NEW i \in 1 .. Len(P), NEW j \in 1 .. Len(P), i < j,
         P[i].op \in InnerOps, P[j].op \in InnerOps, ~Free(P[i]), ~Free(P[j])
  PROVE  Phase(P[i]) =< Phase(P[j])
<1>1. Len(P) \in Nat /\ Len(P) >= 4 /\ ProgramOf(C, P)
  BY ProgramNow
<1>2. i \in 2 .. Len(P) - 2 /\ (j \in 2 .. Len(P) - 2 \/ j = Len(P))
  BY <1>1, InnerStep
<1>3. CASE j \in 2 .. Len(P) - 2
  BY <1>1, <1>2, <1>3 DEF ProgramOf
<1>4. CASE j = Len(P)
  <2>1. Phase(P[j]) = Later
    BY <1>4, InnerStep DEF Phase
  <2>2. Phase(P[i]) \in Phases /\ \A n \in Phases : n =< Later
    BY <1>2, PhaseRange, PhaseOrder DEF Phases
  <2>3. QED BY <2>1, <2>2
<1>5. QED BY <1>2, <1>3, <1>4

(* What a step on a file is, and that it is the only one that writes.      *)
LEMMA WriteCases ==
  ASSUME SubOK, Step
  PROVE  \/ PacmanInstalls
         \/ AddFile /\ pc' = pc + 1
         \/ OpenConfig /\ pc' = pc /\ sub' = "open"
         \/ TruncateFile /\ pc' = pc /\ sub' = "opened"
         \/ WriteFile /\ pc' = pc + 1 /\ (At("open_config") \/ At("write"))
         \/ /\ UNCHANGED <<etc, dist, owner>>
            /\ ~At("file") /\ ~At("open_config") /\ ~At("write") /\ sub \notin {"open", "opened"}
  BY DEF Step, PacmanHasNothing, ProcGroup, UserCommand, UserRest, AddFile, PassOver, RunScript, RemoveFile,
         Systemctl, LocaleArchive, SetTimezone, OpenConfig, TruncateFile, WriteFile, StartInitrds, NextPreset,
         MoveHook, WriteFakeHook, RunMkinitcpio, RemoveFakeHook, RestoreHook, KeepRest, tree, Recreating, At,
         Advance, Goto, Part, SubOK

LEMMA WrittenStep ==
  ASSUME TypeOK, WrittenInv, Step
  PROVE  WrittenInv'
<1>1. /\ Moved /\ Running /\ pc \in 1 .. Len(P) /\ Len(P) \in Nat /\ (At("pacman") <=> pc = 1)
      /\ P' = P /\ cfg' = cfg /\ SubOK
  BY StepMoves, StepFacts, ProgramNow DEF TypeOK, Moved
<1>2. etc \in [Files -> Contents]
  BY DEF TypeOK
<1> SUFFICES ASSUME NEW p \in Files, NEW i \in Before', LastYet(i, p)', ~Opening(p)'
             PROVE  etc'[p] = Content(IF P[i].op = "file" THEN "file" ELSE "generated", cfg)
  BY <1>1 DEF WrittenInv
<1>3. Writes(i, p)' <=> Writes(i, p)
  BY <1>1 DEF Writes
<1>4. \A j : Writes(j, p)' <=> Writes(j, p)
  BY <1>1 DEF Writes
<1>5. pc' \in {pc, pc + 1}
  BY <1>1 DEF Moved, Before
<1>6. CASE pc' = pc
  <2>1. i \in Before /\ LastYet(i, p) /\ Arg' = Arg
    BY <1>1, <1>4, <1>6 DEF Before, LastYet, Arg
  <2>2. OpenConfig \/ TruncateFile => ~Opening(p) /\ Arg # p
    BY <2>1 DEF Opening, OpenConfig, TruncateFile, Part
  <2>3. ~Opening(p) /\ etc'[p] = etc[p]
    <3>1. CASE OpenConfig \/ TruncateFile
      BY <1>2, <2>2, <3>1 DEF OpenConfig, TruncateFile
    <3>2. CASE PacmanInstalls
      BY <1>1, <1>6, <3>2 DEF PacmanInstalls, Advance, Goto
    <3>3. CASE ~OpenConfig /\ ~TruncateFile /\ ~PacmanInstalls
      BY <1>1, <1>6, <3>3, WriteCases DEF Opening
    <3>4. QED BY <3>1, <3>2, <3>3
  <2>4. QED BY <2>1, <2>3 DEF WrittenInv
<1>7. CASE pc' = pc + 1
  <2>1. i \in 1 .. pc /\ \A j \in 1 .. pc : Writes(j, p) => j =< i
    BY <1>1, <1>4, <1>7 DEF Before, LastYet
  <2>2. Writes(i, p)
    BY <1>3 DEF LastYet
  <2>3. CASE i = pc
    <3>1. \/ (At("open_config") \/ At("write")) /\ Arg = p
          \/ At("file") /\ Arg.path = p
      BY <1>1, <2>2, <2>3 DEF Writes, At, Arg
    <3>2. ~At("pacman")
      BY <3>1 DEF At
    <3>3. CASE WriteFile /\ (At("open_config") \/ At("write"))
      <4>1. Arg = p /\ P[i].op # "file"
        BY <2>3, <3>1, <3>3 DEF At
      <4>2. QED BY <1>2, <3>3, <4>1 DEF WriteFile
    <3>4. CASE AddFile
      <4>1. Arg.path = p /\ P[i].op = "file"
        BY <2>3, <3>1, <3>4 DEF AddFile, At
      <4>2. QED BY <1>2, <3>4, <4>1 DEF AddFile
    <3>5. QED BY <1>1, <1>7, <3>1, <3>2, <3>3, <3>4, WriteCases DEF PacmanInstalls
  <2>4. CASE i < pc
    <3>1. ~Writes(pc, p) /\ i \in Before /\ LastYet(i, p)
      BY <1>1, <2>1, <2>2, <2>4 DEF Before, LastYet
    <3>2. /\ At("open_config") \/ At("write") => Arg # p
          /\ At("file") => Arg.path # p
      BY <3>1 DEF Writes, At, Arg
    <3>3. ~Opening(p)
      BY <1>1, <3>2 DEF Opening, SubOK
    <3>4. etc'[p] = etc[p]
      <4>1. ~PacmanInstalls
        BY <1>1, <2>1, <2>4 DEF PacmanInstalls
      <4>2. AddFile => At("file")
        BY DEF AddFile
      <4>3. QED BY <1>1, <1>2, <1>7, <3>2, <4>1, <4>2, WriteCases DEF AddFile, WriteFile
    <3>5. QED BY <3>1, <3>3, <3>4 DEF WrittenInv
  <2>5. QED BY <1>1, <2>1, <2>3, <2>4
<1>8. QED BY <1>5, <1>6, <1>7

(* The steps on users, and those that leave etc/passwd and ctx.passwd.     *)
LEMMA AccountCases ==
  ASSUME SubOK, Step
  PROVE  \/ PacmanInstalls \/ PacmanHasNothing \/ ProcGroup
         \/ At("user") /\ UserCommand /\ sub = "start"
         \/ At("user") /\ UserRest /\ sub \in UserSubs /\ pc' = pc + 1 /\ sub' = "start"
         \/ ~At("user") /\ ~At("pacman") /\ UNCHANGED <<users, passwd>> /\ sub' \notin UserSubs
  BY DEF Step, UserCommand, UserRest, AddFile, PassOver, RunScript, RemoveFile, Systemctl, LocaleArchive,
         SetTimezone, OpenConfig, TruncateFile, WriteFile, StartInitrds, NextPreset, MoveHook, WriteFakeHook,
         RunMkinitcpio, RemoveFakeHook, RestoreHook, KeepRest, accounts, Recreating, At, Advance, Goto, Part,
         Fail, SubOK, UserSubs

LEMMA AgreeStep ==
  ASSUME TypeOK, AgreeInv, Step
  PROVE  AgreeInv'
<1> USE DEF ReloadPasswd
<1>1. SubOK /\ Moved /\ pc \in 1 .. Len(P) /\ Len(P) \in Nat /\ (At("pacman") <=> pc = 1)
  BY StepMoves, StepFacts, ProgramNow DEF TypeOK, Moved
<1>2. passwd' = users' => AgreeInv'
  BY DEF AgreeInv, Agree
<1>3. CASE PacmanInstalls \/ PacmanHasNothing \/ ProcGroup
  BY <1>2, <1>3 DEF PacmanInstalls, PacmanHasNothing, ProcGroup
<1>4. CASE UserCommand
  <2>1. sub' \in UserSubs \/ pc' = 0
    BY <1>4 DEF UserCommand, UserSubs, Part, Fail, Goto, Failed
  <2>2. QED BY <2>1 DEF AgreeInv
<1>5. CASE UserRest
  <2>1. /\ passwd' = users
        /\ users' = [i \in DOMAIN users |->
                       IF users[i].name = Arg.name /\ sub = "modified" THEN CopySkel(users[i]) ELSE users[i]]
    BY <1>5 DEF UserRest
  <2>2. ASSUME NEW i \in DOMAIN users
        PROVE  users'[i].name = users[i].name /\ users'[i].uid = users[i].uid
    <3>1. users[i] \in UserRecords
      BY LenProperties DEF TypeOK
    <3>2. CopySkel(users[i]).name = users[i].name /\ CopySkel(users[i]).uid = users[i].uid
      BY <3>1 DEF CopySkel, UserRecords
    <3>3. QED BY <2>1, <3>2
  <2>3. DOMAIN passwd' = DOMAIN users'
    BY <2>1
  <2>4. QED BY <2>1, <2>2, <2>3 DEF AgreeInv, Agree
<1>6. CASE ~At("user") /\ ~At("pacman") /\ UNCHANGED <<users, passwd>>
  <2>1. pc > 1 /\ sub \notin UserSubs
    BY <1>1, <1>6 DEF SubOK
  <2>2. QED BY <1>6, <2>1 DEF AgreeInv, Agree
<1>7. QED BY <1>1, <1>3, <1>4, <1>5, <1>6, AccountCases

(* Agreeing lists find the same.                                           *)
LEMMA SameLookup ==
  ASSUME TypeOK, Agree, NEW name
  PROVE  /\ Named(passwd, name) = Named(users, name)
         /\ Named(users, name) # {} => OwnerId(name) = UserOf(name).uid
<1>1. Named(passwd, name) = Named(users, name)
  BY DEF Named, Agree
<1>2. ASSUME Named(users, name) # {}
      PROVE  OwnerId(name) = UserOf(name).uid
  <2> DEFINE k == CHOOSE i \in Named(users, name) : \A j \in Named(users, name) : i =< j
  <2>1. PICK i \in Named(users, name) : \A j \in Named(users, name) : i =< j
    BY <1>2, LookupFacts DEF TypeOK
  <2>2. k \in Named(users, name)
    BY <2>1
  <2>3. Lookup(passwd, name) = passwd[k] /\ Lookup(users, name) = users[k]
    BY <1>1 DEF Lookup
  <2> HIDE DEF k
  <2>4. passwd[k].uid = users[k].uid
    BY <2>2 DEF Named, Agree
  <2>5. QED BY <1>1, <1>2, <2>3, <2>4 DEF OwnerId, UserOf
<1>3. QED BY <1>1, <1>2

(* No user is changed after a file of a later stage was put there.         *)
LEMMA OwnersStay ==
  ASSUME TypeOK, Step, NEW i \in Before, P[i].op = "file", P[i].arg.stage # "pre-user"
  PROVE  ~At("user") /\ ~At("pacman") /\ users' = users
<1>1. SubOK /\ Running /\ pc \in 1 .. Len(P) /\ Len(P) \in Nat /\ (At("pacman") <=> pc = 1)
  BY StepMoves, StepFacts, ProgramNow DEF TypeOK, Moved
<1>2. i \in 1 .. Len(P) /\ i < pc /\ pc # 1 /\ cfg \in DOMAIN Configurations
  BY <1>1 DEF Before, TypeOK
<1>3. ~At("user")
  <2> SUFFICES ASSUME At("user") PROVE FALSE
    OBVIOUS
  <2>1. P[pc].op \in InnerOps /\ ~Free(P[pc]) /\ Phase(P[pc]) = Accounts
    BY DEF At, InnerOps, Free, Phase
  <2>2. P[i].op \in InnerOps /\ ~Free(P[i]) /\ Phase(P[i]) = FilePhase(P[i].arg.stage)
    BY DEF InnerOps, Free, Phase
  <2>3. FilePhase(P[i].arg.stage) \in {BuildTime, Later}
    BY DEF FilePhase
  <2>4. Phase(P[i]) =< Phase(P[pc])
    BY <1>1, <1>2, <2>1, <2>2, InOrder
  <2>5. Phase(P[i]) > Accounts
    BY <2>2, <2>3, PhaseOrder DEF Phases
  <2>6. Accounts \in Nat /\ Phase(P[i]) \in Nat
    BY <2>2, PhaseOrder
  <2>7. QED BY <2>1, <2>4, <2>5, <2>6
<1>4. users' = users
  BY <1>1, <1>2, <1>3, UsersCases DEF PacmanInstalls, UserCommand, UserRest
<1>5. QED BY <1>1, <1>2, <1>3, <1>4

LEMMA OwnedStep ==
  ASSUME TypeOK, AgreeInv, OwnedInv, Step
  PROVE  OwnedInv'
<1>1. /\ Moved /\ Running /\ pc \in 1 .. Len(P) /\ Len(P) \in Nat /\ (At("pacman") <=> pc = 1)
      /\ P' = P /\ cfg' = cfg /\ SubOK
  BY StepMoves, StepFacts, ProgramNow DEF TypeOK, Moved
<1>2. owner \in [Files -> Uids]
  BY DEF TypeOK
<1>0. \A i \in Before' : i \in 1 .. pc
  BY <1>1 DEF Moved, Before
<1> SUFFICES ASSUME NEW p \in Files, NEW i \in Before', LastYet(i, p)', Owned(i)'
             PROVE  owner'[p] = UserOf(P[i].arg.owner)'.uid
  BY <1>1 DEF OwnedInv
<1>3. /\ Writes(i, p)' <=> Writes(i, p)
      /\ \A j : Writes(j, p)' <=> Writes(j, p)
  BY <1>1 DEF Writes
<1>4. pc' \in {pc, pc + 1}
  BY <1>1 DEF Moved, Before
<1>5. i \in 1 .. pc /\ Writes(i, p)
  <2>1. i \in 1 .. pc
    BY <1>0
  <2>2. QED BY <1>3, <2>1 DEF LastYet
<1>6. P[i].op = "file" /\ P[i].arg.stage # "pre-user" /\ P[i].arg.path = p
  BY <1>1, <1>5 DEF Owned, Writes
<1>7. CASE i \in Before /\ LastYet(i, p)
  <2>1. ~At("pacman") /\ users' = users
    BY <1>6, <1>7, OwnersStay
  <2>2. owner[p] = UserOf(P[i].arg.owner).uid
    BY <1>1, <1>7, <2>1 DEF OwnedInv, Owned
  <2>3. owner'[p] = owner[p]
    <3>1. CASE AddFile /\ pc' = pc + 1
      <4>1. ~Writes(pc, p)
        BY <1>1, <1>3, <1>7, <3>1 DEF Before, LastYet
      <4>2. Arg.path # p
        BY <3>1, <4>1 DEF Writes, AddFile, At, Arg
      <4>3. QED BY <1>2, <3>1, <4>2 DEF AddFile
    <3>2. OpenConfig \/ TruncateFile \/ WriteFile => owner' = owner
      BY DEF OpenConfig, TruncateFile, WriteFile
    <3>3. QED BY <1>1, <2>1, <3>1, <3>2, WriteCases DEF PacmanInstalls
  <2>4. UserOf(P[i].arg.owner)' = UserOf(P[i].arg.owner)
    BY <1>1, <2>1 DEF UserOf, Lookup, Named
  <2>5. QED BY <2>2, <2>3, <2>4
<1>8. CASE i = pc /\ pc' = pc + 1
  <2>1. At("file") /\ Arg = P[i].arg
    BY <1>1, <1>6, <1>8 DEF At, Arg
  <2>2. AddFile
    <3>1. ~At("open_config") /\ ~At("write") /\ ~At("pacman")
      BY <2>1 DEF At
    <3>2. QED BY <1>1, <1>8, <2>1, <3>1, WriteCases DEF PacmanInstalls
  <2>3. users' = users /\ owner'[p] = OwnerId(P[i].arg.owner)
    BY <1>2, <1>6, <2>1, <2>2 DEF AddFile, accounts
  <2>4. Agree
    <3>1. sub \notin UserSubs /\ pc > 1
      BY <1>1, <2>1 DEF SubOK, At
    <3>2. QED BY <3>1 DEF AgreeInv
  <2>5. Named(users, P[i].arg.owner) # {}
    BY <1>1, <2>3 DEF Owned, Named
  <2>6. OwnerId(P[i].arg.owner) = UserOf(P[i].arg.owner).uid
    BY <2>4, <2>5, SameLookup
  <2>7. UserOf(P[i].arg.owner)' = UserOf(P[i].arg.owner)
    BY <1>1, <2>3 DEF UserOf, Lookup, Named
  <2>8. QED BY <2>3, <2>6, <2>7
<1>9. QED
  <2>1. pc' = pc => i \in Before /\ LastYet(i, p)
    BY <1>1, <1>3 DEF Before, LastYet
  <2>2. pc' = pc + 1 /\ i # pc => i \in Before /\ LastYet(i, p)
    BY <1>1, <1>3, <1>5 DEF Before, LastYet
  <2>3. QED BY <1>4, <1>7, <1>8, <2>1, <2>2

LEMMA SkelStep ==
  ASSUME TypeOK, SkelInv, Step
  PROVE  SkelInv'
<1>1. /\ Moved /\ Running /\ pc \in 1 .. Len(P) /\ Len(P) \in Nat /\ (At("pacman") <=> pc = 1)
      /\ P' = P /\ cfg' = cfg /\ SubOK
  BY StepMoves, StepFacts, ProgramNow DEF TypeOK, Moved
<1>2. etc \in [Files -> Contents]
  BY DEF TypeOK
<1>0. /\ \A k \in Before' : k \in 1 .. pc
      /\ pc \in Before' => pc' # pc
  BY <1>1 DEF Moved, Before
<1> SUFFICES ASSUME HasSkel' PROVE etc'[SkelFile] = Content("file", cfg)
  BY <1>1 DEF SkelInv
<1>3. PICK k \in Before' : P[k].op = "file" /\ P[k].arg.path = SkelFile
  BY <1>1 DEF HasSkel
<1>4. pc' \in {pc, pc + 1} /\ k \in 1 .. pc
  BY <1>0, <1>1, <1>3 DEF Moved, Before
<1>5. \A j \in 1 .. pc : Early(P[j])
  BY <1>1, <1>4 DEF HasSkel, Early, Phase, FilePhase
<1>6. ~At("open_config") /\ ~At("write")
  <2>1. At("open_config") \/ At("write") => Phase(P[pc]) = Later /\ ~Free(P[pc]) /\ P[pc].op # "pacman"
    BY DEF At, Phase, Free
  <2>2. ~(Later =< Accounts)
    BY DEF Later, Accounts
  <2>3. Early(P[pc])
    BY <1>1, <1>5
  <2>4. QED BY <2>1, <2>2, <2>3 DEF Early
<1>7. CASE k < pc
  <2>1. etc[SkelFile] = Content("file", cfg)
    <3>1. k \in Before
      BY <1>1, <1>4, <1>7 DEF Before
    <3>2. QED BY <1>3, <1>5, <3>1 DEF SkelInv, HasSkel
  <2>2. ~PacmanInstalls
    BY <1>1, <1>4, <1>7 DEF PacmanInstalls
  <2>3. SkelFile \in Files
    <3>1. k \in 1 .. Len(P) /\ k # 1
      BY <1>1, <1>3, <1>4, InnerStep DEF TypeOK
    <3>2. P[k].op \in InnerOps /\ P[k].op # "write"
      BY <1>3 DEF InnerOps
    <3>3. WellFormed(C, P[k])
      BY <3>1, <3>2, InnerStep DEF TypeOK
    <3>4. P[k].arg \in Range(C.files) /\ C \in Range(Configurations)
      BY <1>3, <3>3, ProgramNow DEF WellFormed, TypeOK
    <3>5. QED BY <1>3, <3>4 DEF Files
  <2>4. QED
    <3>1. OpenConfig => At("open_config")
      BY DEF OpenConfig
    <3>2. TruncateFile => At("open_config") \/ At("write")
      BY DEF TruncateFile
    <3>3. AddFile => etc'[SkelFile] = Content("file", cfg)
      <4>1. AddFile /\ Arg.path = SkelFile => etc'[SkelFile] = Content("file", cfg)
        BY <1>2, <2>3 DEF AddFile
      <4>2. AddFile /\ Arg.path # SkelFile => etc'[SkelFile] = etc[SkelFile]
        BY <1>2, <2>3 DEF AddFile
      <4>3. QED BY <2>1, <4>1, <4>2
    <3>4. QED BY <1>1, <1>6, <2>1, <2>2, <3>1, <3>2, <3>3, WriteCases
<1>8. CASE k = pc
  <2>1. At("file") /\ Arg.path = SkelFile /\ pc' = pc + 1
    <3>1. At("file") /\ Arg.path = SkelFile
      BY <1>1, <1>3, <1>8 DEF At, Arg
    <3>2. pc' # pc
      BY <1>1, <1>0, <1>8
    <3>3. QED BY <1>4, <3>1, <3>2
  <2>2. AddFile
    <3>1. ~At("pacman")
      BY <2>1 DEF At
    <3>2. QED BY <1>1, <1>6, <2>1, <3>1, WriteCases DEF PacmanInstalls, OpenConfig, TruncateFile
  <2>3. Arg.path \in Files
    BY <1>1, <2>1, ArgTypes
  <2>4. etc' = [etc EXCEPT ![SkelFile] = Content("file", cfg)]
    BY <2>1, <2>2 DEF AddFile
  <2>5. QED BY <1>2, <2>1, <2>3, <2>4
<1>9. QED BY <1>1, <1>4, <1>7, <1>8

(* When a user is made, the skel of this configuration is there.           *)
LEMMA SkelReady ==
  ASSUME TypeOK, SkelInv, At("user"), OwnSkel
  PROVE  SkelNow = Content("file", cfg)
<1>1. /\ cfg \in DOMAIN Configurations /\ pc \in 1 .. Len(P) /\ Len(P) \in Nat /\ Len(P) >= 4
      /\ IsSequence(P) /\ HasAll(C, P) /\ C \in Range(Configurations)
  BY StepFacts, ProgramNow DEF TypeOK, At, ProgramOf
<1>2. P[pc].op \in InnerOps /\ ~Free(P[pc]) /\ Phase(P[pc]) = Accounts
  BY DEF At, InnerOps, Free, Phase
<1>3. pc \in 2 .. Len(P) - 2
  <2>1. pc \in 2 .. Len(P) - 2 \/ pc = Len(P)
    BY <1>1, <1>2, InnerStep
  <2>2. P[pc].op # "write"
    BY DEF At
  <2>3. QED BY <1>1, <2>1, <2>2, InnerStep
<1>4. PICK f \in Range(C.files) : f.path = SkelFile /\ f.stage = "pre-user"
  BY DEF OwnSkel
<1>5. PICK k \in 1 .. Len(P) : P[k] = StepOf("file", f)
  BY <1>1, <1>4, SequenceFacts DEF HasAll
<1>6. P[k].op = "file" /\ P[k].arg = f /\ P[k].op \in InnerOps /\ ~Free(P[k]) /\ Phase(P[k]) = PreUser
  BY <1>4, <1>5 DEF StepOf, InnerOps, Free, Phase, FilePhase
<1>7. PreUser \in Nat /\ Accounts \in Nat /\ PreUser < Accounts
  BY PhaseOrder
<1>8. k < pc
  <2>1. k # pc
    BY <1>6 DEF At
  <2>2. CASE k > pc
    <3>1. Phase(P[pc]) =< Phase(P[k])
      BY <1>1, <1>2, <1>6, <2>2, InOrder
    <3>2. QED BY <1>2, <1>6, <1>7, <3>1
  <2>3. QED BY <1>1, <2>1, <2>2
<1>9. ASSUME NEW j \in 1 .. pc PROVE Early(P[j])
  <2>1. j \in 1 .. Len(P) /\ (j = 1 \/ j \in 2 .. Len(P) - 2)
    BY <1>1, <1>3
  <2>2. CASE j = 1
    BY <1>1, <2>1, <2>2, InnerStep DEF Early
  <2>3. CASE j \in 2 .. Len(P) - 2
    <3>1. P[j].op \in InnerOps
      BY <1>1, <2>1, <2>3, InnerStep DEF WellFormed
    <3>2. CASE Free(P[j])
      BY <3>2 DEF Early
    <3>3. CASE j = pc
      BY <1>2, <1>7, <3>3 DEF Early
    <3>4. CASE ~Free(P[j]) /\ j # pc
      <4>1. Phase(P[j]) =< Phase(P[pc])
        BY <1>1, <1>2, <2>1, <3>1, <3>4, InOrder
      <4>2. QED BY <1>2, <4>1 DEF Early
    <3>5. QED BY <3>2, <3>3, <3>4
  <2>4. QED BY <2>1, <2>2, <2>3
<1>10. etc[SkelFile] = Content("file", cfg)
  <2>1. k \in Before /\ P[k].op = "file" /\ P[k].arg.path = SkelFile
    BY <1>1, <1>4, <1>6, <1>8 DEF Before
  <2>2. QED BY <1>9, <2>1 DEF SkelInv, HasSkel
<1>11. SkelFile \in Files /\ Content("file", cfg) # Nothing
  BY <1>1, <1>4 DEF Files, Content, Nothing
<1>12. QED BY <1>10, <1>11 DEF SkelNow

LEMMA UserMadeKept ==
  ASSUME NEW u, NEW homes, cfg' = cfg, UserMade(u, homes), Named(users, u.name)' = Named(users, u.name),
         \A i \in Named(users, u.name) :
           /\ users'[i].uid = users[i].uid
           /\ users'[i].home = users[i].home \/ (OwnSkel => users'[i].home \in {Nothing, Content("file", cfg)})
  PROVE  UserMade(u, homes)'
<1>1. OwnSkel' = OwnSkel
  BY DEF OwnSkel, C
<1>2. QED BY <1>1 DEF UserMade

(* A new user, after the others.                                           *)
LEMMA UserAppended ==
  ASSUME TypeOK, cfg' = cfg, NEW u \in UserRecords, users' = Append(users, u), Named(users, u.name) = {}
  PROVE  /\ Named(users, u.name)' = {Len(users) + 1} /\ users'[Len(users) + 1] = u
         /\ \A v, homes : UserMade(v, homes) => UserMade(v, homes)'
<1>1. /\ Len(users) \in Nat /\ DOMAIN users = 1 .. Len(users)
      /\ DOMAIN users' = 1 .. Len(users) + 1
      /\ \A i \in 1 .. Len(users) : users'[i] = users[i]
      /\ users'[Len(users) + 1] = u
  <2>1. users \in Seq(UserRecords)
    BY DEF TypeOK
  <2>2. /\ users' \in Seq(UserRecords) /\ Len(users') = Len(users) + 1
        /\ \A i \in 1 .. Len(users) : users'[i] = users[i]
        /\ users'[Len(users) + 1] = u
    BY <2>1, AppendProperties
  <2>3. QED BY <2>1, <2>2, LenProperties
<1>2. Named(users, u.name)' = {Len(users) + 1}
  BY <1>1 DEF Named
<1>3. ASSUME NEW v, NEW homes, UserMade(v, homes) PROVE UserMade(v, homes)'
  <2>1. v.name # u.name
    BY <1>3 DEF UserMade
  <2>2. Named(users, v.name)' = Named(users, v.name)
    BY <1>1, <2>1 DEF Named
  <2>3. \A i \in Named(users, v.name) : users'[i] = users[i]
    BY <1>1 DEF Named
  <2>4. QED BY <1>3, <2>2, <2>3, UserMadeKept
<1>4. QED BY <1>1, <1>2, <1>3

LEMMA UserCommandMade ==
  ASSUME TypeOK, AgreeInv, SkelInv, UserInv, UserCommand, Moved
  PROVE  UserInv'
<1>1. /\ Running /\ pc \in 1 .. Len(P) /\ Len(P) \in Nat /\ cfg' = cfg /\ P' = P /\ At("user") /\ sub = "start"
      /\ cfg \in DOMAIN Configurations /\ C \in Range(Configurations)
  BY StepFacts, ProgramNow DEF TypeOK, Moved, UserCommand
<1>2. Arg.name \in UserNames /\ Arg.uid \in Uids /\ SkelNow \in Contents /\ Nothing \in Contents
  BY <1>1, ArgTypes, ContentTypes
<1>3. OwnSkel => SkelNow = Content("file", cfg)
  BY <1>1, SkelReady
<1>4. \A i \in DOMAIN users : users[i] \in UserRecords
  BY LenProperties DEF TypeOK
<1>5. CASE pc' = 0
  <2>1. sub' = "start"
    BY <1>1, <1>5 DEF UserCommand, Fail, Goto, Part, Failed
  <2>2. QED BY <1>5, <2>1 DEF UserInv, Before, UserSubs
<1>6. CASE pc' = pc /\ Named(passwd, Arg.name) = {}
  <2>1. /\ Named(users, Arg.name) = {} /\ sub' = "created"
        /\ users' = Append(users, [name |-> Arg.name, uid |-> Arg.uid, home |-> SkelNow])
    BY <1>1, <1>6 DEF UserCommand, Part, Fail, Goto, Failed
  <2> DEFINE u == [name |-> Arg.name, uid |-> Arg.uid, home |-> SkelNow]
  <2>2. u \in UserRecords /\ u.name = Arg.name /\ u.uid = Arg.uid /\ u.home = SkelNow
    BY <1>2 DEF UserRecords
  <2>3. users' = Append(users, u)
    BY <2>1
  <2> HIDE DEF u
  <2>4. /\ Named(users, Arg.name)' = {Len(users) + 1} /\ users'[Len(users) + 1] = u
        /\ \A v, homes : UserMade(v, homes) => UserMade(v, homes)'
    <3>1. Arg' = Arg
      BY <1>1, <1>6 DEF Arg
    <3>2. QED BY <1>1, <2>1, <2>2, <2>3, <3>1, UserAppended
  <2>5. Arg' = Arg /\ Before' = Before /\ OwnSkel' = OwnSkel
    BY <1>1, <1>6 DEF Arg, Before, OwnSkel, C
  <2>6. UserMade(Arg, sub = "created")'
    BY <1>1, <1>3, <2>1, <2>2, <2>4, <2>5 DEF UserMade
  <2>7. \A k \in Before : P[k].op = "user" => UserMade(P[k].arg, TRUE)'
    BY <1>1, <2>4 DEF UserInv
  <2>8. QED BY <1>1, <2>5, <2>6, <2>7 DEF UserInv
<1>7. CASE pc' = pc /\ Named(passwd, Arg.name) # {}
  <2>1. /\ sub' = "modified"
        /\ users' = [i \in DOMAIN users |->
                       IF users[i].name = Arg.name THEN [users[i] EXCEPT !.uid = Arg.uid] ELSE users[i]]
    BY <1>1, <1>7 DEF UserCommand, Part
  <2>2. ASSUME NEW i \in DOMAIN users
        PROVE  /\ users'[i].name = users[i].name /\ users'[i].home = users[i].home
               /\ users'[i].uid = IF users[i].name = Arg.name THEN Arg.uid ELSE users[i].uid
    BY <1>4, <2>1 DEF UserRecords
  <2>3. \A name : Named(users, name)' = Named(users, name)
    BY <2>1, <2>2 DEF Named
  <2>4. Arg' = Arg /\ Before' = Before /\ OwnSkel' = OwnSkel
    BY <1>1, <1>7 DEF Arg, Before, OwnSkel, C
  <2>5. UserMade(Arg, sub = "created")'
    <3>1. pc > 1 /\ sub \notin UserSubs
      BY <1>1, StepFacts DEF UserSubs, At, TypeOK
    <3>2. Named(users, Arg.name) # {}
      BY <1>7, <3>1, SameLookup DEF AgreeInv
    <3>3. \A i \in Named(users, Arg.name) : users'[i].uid = Arg.uid
      BY <2>2 DEF Named
    <3>4. QED BY <1>1, <2>1, <2>3, <2>4, <3>2, <3>3 DEF UserMade
  <2>6. ASSUME NEW k \in Before, P[k].op = "user" PROVE UserMade(P[k].arg, TRUE)'
    <3>1. UserMade(P[k].arg, TRUE)
      BY <2>6 DEF UserInv
    <3>2. k \in 1 .. Len(P) /\ k < pc
      BY <1>1 DEF Before
    <3>3. P[k].arg \in Range(C.users) /\ Arg \in Range(C.users)
      <4>1. P[k].op \in InnerOps /\ P[k].op # "write"
        BY <2>6 DEF InnerOps
      <4>2. WellFormed(C, P[k])
        BY <1>1, <3>2, <4>1, InnerStep
      <4>3. QED BY <1>1, <2>6, <4>2, StepFacts DEF WellFormed
    <3>4. P[k].arg.name = Arg.name => P[k].arg.uid = Arg.uid
      BY <1>1, <3>3, ContentsAssumption
    <3>5. ASSUME NEW i \in Named(users, P[k].arg.name)
          PROVE  users'[i].uid = users[i].uid /\ users'[i].home = users[i].home
      BY <2>2, <3>1, <3>4 DEF Named, UserMade
    <3>6. QED BY <1>1, <2>3, <3>1, <3>5, UserMadeKept
  <2>7. QED BY <1>1, <2>4, <2>5, <2>6 DEF UserInv
<1>8. QED
  <2>1. pc' \in {pc, 0}
    BY DEF UserCommand, Part, Fail, Goto, Failed
  <2>2. QED BY <1>5, <1>6, <1>7, <2>1

LEMMA UserRestMade ==
  ASSUME TypeOK, SkelInv, UserInv, UserRest, Moved
  PROVE  UserInv'
<1>1. /\ Running /\ pc \in 1 .. Len(P) /\ Len(P) \in Nat /\ cfg' = cfg /\ P' = P /\ At("user") /\ sub \in UserSubs
      /\ pc' = pc + 1 /\ sub' = "start"
  BY StepFacts, ProgramNow DEF TypeOK, Moved, UserRest, UserSubs, Advance, Goto
<1>2. OwnSkel => SkelNow = Content("file", cfg)
  BY <1>1, SkelReady
<1>3. users' = [i \in DOMAIN users |->
                  IF users[i].name = Arg.name /\ sub = "modified" THEN CopySkel(users[i]) ELSE users[i]]
  BY DEF UserRest
<1>4. ASSUME NEW i \in DOMAIN users
      PROVE  /\ users'[i].name = users[i].name /\ users'[i].uid = users[i].uid
             /\ users'[i].home \in {users[i].home, SkelNow}
             /\ sub = "modified" /\ users[i].name = Arg.name => users'[i].home \in {Nothing, SkelNow}
  <2>1. users[i] \in UserRecords
    BY LenProperties DEF TypeOK
  <2>2. /\ CopySkel(users[i]).name = users[i].name /\ CopySkel(users[i]).uid = users[i].uid
        /\ CopySkel(users[i]).home \in {Nothing, SkelNow} /\ CopySkel(users[i]).home \in {users[i].home, SkelNow}
    BY <2>1 DEF CopySkel, UserRecords
  <2>3. QED BY <1>3, <2>2
<1>5. \A name : Named(users, name)' = Named(users, name)
  BY <1>3, <1>4 DEF Named
<1>6. ASSUME NEW k \in Before', P[k].op = "user" PROVE UserMade(P[k].arg, TRUE)'
  <2>1. k \in Before \/ k = pc
    BY <1>1 DEF Before
  <2>2. CASE k \in Before
    <3>1. UserMade(P[k].arg, TRUE)
      BY <1>6, <2>2 DEF UserInv
    <3>2. ASSUME NEW i \in Named(users, P[k].arg.name)
          PROVE  /\ users'[i].uid = users[i].uid
                 /\ users'[i].home = users[i].home \/ (OwnSkel => users'[i].home \in {Nothing, Content("file", cfg)})
      BY <1>2, <1>4 DEF Named
    <3>3. QED BY <1>1, <1>5, <3>1, <3>2, UserMadeKept
  <2>3. CASE k = pc
    <3>1. P[k].arg = Arg /\ UserMade(Arg, sub = "created")
      BY <1>1, <2>3 DEF Arg, UserInv
    <3>2. ASSUME NEW i \in Named(users, Arg.name)
          PROVE  /\ users'[i].uid = Arg.uid
                 /\ OwnSkel => users'[i].home \in {Nothing, Content("file", cfg)}
      <4>1. i \in DOMAIN users /\ users[i].name = Arg.name /\ users[i].uid = Arg.uid
        BY <3>1 DEF Named, UserMade
      <4>2. sub = "created" /\ OwnSkel => users[i].home \in {Nothing, Content("file", cfg)}
        BY <3>1 DEF UserMade
      <4>3. QED BY <1>1, <1>2, <1>4, <4>1, <4>2 DEF UserSubs
    <3>3. Named(users, Arg.name) # {}
      BY <3>1 DEF UserMade
    <3>4. OwnSkel' = OwnSkel
      BY <1>1 DEF OwnSkel, C
    <3>5. QED BY <1>1, <1>5, <3>1, <3>2, <3>3, <3>4 DEF UserMade
  <2>4. QED BY <2>1, <2>2, <2>3
<1>7. QED BY <1>1, <1>6 DEF UserInv, UserSubs

LEMMA UserStep ==
  ASSUME TypeOK, AgreeInv, SkelInv, UserInv, Step
  PROVE  UserInv'
<1>1. /\ Moved /\ SubOK /\ pc \in 1 .. Len(P) /\ Len(P) \in Nat /\ (At("pacman") <=> pc = 1)
      /\ P' = P /\ cfg' = cfg
  BY StepMoves, StepFacts, ProgramNow DEF TypeOK, Moved
<1>2. CASE UserCommand
  BY <1>1, <1>2, UserCommandMade
<1>3. CASE UserRest
  BY <1>1, <1>3, UserRestMade
<1>4. CASE At("pacman") /\ pc' = pc + 1 /\ sub' = "start"
  <2>1. Before' = {1} /\ P[1].op = "pacman"
    BY <1>1, <1>4 DEF Before, At
  <2>2. QED BY <1>1, <1>4, <2>1 DEF UserInv, UserSubs
<1>5. CASE ~At("user") /\ users' = users /\ sub' \notin UserSubs
  <2>1. ASSUME NEW k \in Before', P[k].op = "user" PROVE UserMade(P[k].arg, TRUE)'
    <3>1. k \in Before
      <4>1. P[pc].op # "user"
        BY <1>1, <1>5 DEF At, Moved
      <4>2. k # pc
        BY <2>1, <4>1
      <4>3. QED BY <1>1, <4>2 DEF Moved, Before
    <3>2. UserMade(P[k].arg, TRUE)
      BY <2>1, <3>1 DEF UserInv
    <3>3. Named(users, P[k].arg.name)' = Named(users, P[k].arg.name)
      BY <1>1, <1>5 DEF Named
    <3>4. QED BY <1>1, <1>5, <3>2, <3>3, UserMadeKept
  <2>2. QED BY <1>1, <1>5, <2>1 DEF UserInv
<1>6. PacmanInstalls \/ PacmanHasNothing => At("pacman") /\ pc' = pc + 1 /\ sub' = "start"
  BY DEF PacmanInstalls, PacmanHasNothing, Advance, Goto
<1>7. ProcGroup => ~At("user") /\ users' = users /\ sub' \notin UserSubs
  BY DEF ProcGroup, At, Advance, Goto, UserSubs
<1>8. QED BY <1>1, <1>2, <1>3, <1>4, <1>5, <1>6, <1>7, AccountCases

(* The steps on the units, the locales and the time zone.                  *)
LEMMA SystemCases ==
  ASSUME SubOK, Step
  PROVE  \/ Systemctl /\ pc' = pc + 1 /\ UNCHANGED <<archive, localtime>>
         \/ LocaleArchive /\ pc' = pc + 1 /\ UNCHANGED <<units, target, localtime>>
         \/ SetTimezone /\ pc' = pc + 1 /\ UNCHANGED <<units, target, archive>>
         \/ /\ UNCHANGED <<units, target, archive, localtime>>
            /\ \A op \in {"enable", "disable", "default", "reset_locale", "timezone"} : ~At(op)
  BY DEF Step, PacmanInstalls, PacmanHasNothing, ProcGroup, UserCommand, UserRest, AddFile, PassOver, RunScript,
         RemoveFile, Systemctl, LocaleArchive, SetTimezone, OpenConfig, TruncateFile, WriteFile, StartInitrds,
         NextPreset, MoveHook, WriteFakeHook, RunMkinitcpio, RemoveFakeHook, RestoreHook, KeepRest, Recreating,
         At, Advance, Goto, SubOK, system

LEMMA SystemStep ==
  ASSUME TypeOK, SystemInv, Step
  PROVE  SystemInv'
<1>1. /\ Moved /\ SubOK /\ Running /\ pc \in 1 .. Len(P) /\ Len(P) \in Nat
      /\ P' = P /\ C' = C /\ cfg' = cfg /\ cfg \in DOMAIN Configurations
  BY StepMoves, StepFacts, ProgramNow DEF TypeOK, Moved
<1>2. ASSUME NEW op, Past(op)' PROVE Past(op) \/ (At(op) /\ pc' = pc + 1)
  <2>1. PICK k \in Before' : P[k].op = op
    BY <1>1, <1>2 DEF Past
  <2>2. k \in Before \/ (k = pc /\ pc' = pc + 1)
    BY <1>1, <2>1 DEF Moved, Before
  <2>3. QED BY <1>1, <2>1, <2>2 DEF Past, At
<1>3. ~(Past("disable") /\ At("enable"))
  <2> SUFFICES ASSUME At("enable"), NEW k \in Before, P[k].op = "disable" PROVE FALSE
    BY DEF Past
  <2>1. k \in 1 .. Len(P) /\ k < pc
    BY <1>1 DEF Before
  <2>2. /\ P[k].op \in InnerOps /\ ~Free(P[k]) /\ Phase(P[k]) = Disables
        /\ P[pc].op \in InnerOps /\ ~Free(P[pc]) /\ Phase(P[pc]) = Enables
    BY DEF At, InnerOps, Free, Phase
  <2>3. Phase(P[k]) =< Phase(P[pc])
    BY <1>1, <2>1, <2>2, InOrder
  <2>4. Enables \in Nat /\ Disables \in Nat /\ Enables < Disables
    BY PhaseOrder
  <2>5. QED BY <2>2, <2>3, <2>4
<1> USE DEF SystemInv
<1>4. CASE Systemctl /\ pc' = pc + 1 /\ UNCHANGED <<archive, localtime>>
  <2>1. \/ At("enable") /\ units' = units \cup C.enable /\ target' = target
        \/ At("disable") /\ units' = units \ C.disable /\ target' = target
        \/ At("default") /\ target' = C.default /\ units' = units
    BY <1>4 DEF Systemctl
  <2>2. ~At("reset_locale") /\ ~At("timezone")
    BY <2>1 DEF At
  <2>3. /\ Past("reset_locale")' => Past("reset_locale")
        /\ Past("timezone")' => Past("timezone")
    BY <1>2, <2>2
  <2>4. CASE At("enable") /\ units' = units \cup C.enable /\ target' = target
    <3>1. ~At("disable") /\ ~At("default")
      BY <2>4 DEF At
    <3>2. ~Past("disable")' /\ (Past("default")' => Past("default"))
      BY <1>2, <1>3, <2>4, <3>1
    <3>3. C.enable \ C.disable \subseteq units'
      BY <2>4
    <3>4. QED BY <1>1, <1>4, <2>3, <2>4, <3>2, <3>3
  <2>5. CASE At("disable") /\ units' = units \ C.disable /\ target' = target
    <3>1. ~At("enable") /\ ~At("default")
      BY <2>5 DEF At
    <3>2. (Past("enable")' => Past("enable")) /\ (Past("default")' => Past("default"))
      BY <1>2, <3>1
    <3>3. C.disable \cap units' = {} /\ (C.enable \ C.disable \subseteq units => C.enable \ C.disable \subseteq units')
      BY <2>5
    <3>4. QED BY <1>1, <1>4, <2>3, <2>5, <3>2, <3>3
  <2>6. CASE At("default") /\ target' = C.default /\ units' = units
    <3>1. ~At("enable") /\ ~At("disable")
      BY <2>6 DEF At
    <3>2. (Past("enable")' => Past("enable")) /\ (Past("disable")' => Past("disable"))
      BY <1>2, <3>1
    <3>3. QED BY <1>1, <1>4, <2>3, <2>6, <3>2
  <2>7. QED BY <2>1, <2>4, <2>5, <2>6
<1>5. CASE LocaleArchive /\ pc' = pc + 1 /\ UNCHANGED <<units, target, localtime>>
  <2>1. archive' \in {0, cfg} /\ (At("reset_locale") \/ At("locale-gen"))
    BY <1>5 DEF LocaleArchive
  <2>2. \A op \in {"enable", "disable", "default", "timezone"} : ~At(op)
    BY <2>1 DEF At
  <2>3. \A op \in {"enable", "disable", "default", "timezone"} : Past(op)' => Past(op)
    BY <1>2, <2>2
  <2>4. QED BY <1>1, <1>5, <2>1, <2>3
<1>6. CASE SetTimezone /\ pc' = pc + 1 /\ UNCHANGED <<units, target, archive>>
  <2>1. localtime' = C.zone /\ At("timezone")
    BY <1>6 DEF SetTimezone
  <2>2. \A op \in {"enable", "disable", "default", "reset_locale"} : ~At(op)
    BY <2>1 DEF At
  <2>3. \A op \in {"enable", "disable", "default", "reset_locale"} : Past(op)' => Past(op)
    BY <1>2, <2>2
  <2>4. QED BY <1>1, <1>6, <2>1, <2>3
<1>7. CASE /\ UNCHANGED <<units, target, archive, localtime>>
           /\ \A op \in {"enable", "disable", "default", "reset_locale", "timezone"} : ~At(op)
  <2>1. \A op \in {"enable", "disable", "default", "reset_locale", "timezone"} : Past(op)' => Past(op)
    BY <1>2, <1>7
  <2>2. QED BY <1>1, <1>7, <2>1
<1>8. QED BY <1>1, <1>4, <1>5, <1>6, <1>7, SystemCases

ConfiguredInv == WrittenInv /\ OwnedInv /\ AgreeInv /\ SkelInv /\ UserInv /\ SystemInv

LEMMA NothingYet ==
  ASSUME pc \in {0, 1}, sub = "start"
  PROVE  ConfiguredInv
<1>1. Before = {} /\ ~(pc > 1)
  BY DEF Before
<1>2. QED BY <1>1 DEF ConfiguredInv, WrittenInv, OwnedInv, AgreeInv, SkelInv, HasSkel, UserInv, SystemInv, Past, UserSubs

LEMMA ConfiguredNext ==
  ASSUME TypeOK, ConfiguredInv, [Next]_vars
  PROVE  ConfiguredInv'
<1>1. CASE Step
  BY <1>1, WrittenStep, OwnedStep, AgreeStep, SkelStep, UserStep, SystemStep DEF ConfiguredInv
<1>2. CASE Between
  <2>1. pc' \in {0, 1} /\ sub' = "start"
    BY <1>2 DEF Between
  <2>2. Before' = {} /\ ~(pc' > 1)
    <3>1. Before' = 1 .. pc' - 1
      BY DEF Before
    <3>2. 1 .. 0 - 1 = {} /\ 1 .. 1 - 1 = {} /\ ~(0 > 1) /\ ~(1 > 1)
      OBVIOUS
    <3>3. QED BY <2>1, <3>1, <3>2
  <2>3. QED BY <2>1, <2>2 DEF ConfiguredInv, WrittenInv, OwnedInv, AgreeInv, SkelInv, HasSkel, UserInv, SystemInv,
                              Past, UserSubs
<1>3. CASE UNCHANGED vars
  <2>1. /\ UNCHANGED <<etc, dist, owner, users, groups, passwd, units, target, archive, localtime, cfg, runs, pc, sub>>
        /\ C' = C /\ P' = P
    BY <1>3 DEF vars, tree, accounts, system, run, C, P
  <2>2. Before' = Before /\ Arg' = Arg
    BY <2>1 DEF Before, Arg
  <2>3. WrittenInv' /\ OwnedInv'
    BY <2>1, <2>2 DEF ConfiguredInv, WrittenInv, OwnedInv, LastYet, Writes, Opening, Owned, UserOf, Lookup, Named
  <2>4. AgreeInv' /\ SkelInv' /\ SystemInv'
    BY <2>1, <2>2 DEF ConfiguredInv, AgreeInv, Agree, SkelInv, HasSkel, SystemInv, Past
  <2>5. UserInv'
    BY <2>1, <2>2 DEF ConfiguredInv, UserInv, UserMade, Named, OwnSkel
  <2>6. QED BY <2>3, <2>4, <2>5 DEF ConfiguredInv
<1>4. QED BY <1>1, <1>2, <1>3, NextCases

(* At the end every step is before.                                        *)
LEMMA ConfiguredDone ==
  ASSUME TypeOK, ConfiguredInv, Done
  PROVE  DoneIsAsConfigured
<1>1. /\ cfg \in DOMAIN Configurations /\ Len(P) \in Nat /\ DOMAIN P = 1 .. Len(P) /\ IsSequence(P)
      /\ HasAll(C, P) /\ users \in Seq(UserRecords)
  BY ProgramNow DEF TypeOK, ProgramOf
<1>2. Before = DOMAIN P /\ ~Running
  BY <1>1 DEF Before, Done, Running
<1>3. ASSUME NEW x \in Range(P) PROVE \E k \in Before : P[k] = x
  BY <1>2 DEF Range
<1>4. ASSUME NEW p \in Files, NEW i \in LastWriter(p)
      PROVE  IF P[i].op = "file"
             THEN /\ etc[p] = Content("file", cfg)
                  /\ P[i].arg.stage # "pre-user" /\ Named(users, P[i].arg.owner) # {}
                       => owner[p] = UserOf(P[i].arg.owner).uid
             ELSE etc[p] = Content("generated", cfg)
  <2>1. i \in Before /\ LastYet(i, p)
    BY <1>2 DEF LastWriter, LastYet, Writes
  <2>2. ~Opening(p)
    BY <1>2 DEF Opening, TypeOK, SubOK, At
  <2>3. etc[p] = Content(IF P[i].op = "file" THEN "file" ELSE "generated", cfg)
    BY <2>1, <2>2 DEF ConfiguredInv, WrittenInv
  <2>4. Owned(i) => owner[p] = UserOf(P[i].arg.owner).uid
    BY <2>1 DEF ConfiguredInv, OwnedInv
  <2>5. QED BY <2>3, <2>4 DEF Owned
<1>5. ASSUME NEW u \in Range(C.users)
      PROVE  /\ Named(users, u.name) # {} /\ UserOf(u.name).uid = u.uid
             /\ \A f \in Range(C.files) :
                   f.path = SkelFile /\ f.stage = "pre-user"
                       => UserOf(u.name).home \in {Nothing, Content("file", cfg)}
  <2>1. PICK k \in Before : P[k] = StepOf("user", u)
    BY <1>1, <1>3 DEF HasAll
  <2>2. P[k].op = "user" /\ P[k].arg = u
    BY <2>1 DEF StepOf
  <2>3. UserMade(u, TRUE)
    BY <2>2 DEF ConfiguredInv, UserInv
  <2>4. Named(users, u.name) # {}
    BY <2>3 DEF UserMade
  <2>5. PICK i \in Named(users, u.name) : UserOf(u.name) = users[i]
    BY <1>1, <2>4, LookupFacts DEF UserOf
  <2>6. QED BY <2>3, <2>4, <2>5 DEF UserMade, OwnSkel
<1>6. /\ C.enable \ C.disable \subseteq units /\ C.disable \cap units = {}
      /\ C.default \in {"none", target}
      /\ archive \in {0, cfg} /\ localtime = C.zone
  <2>1. ASSUME NEW op, \E x \in Range(P) : x.op = op PROVE Past(op)
    BY <1>3, <2>1 DEF Past
  <2>2. /\ C.enable # {} => Past("enable")
        /\ C.disable # {} => Past("disable")
        /\ C.default # "none" => Past("default")
        /\ Past("reset_locale") /\ Past("timezone")
    BY <1>1, <2>1 DEF HasAll
  <2>3. QED BY <2>2 DEF ConfiguredInv, SystemInv
<1>7. QED BY <1>4, <1>5, <1>6 DEF DoneIsAsConfigured

(* A run that succeeds leaves what its configuration says, whatever runs   *)
(* before it left: the files of their last writer and of the uid their     *)
(* owner has, users, homes, units, locales, time zone (build_rootfs).      *)
THEOREM TheConfigurationIsThere == Spec => []DoneIsAsConfigured
<1> DEFINE Inv == TypeOK /\ ConfiguredInv
<1>1. Init => Inv
  <2>1. Init => pc \in {0, 1} /\ sub = "start"
    BY DEF Init
  <2>2. QED BY <2>1, NothingYet, TypeInit
<1>2. Inv /\ [Next]_vars => Inv'
  BY TypeStep, ConfiguredNext
<1>3. Inv => DoneIsAsConfigured
  BY ConfiguredDone DEF DoneIsAsConfigured
<1>4. QED BY <1>1, <1>2, <1>3, PTL DEF Spec

-----------------------------------------------------------------------------
(* How the root file system asks its commands: parse_preset_file, chpasswd *)
(* and their like go through run_external.  For pipes of any size, what it *)
(* returns is all its command has printed.  This is not inductive: it      *)
(* needs what the pipe holds while the command runs, and that it is read   *)
(* only when the command has exited.                                       *)

(* Nothing is taken out of the pipe before the builder reads it.           *)
PipeHoldsAll == want /\ call # "returned" => outpipe = printed

(* The command exits when it has printed everything.                       *)
ExitIsLast == exited => printed = output

(* The builder reads and returns only after that.                          *)
WaitedFirst == call \in {"read", "returned"} => exited

(* Only a call with a stdin argument writes.                               *)
WritesItsInput == call = "write" => input \in 0 .. MaxInput

CallInv ==
  /\ CallTypeOK
  /\ WritesItsInput
  /\ PipeHoldsAll
  /\ ExitIsLast
  /\ WaitedFirst
  /\ OutputIsComplete

(* A call that has not begun satisfies the invariant.                      *)
LEMMA CallStarts == CallInit => CallInv
<1> SUFFICES ASSUME CallInit PROVE CallInv
  OBVIOUS
<1> USE RunExternalAssumption
<1>1. reads \in BOOLEAN /\ eof \in BOOLEAN /\ exited \in BOOLEAN
  BY Zenon DEF CallInit
<1>2. CallTypeOK
  BY <1>1 DEF CallInit, CallTypeOK, NoInput
<1>3. WritesItsInput
  BY DEF CallInit, WritesItsInput, NoInput
<1>4. PipeHoldsAll /\ ExitIsLast /\ WaitedFirst /\ OutputIsComplete
  BY DEF CallInit, PipeHoldsAll, ExitIsLast, WaitedFirst, OutputIsComplete
<1>5. QED BY <1>2, <1>3, <1>4 DEF CallInv

(* Every step of the builder, the command or the daemon keeps it.          *)
LEMMA CallKeeps == ASSUME CallInv, [CallNext]_callVars PROVE CallInv'
<1> USE RunExternalAssumption
    DEF CallInv, CallTypeOK, WritesItsInput, PipeHoldsAll, ExitIsLast, WaitedFirst, OutputIsComplete, NoInput, config
<1>1. CASE Write
  BY <1>1 DEF Write
<1>2. CASE CloseStdin
  BY <1>2 DEF CloseStdin
<1>3. CASE Wait
  \* without want_stdout the call returns with nothing to read
  BY <1>3 DEF Wait
<1>4. CASE Read
  \* the command has exited, so that the pipe holds all of its output
  BY <1>4 DEF Read
<1>5. CASE CommandReads
  BY <1>5 DEF CommandReads
<1>6. CASE CommandPrints
  BY <1>6 DEF CommandPrints
<1>7. CASE CommandForks
  BY <1>7 DEF CommandForks
<1>8. CASE CommandExits
  BY <1>8 DEF CommandExits
<1>9. CASE DaemonExits
  BY <1>9 DEF DaemonExits
<1>10. CASE UNCHANGED callVars
  BY <1>10 DEF callVars
<1>11. QED
  BY <1>1, <1>2, <1>3, <1>4, <1>5, <1>6, <1>7, <1>8, <1>9, <1>10
  DEF CallNext, Builder, Command

(* Every reachable state satisfies the strengthening; with it no pipe ever *)
(* holds more than Capacity, and no counter passes its argument.           *)
THEOREM CallIsKept == CallSpec => []CallInv
<1>1. CallInit => CallInv
  BY CallStarts
<1>2. CallInv /\ [CallNext]_callVars => CallInv'
  BY CallKeeps
<1>3. QED BY <1>1, <1>2, PTL DEF CallSpec

(* What a call with want_stdout returns is the whole output of the command,*)
(* however the steps of both interleave and whatever the pipes hold.       *)
THEOREM ReturnsAll == CallSpec => []OutputIsComplete
<1>1. CallInv => OutputIsComplete
  BY DEF CallInv
<1>2. QED BY <1>1, CallIsKept, PTL
=============================================================================
