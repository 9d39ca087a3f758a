------------------------------ MODULE MCPacman ------------------------------
(* Two databases with a package in both, a cycle of dependencies, one of its *)
(* edges through a provided name, a group, a keyring package, a local file.  *)
EXTENDS Pacman

CONSTANTS k1, k2, k3, k4

MCRepos == <<"core", "extra">>
MCSync == [r \in {"core", "extra"} |->
    IF r = "core" THEN {"base", "bash", "glibc"} ELSE {"glibc", "zsh", "kr", "junk"}]
MCFiles == {Named(FileDb, "own")}

P(r, n) == Named(r, n)
Bare(n) == Named(AnyDb, n)
AllPkgs == UNION {{P(r, n) : n \in MCSync[r]} : r \in {"core", "extra"}} \cup MCFiles

MCDepends == [p \in AllPkgs |->
    CASE p.name = "base" -> <<Bare("sh"), Bare("glibc")>>
      [] p.name = "bash" -> <<Bare("glibc")>>
      [] p = P("core", "glibc") -> <<Bare("sh")>>
      [] p.name = "zsh" -> <<Bare("glibc")>>
      [] p.name = "own" -> <<Bare("glibc")>>
      [] OTHER -> <<>>]
MCProvides == [p \in AllPkgs |-> IF p.name \in {"bash", "zsh"} THEN {"sh"} ELSE {}]
MCGroups == [p \in AllPkgs |-> IF p.name = "junk" THEN {"extras"} ELSE {}]

MCFileName == [p \in AllPkgs |-> <<p.name, IF p = P("extra", "glibc") THEN 2 ELSE 1>>]
MCKeyringOf == [n \in {"kr"} |-> [keys |-> {k3, k4}, trusted |-> <<k3>>, revoked |-> <<k4>>]]
\* the second entry has the higher priority, the first one a key
MCRepoEntries ==
    <<[name |-> "extra", server |-> "url", keyid |-> k2, mirrorlist |-> "others"],
      [name |-> "core", server |-> "url", priority |-> 1]>>
MCTrust == <<k1>>
MCInstall == <<Bare("base"), Bare("glibc"), Bare("extras"), P("extra", "kr"), Named(FileDb, "own")>>
MCUninstall == <<Bare("junk")>>
MCReplaces == <<[old |-> Bare("bash"), new |-> Bare("zsh")]>>

\* what the proofs ask of a configuration
ASSUME MCConfiguration == NamesExist /\ OneVersion /\ ReplacementsStay /\ NothingComesBack
=============================================================================
