----------------------------- MODULE PacmanKey -----------------------------
(***************************************************************************)
(* The keyring of the root file system, etc/pacman.d/gnupg, and what       *)
(* component/pacman_key.py does to it by calling gpg.                      *)
(*                                                                         *)
(* Every operation is the set of its outcomes: the keyring it leaves, and  *)
(* whether it returned (ok) or raised.  Any call of gpg may fail, and one  *)
(* that takes several keys may have taken some of them; an operation is    *)
(* its calls in order (Then), so among its outcomes are the keyrings that  *)
(* a build killed between two calls leaves behind.                         *)
(***************************************************************************)
EXTENDS Naturals, Sequences, FiniteSets, SequencesExt

CONSTANT Keys

NoRing == [trustdb |-> FALSE,       \* trustdb.gpg exists
           master |-> FALSE,        \* the master key is generated
           public |-> {},           \* the keys that are imported
           signed |-> {},           \* those the master key has signed
           disabled |-> {}]

Returns(r) == {[ring |-> r, ok |-> TRUE]}
Raises(r) == {[ring |-> r, ok |-> FALSE]}
Then(outcomes, Op(_)) == UNION {IF o.ok THEN Op(o.ring) ELSE {o} : o \in outcomes}
Swallow(outcomes) == {[ring |-> o.ring, ok |-> TRUE] : o \in outcomes}
ForEach(Op(_, _), r, s) ==
    LET after[i \in 0..Len(s)] ==
            IF i = 0 THEN Returns(r) ELSE Then(after[i - 1], LAMBDA q : Op(q, s[i]))
    IN  after[Len(s)]

\* gpg, gpg_eval: the call took effect or raised, before or after its effect
Gpg(r, after) == Returns(after) \cup Raises(r) \cup Raises(after)

CreateTrustdb(r) == IF r.trustdb THEN Returns(r) ELSE Gpg(r, [r EXCEPT !.trustdb = TRUE])

\* -K lists the secret keys: a master key is made when there is none
CreateMaster(r) == IF r.master THEN Gpg(r, r) ELSE Gpg(r, [r EXCEPT !.master = TRUE])

\* initialize: trustdb, the two configuration files, the master key
Initialize(r) == Then(CreateTrustdb(r), CreateMaster)

\* add_keys_from, recv_keys: some keys may have arrived when the call fails
Import(r, S) ==
    Returns([r EXCEPT !.public = @ \cup S])
        \cup UNION {Raises([r EXCEPT !.public = @ \cup T]) : T \in SUBSET S}

\* lsign_key: gpg needs the key, and the master key to sign with
LsignKey(r, k) ==
    IF r.master /\ k \in r.public THEN Gpg(r, [r EXCEPT !.signed = @ \cup {k}]) ELSE Raises(r)

\* revoke_key_from(fail=True): a key that cannot be disabled is only reported
RevokeKey(r, k) ==
    Swallow(IF k \in r.public THEN Gpg(r, [r EXCEPT !.disabled = @ \cup {k}]) ELSE Raises(r))

\* pouplate_keys: import the keyring, sign its trusted keys, import their owner
\* trust, disable the revoked ones, and update the database
Populate(r, keyring) ==
    Then(Import(r, keyring.keys), LAMBDA imported :
    Then(ForEach(LsignKey, imported, keyring.trusted), LAMBDA trusted :
    Then(Gpg(trusted, trusted), LAMBDA owned :
    Then(ForEach(RevokeKey, owned, keyring.revoked), LAMBDA revoked : Gpg(revoked, revoked)))))

\* MUTANT of TrustAll: a key that cannot be signed is never an error
TrustAllLenient(r, trust, fail) ==
    Then(Swallow(Import(r, Range(trust))), LAMBDA received :
    ForEach(LAMBDA q, k : Swallow(LsignKey(q, k)), received, trust))

\* trust_all of build/pacman.py: a failed receive is only reported; a failed
\* signature is an error unless fail is set
TrustAll(r, trust, fail) ==
    Then(Swallow(Import(r, Range(trust))), LAMBDA received :
    ForEach(LAMBDA q, k : IF fail THEN Swallow(LsignKey(q, k)) ELSE LsignKey(q, k),
            received, trust))

(***************************************************************************)
(* init_keyring of component/pacman.py, for one repository: a remote       *)
(* mirrorlist is fetched into a folder of the workspace that nothing       *)
(* creates, so wget cannot write it; after the import of a public key the  *)
(* code calls self.lsign_key, which Pacman does not have.                  *)
(***************************************************************************)
RepoKey(r, repo) ==
    IF repo.mirrorlist = "remote" THEN Raises(r)
    ELSE IF repo.publickey
    THEN Then(Gpg(r, r), LAMBDA q : Then(Import(q, {repo.keyid}), Raises))
    ELSE IF repo.keyid \in Keys
    THEN Then(Import(r, {repo.keyid}), LAMBDA q : LsignKey(q, repo.keyid))
    ELSE Returns(r)

\* init_keyring: nothing is done for a keyring whose trustdb exists
InitKeyring(r, repos) ==
    IF r.trustdb THEN Returns(r)
    ELSE Then(Initialize(r), LAMBDA q : ForEach(RepoKey, q, repos))

=============================================================================
