--------------------------- MODULE ParticleLedger ---------------------------
(***************************************************************************)
(* What the release drivers promise about every particle, without saying   *)
(* how: it is released once, stays afloat until it is either beached or    *)
(* has outlived its horizon, its fate is then final, and only a beached    *)
(* particle is archived on disk, at most once.                             *)
(***************************************************************************)
CONSTANT Particles    \* everything that may ever be released

VARIABLES fate,       \* what has become of each particle
          archived    \* the particles whose record is durable

ledgerVars == <<fate, archived>>

Fates == {"unreleased", "afloat", "landed", "expired"}

LedgerTypeOK ==
  /\ fate \in [Particles -> Fates]
  /\ archived \subseteq Particles

LedgerInit ==
  /\ fate = [p \in Particles |-> "unreleased"]
  /\ archived = {}

\* A batch of particles is put to sea.
Release(S) ==
  /\ \A p \in S : fate[p] = "unreleased"
  /\ fate' = [p \in Particles |-> IF p \in S THEN "afloat" ELSE fate[p]]
  /\ UNCHANGED archived

\* One particle reaches the coast.
Land(p) ==
  /\ fate[p] = "afloat"
  /\ fate' = [fate EXCEPT ![p] = "landed"]
  /\ UNCHANGED archived

\* Particles that have drifted for the whole horizon are given up.
Expire(S) ==
  /\ \A p \in S : fate[p] = "afloat"
  /\ fate' = [p \in Particles |-> IF p \in S THEN "expired" ELSE fate[p]]
  /\ UNCHANGED archived

\* The records of some beached particles become durable, each for the first
\* and only time.
Archive(S) ==
  /\ \A p \in S : fate[p] = "landed"
  /\ S \cap archived = {}
  /\ archived' = archived \cup S
  /\ UNCHANGED fate

LedgerNext ==
  \/ \E S \in SUBSET Particles : Release(S) \/ Expire(S) \/ Archive(S)
  \/ \E p \in Particles : Land(p)

LedgerSpec == LedgerInit /\ [][LedgerNext]_ledgerVars

=============================================================================
