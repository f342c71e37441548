---------------------------- MODULE MCHybridKem -----------------------------
(***************************************************************************)
(* The hybrid KEM over the curve of MCLadder: the secrets 0 and 40 have    *)
(* the public keys 50 and 33, 114 is an alias of 50, and 1 is a point of   *)
(* order four, with which every derivation fails.                          *)
(***************************************************************************)
EXTENDS HybridKem, X301, TLC

OrAbsent(v) == IF v = None THEN Absent ELSE v

\* Tables, so that TLC computes each value of the curve functions once.
CanonTable == [e \in RawPublics |-> CanonicalizePublicEncoding(e)]
PublicTable == [s \in RawSecrets |-> OrAbsent(PublicFromSecret(s))]
SharedTable == [s \in RawSecrets, u \in Publics |-> OrAbsent(SharedSecret(s, u))]
MCCanon(e) == CanonTable[e]
MCPublicOf(s) == PublicTable[s]
MCShared(s, u) == SharedTable[s, u]

Symmetry ==
  Permutations(Keys) \cup Permutations(Contexts) \cup Permutations(Pairs)
    \cup Permutations(Providers)
=============================================================================
