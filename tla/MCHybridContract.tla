-------------------------- MODULE MCHybridContract --------------------------
(***************************************************************************)
(* The hybrid contract over the curve of MCLadder.  Every byte is a share: *)
(* its six low bits are the field's, the two others are the unused ones.   *)
(***************************************************************************)
EXTENDS HybridContract, X301

OrAbsent(v) == IF v = None THEN Absent ELSE v

CanonTable == [e \in RawPublics |-> CanonicalizePublicEncoding(e)]
PublicTable == [s \in RawSecrets |-> OrAbsent(PublicFromSecret(s))]
SharedTable == [s \in RawSecrets, u \in Publics |-> OrAbsent(SharedSecret(s, u))]
MCCanon(e) == CanonTable[e]
MCPublicOf(s) == PublicTable[s]
MCShared(s, u) == SharedTable[s, u]

MCRawPublics == 0 .. 255
MCPublics == 0 .. 58
MCAliasMasks == <<64, 128, 192>>
=============================================================================
