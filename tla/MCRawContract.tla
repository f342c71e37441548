--------------------------- MODULE MCRawContract ----------------------------
(***************************************************************************)
(* The contract program on the curve of MCLadder, with every coordinate    *)
(* and aliases of each kind.  The expected values are multiples of         *)
(* MontgomeryReference, not results of the ladder the provider uses.       *)
(***************************************************************************)
EXTENDS RawContract, X301
Reference == INSTANCE MontgomeryReference

OrAbsent(v) == IF v = None THEN Absent ELSE v
CanonTable == [e \in RawPublics |-> CanonicalizePublicEncoding(e)]
PublicTable == [s \in RawSecrets |-> OrAbsent(PublicFromSecret(s))]
SharedTable == [s \in RawSecrets, u \in Publics |-> OrAbsent(SharedSecret(s, u))]
MCCanon(e) == CanonTable[e]
MCPublicOf(s) == PublicTable[s]
MCShared(s, u) == SharedTable[s, u]

\* The u coordinate of a multiple; zero and the point at infinity are refused.
Expected(s, u) ==
  LET q == Reference!Multiple(ClampScalar(s), u) IN IF q.inf \/ q.u = 0 THEN Absent ELSE q.u
BaseU == Reference!Div(1 + BASE_Y, 1 - BASE_Y)
ExpectedShared == [s \in RawSecrets, u \in Publics |-> Expected(s, u)]

\* The known answers the program is compiled with.
ASSUME KnownAnswers ==
  /\ PUBLIC_A = Expected(SECRET_A, BaseU) /\ PUBLIC_B = Expected(SECRET_B, BaseU)
  /\ TEST_RAND_PUBLIC = Expected(TEST_RAND_SEED, BaseU)
  /\ SHARED_AA = Expected(SECRET_A, PUBLIC_A)
  /\ SHARED_AB = Expected(SECRET_A, PUBLIC_B) /\ SHARED_AB = Expected(SECRET_B, PUBLIC_A)

MCSmallOrder == <<0, 1, P - 1>>
MCAliasMasks == <<64, 128, 192>>

\* W1-W6: valid, refused and malformed inputs, for all encodings.
Corpus ==
  {[secret |-> s, public |-> e, output |-> ExpectedShared[s, canonicalize_public_oracle(e)]] :
      s \in RawSecrets, e \in RawPublics}
  \cup {[secret |-> s, public |-> Absent, output |-> Expected(s, BaseU)] : s \in RawSecrets}
  \cup {[secret |-> Malformed, public |-> Absent, output |-> Absent],
        [secret |-> SECRET_A, public |-> Malformed, output |-> Absent]}

MCVectors == Corpus

MCRawPublics == 0 .. 68 \cup 122 .. 132 \cup {97, 114, 161, 178, 225, 242, 251, 255}
MCPublics == 0 .. P - 1
MCSelections == {ALL, KEYPAIR, {"private"}, {"public"}, {"public", "domain"}}

MCKeys == {"private_a", "private_b", "public_a", "public_b", "temporary", "alias", "canonical",
           "second", "keypair", "generated", "peer", "exported"}
MCExchanges == {"context", "second"} \cup Workers
=============================================================================
