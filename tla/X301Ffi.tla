------------------------------- MODULE X301Ffi ------------------------------
(***************************************************************************)
(* The Rust side of the key objects, x301_ffi.rs: what each extern "C"     *)
(* operation computes from the key or exchange it is given.  An operation  *)
(* that refuses its input returns the object it was given, unchanged; a    *)
(* query answers FALSE.                                                    *)
(***************************************************************************)
CONSTANTS
  RawSecrets,       \* 38-byte secrets, before clamping
  RawPublics,       \* 38-byte public encodings, canonical or not
  Publics,          \* the canonical ones
  Absent,           \* None
  Canon(_),         \* canonicalize_public_encoding
  PublicOf(_),      \* public_from_secret; Absent when it fails
  Shared(_, _)      \* shared_secret; Absent when it fails

\* What x301.rs provides (the module X301 is an instance): an encoding has one
\* canonical form, and public keys are computed in that form.
ASSUME CurveAssumption ==
  /\ Absent \notin RawSecrets /\ Absent \notin RawPublics
  /\ Publics \subseteq RawPublics
  /\ \A e \in RawPublics : Canon(e) \in Publics
  /\ \A u \in Publics : Canon(u) = u
  /\ \A s \in RawSecrets : PublicOf(s) \in Publics \cup {Absent}

\* Diffie-Hellman over a group of prime order: two secrets that have public
\* keys lead to one and the same point, which is not the neutral one.
ASSUME AgreementAssumption ==
  \A s, t \in RawSecrets : PublicOf(s) # Absent /\ PublicOf(t) # Absent =>
    Shared(s, PublicOf(t)) = Shared(t, PublicOf(s)) /\ Shared(s, PublicOf(t)) # Absent

Key == [private : RawSecrets \cup {Absent}, public : Publics \cup {Absent}]
Exchange == [private : RawSecrets \cup {Absent}, peer : Publics \cup {Absent}]

NewKey == [private |-> Absent, public |-> Absent]
NewExchange == [private |-> Absent, peer |-> Absent]

\* Fault: the encoding is kept as it was given.
ReadOptionalPublic_Verbatim(e) == e

\* read_optional_public: an encoding is canonicalised where it is read.
ReadOptionalPublic(e) == IF e = Absent THEN Absent ELSE Canon(e)

\* Whether key_import accepts: something is there, a private key has a public
\* key, and a public key given with it is that one.
ImportAccepts(secret, e) ==
  /\ secret # Absent \/ e # Absent
  /\ secret # Absent => PublicOf(secret) # Absent
  /\ secret # Absent /\ e # Absent => PublicOf(secret) = ReadOptionalPublic(e)

\* Fault: components that are not given keep their old value.
Import_Merges(key, secret, e) ==
  IF ImportAccepts(secret, e)
  THEN [private |-> IF secret # Absent THEN secret ELSE key.private,
        public |-> IF secret # Absent THEN PublicOf(secret) ELSE ReadOptionalPublic(e)]
  ELSE key

Import(key, secret, e) ==
  IF ImportAccepts(secret, e)
  THEN [private |-> secret,
        public |-> IF secret # Absent THEN PublicOf(secret) ELSE ReadOptionalPublic(e)]
  ELSE key

\* Fault: the public key that is there is not consulted.
SetEncodedPublic_Replaces(key, e) ==
  IF /\ e # Absent
     /\ key.private # Absent =>
          PublicOf(key.private) # Absent /\ PublicOf(key.private) = ReadOptionalPublic(e)
  THEN [key EXCEPT !.public = ReadOptionalPublic(e)] ELSE key

\* Fault: the private key is not consulted.
SetEncodedPublic_IgnoresPrivate(key, e) ==
  IF key.public # Absent => key.public = ReadOptionalPublic(e)
  THEN [key EXCEPT !.public = ReadOptionalPublic(e)] ELSE key

\* The public key can be added to a key that lacks it, and confirmed on one
\* that has it; it cannot be replaced.
SetEncodedPublic(key, e) ==
  IF /\ e # Absent
     /\ key.private # Absent =>
          /\ PublicOf(key.private) # Absent
          /\ PublicOf(key.private) = ReadOptionalPublic(e)
     /\ key.public # Absent => key.public = ReadOptionalPublic(e)
  THEN [key EXCEPT !.public = ReadOptionalPublic(e)] ELSE key

\* key_generate on the drawn secret; Absent stands for the null pointer.
GenerateAccepts(secret) == PublicOf(secret) # Absent
Generate(secret) == [private |-> secret, public |-> PublicOf(secret)]

Duplicate(key, withPrivate, withPublic) ==
  [private |-> IF withPrivate THEN key.private ELSE Absent,
   public |-> IF withPublic THEN key.public ELSE Absent]

Has(key, private, public) ==
  /\ private => key.private # Absent
  /\ public => key.public # Absent

Validate(key, private, public) ==
  /\ private => key.private # Absent /\ PublicOf(key.private) # Absent
  /\ public => key.public # Absent
  /\ private /\ public => PublicOf(key.private) = key.public

Match(first, second, private, public) ==
  /\ private => /\ first.private # Absent /\ second.private # Absent
                /\ first.private = second.private
  /\ public => /\ first.public # Absent /\ second.public # Absent
               /\ first.public = second.public

\* Fault: re-initialisation only replaces the private key.
ExchangeInit_KeepsPeer(exchange, key) ==
  IF key.private # Absent THEN [exchange EXCEPT !.private = key.private] ELSE exchange

\* The whole exchange is replaced, so that no earlier peer is left in it.
ExchangeInit(exchange, key) ==
  IF key.private # Absent THEN [private |-> key.private, peer |-> Absent] ELSE exchange

\* Whether exchange_set_peer accepts.
PeerAccepted(exchange, peer) == exchange.private # Absent /\ peer.public # Absent

\* Fault: a peer that is there already stays.
SetPeer_KeepsFirst(exchange, peer) ==
  IF PeerAccepted(exchange, peer) /\ exchange.peer = Absent
  THEN [exchange EXCEPT !.peer = peer.public] ELSE exchange

SetPeer(exchange, peer) ==
  IF PeerAccepted(exchange, peer) THEN [exchange EXCEPT !.peer = peer.public] ELSE exchange

\* Absent stands for a refusal: no private key, no peer, or an all-zero result.
ExchangeDerive(exchange) ==
  IF exchange.private = Absent \/ exchange.peer = Absent THEN Absent
  ELSE Shared(exchange.private, exchange.peer)
=============================================================================
