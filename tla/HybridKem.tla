------------------------------ MODULE HybridKem -----------------------------
(***************************************************************************)
(* X301MLKEM1024, hybrid_kem.c: hybrid keys, their generation contexts,    *)
(* KEM contexts, and encapsulation and decapsulation one call at a time,   *)
(* with every failure the code tests for.  A buffer of two components is a *)
(* pair: the ML-KEM part, then the X301 part.                              *)
(*                                                                         *)
(* ML-KEM is external: a key pair is a name, encapsulating to it under a   *)
(* fresh nonce gives a ciphertext and a secret, and decapsulating another  *)
(* key's ciphertext succeeds with a secret of its own (FIPS 203 implicit   *)
(* rejection).                                                             *)
(***************************************************************************)
EXTENDS X301Ffi, Integers, FiniteSets

CONSTANTS
  Providers,        \* loaded instances of the provider
  Keys, Contexts,   \* HYBRID_KEY and HYBRID_KEM_CTX objects
  Pairs,            \* ML-KEM key pairs
  MaxNonce,         \* ML-KEM encapsulations (bound)
  Free,             \* an object that does not exist
  Malformed,        \* a parameter or ciphertext of the wrong type or length
  Zero,             \* the initial content of a temporary buffer
  Untouched         \* the content of the caller's buffers before a call

VARIABLES
  key,          \* hybrid keys
  generation,   \* the generation context, or Free
  context,      \* KEM contexts
  call,         \* the encapsulation or decapsulation under way in a context
  output,       \* the caller's buffers and the last return value, per context
  nonce,        \* ML-KEM encapsulations made so far
  live,         \* objects allocated and not yet freed
  sent          \* what encapsulations returned (not code)

vars == <<key, generation, context, call, output, nonce, live, sent>>

-----------------------------------------------------------------------------
\* The ML-KEM implementation behind EVP.
MlKey == [pair : Pairs, private : BOOLEAN]
MlCiphertext == Pairs \X (1 .. MaxNonce)
MlSecret == [pair : Pairs, ciphertext : MlCiphertext]

MlEncapsulated(pair, n) == <<pair, n>>

\* The secret depends on the key and the ciphertext; it is the sender's when
\* the ciphertext was made for the key.
MlSecretOf(pair, ciphertext) == [pair |-> pair, ciphertext |-> ciphertext]

-----------------------------------------------------------------------------
GenContext == [provider : Providers, keypair : BOOLEAN]
Operations == {"none", "encapsulate", "decapsulate"}
HybridKey ==
  [provider : Providers, x301 : Key \cup {Absent}, mlkem : MlKey \cup {Absent},
   state : {"empty", "public", "private"}]
KemContext == [provider : Providers, key : Keys \cup {Absent}, operation : Operations]

\* A key share or ciphertext, and a hybrid secret.
Shares == Pairs \X RawPublics
Ciphertexts == MlCiphertext \X RawPublics
SharedSecrets == {Shared(s, u) : s \in RawSecrets, u \in Publics}
Secrets == MlSecret \X SharedSecrets

EmptyKey(provider) ==
  [provider |-> provider, x301 |-> Absent, mlkem |-> Absent, state |-> "empty"]
NoCall ==
  [pc |-> "idle", ciphertext |-> <<Zero, Zero>>, secret |-> <<Zero, Zero>>,
   mlkem |-> FALSE, x301 |-> Absent, exchange |-> Absent, done |-> FALSE]
NoOutput == [ciphertext |-> Untouched, secret |-> Untouched, result |-> "none"]

\* The values that stand for "nothing here" are none of what may be there, and
\* there are finitely many objects.
ASSUME HybridAssumption ==
  /\ IsFiniteSet(Keys) /\ IsFiniteSet(Contexts) /\ MaxNonce \in Nat
  /\ Free \notin HybridKey /\ Free \notin KemContext
  /\ Absent \notin Keys /\ Absent \notin MlKey /\ Absent \notin Key /\ Absent \notin Exchange
  /\ Zero \notin MlCiphertext /\ Zero \notin MlSecret /\ Zero \notin RawPublics
  /\ Zero \notin SharedSecrets
  /\ Untouched \notin Ciphertexts /\ Untouched \notin Secrets

\* One more, or one less, of a kind of object; freeing a null pointer is a
\* no-op in Rust and in EVP.
Count(pointer) == IF pointer = Absent THEN 0 ELSE 1
CountIf(made) == IF made THEN 1 ELSE 0

\* The two halves of a key, or of what was to become one, as far as there are any.
HalvesMade(objects, x301, mlkem) ==
  [objects EXCEPT !.x301 = @ + CountIf(x301), !.mlkem = @ + CountIf(mlkem)]
HalvesFreed(objects, x301, mlkem) ==
  [objects EXCEPT !.x301 = @ - CountIf(x301), !.mlkem = @ - CountIf(mlkem)]

-----------------------------------------------------------------------------
KeyUnrelated == UNCHANGED <<generation, context, call, output, nonce, sent>>

KeyNew(k, provider) ==
  /\ key[k] = Free
  /\ key' = [key EXCEPT ![k] = EmptyKey(provider)]
  /\ UNCHANGED live
  /\ KeyUnrelated

Referenced(k) == \E c \in Contexts : context[c] # Free /\ context[c].key = k

\* OpenSSL keeps the EVP_PKEY of a context alive.
KeyFree(k) ==
  /\ key[k] # Free /\ ~Referenced(k)
  /\ key' = [key EXCEPT ![k] = Free]
  /\ live' = HalvesFreed(live, key[k].x301 # Absent, key[k].mlkem # Absent)
  /\ KeyUnrelated

\* Fault: a key that holds something takes another share.
SetParamsAccepts_Refills(k, share) ==
  key[k] # Free /\ share \notin {Malformed, Absent}

\* A share of the exact length, for a key that is still empty.
SetParamsAccepts(k, share) ==
  /\ key[k] # Free /\ key[k].state = "empty"
  /\ share \notin {Malformed, Absent}

Imported(pair) == [pair |-> pair, private |-> FALSE]

\* Fault: the ML-KEM half of a share that was not taken is forgotten.
SetParamsCleanup_KeepsMlkem(objects, x301, mlkem) == HalvesFreed(objects, x301, FALSE)

\* What was not installed is freed.
SetParamsCleanup(objects, x301, mlkem) == HalvesFreed(objects, x301, mlkem)

\* Both components are made before either is installed: mlkem and x301 say
\* whether EVP and key_new gave a key, encoded whether key_set_encoded_public
\* then filled Rust's.
SetParams(k, share, mlkem, x301, encoded) ==
  /\ SetParamsAccepts(k, share)
  /\ IF mlkem /\ x301 /\ encoded
     THEN /\ key' = [key EXCEPT ![k].mlkem = Imported(share[1]),
                                ![k].x301 = SetEncodedPublic(NewKey, share[2]),
                                ![k].state = "public"]
          /\ live' = HalvesMade(live, TRUE, TRUE)
     ELSE /\ live' = SetParamsCleanup(HalvesMade(live, x301, mlkem), x301, mlkem)
          /\ UNCHANGED key
  /\ KeyUnrelated

\* The queries hybrid_key_has and, for the encoded public key,
\* hybrid_key_get_params.
KeyHas(k, private, public) ==
  /\ private => key[k].state = "private"
  /\ public => key[k].state \in {"public", "private"}
EncodedPublic(k) == <<key[k].mlkem.pair, key[k].x301.public>>

\* A selection without the key pair asks for parameters; the group name, if
\* given, must be this one.
GenInit(provider, keypair) ==
  /\ generation = Free
  /\ generation' = [provider |-> provider, keypair |-> keypair]
  /\ UNCHANGED <<key, context, call, output, nonce, live, sent>>

GenCleanup ==
  /\ generation # Free
  /\ generation' = Free
  /\ UNCHANGED <<key, context, call, output, nonce, live, sent>>

\* Fault: one component is enough.
Complete_Either(mlkem, x301) == mlkem \/ x301

Complete(mlkem, x301) == mlkem /\ x301

\* Fault: the new key goes without the halves it holds.
GivenUp_KeyOnly(objects, x301, mlkem) == objects

\* hybrid_key_free of the key that was to be returned.
GivenUp(objects, x301, mlkem) == HalvesFreed(objects, x301, mlkem)

\* Without a key pair to make, the key stays empty.  Otherwise both components
\* are generated, and the key is given up when either failed.
Gen(k, pair, secret, mlkem, x301) ==
  /\ generation # Free /\ key[k] = Free
  /\ x301 => GenerateAccepts(secret)
  /\ IF ~generation.keypair
     THEN key' = [key EXCEPT ![k] = EmptyKey(generation.provider)] /\ UNCHANGED live
     ELSE IF Complete(mlkem, x301)
     THEN /\ key' = [key EXCEPT ![k] =
               [provider |-> generation.provider,
                x301 |-> IF x301 THEN Generate(secret) ELSE Absent,
                mlkem |-> IF mlkem THEN [pair |-> pair, private |-> TRUE] ELSE Absent,
                state |-> "private"]]
          /\ live' = HalvesMade(live, x301, mlkem)
     ELSE /\ live' = GivenUp(HalvesMade(live, x301, mlkem), x301, mlkem)
          /\ UNCHANGED key
  /\ KeyUnrelated

-----------------------------------------------------------------------------
ContextUnrelated == UNCHANGED <<key, generation, nonce, live, sent>>

KemNew(c, provider) ==
  /\ context[c] = Free
  /\ context' = [context EXCEPT ![c] =
       [provider |-> provider, key |-> Absent, operation |-> "none"]]
  /\ output' = [output EXCEPT ![c] = NoOutput]
  /\ UNCHANGED call
  /\ ContextUnrelated

\* A context is used by one call at a time.
Idle(c) == context[c] # Free /\ call[c].pc = "idle"

KemFree(c) ==
  /\ Idle(c)
  /\ context' = [context EXCEPT ![c] = Free]
  /\ output' = [output EXCEPT ![c] = NoOutput]
  /\ UNCHANGED call
  /\ ContextUnrelated

\* Fault: what the key holds is not looked at.
InitAccepts_AnyState(c, k, operation) ==
  key[k] # Free /\ key[k].provider = context[c].provider

\* hybrid_kem_init with an empty parameter list.
InitAccepts(c, k, operation) ==
  /\ key[k] # Free /\ key[k].provider = context[c].provider
  /\ operation = "encapsulate" => key[k].state # "empty"
  /\ operation = "decapsulate" => key[k].state = "private"

\* A refused initialisation leaves the earlier one in force.
KemInit(c, k, operation) ==
  /\ Idle(c)
  /\ InitAccepts(c, k, operation)
  /\ context' = [context EXCEPT ![c].key = k, ![c].operation = operation]
  /\ output' = [output EXCEPT ![c] = NoOutput]
  /\ UNCHANGED call
  /\ ContextUnrelated

Initialised(c, operation) == context[c].operation = operation /\ context[c].key # Absent

-----------------------------------------------------------------------------
\* The calls.  A call reads its arguments, obtains the ML-KEM half, then the
\* objects for the X301 half, then that half, copies out, and cleans up.
CallUnrelated == UNCHANGED <<key, generation, context>>

\* The wrong operation, a missing pointer, or a buffer or ciphertext of the
\* wrong size: at most the lengths are written.  (Asking for the lengths
\* alone succeeds and changes nothing else.)
Refuse(c, operation, wellFormed) ==
  /\ Idle(c)
  /\ ~(Initialised(c, operation) /\ wellFormed)
  /\ output' = [output EXCEPT ![c] = [NoOutput EXCEPT !.result = "failed"]]
  /\ UNCHANGED <<call, nonce, live, sent>>
  /\ CallUnrelated

EncapsulateStart(c) ==
  /\ Idle(c) /\ Initialised(c, "encapsulate")
  /\ call' = [call EXCEPT ![c].pc = "mlkem"]
  /\ output' = [output EXCEPT ![c] = NoOutput]
  /\ UNCHANGED <<nonce, live, sent>>
  /\ CallUnrelated

DecapsulateStart(c, ciphertext) ==
  /\ Idle(c) /\ Initialised(c, "decapsulate")
  /\ call' = [call EXCEPT ![c].pc = "mlkem", ![c].ciphertext = ciphertext]
  /\ output' = [output EXCEPT ![c] = NoOutput]
  /\ UNCHANGED <<nonce, live, sent>>
  /\ CallUnrelated

At(c, pc, operation) ==
  context[c] # Free /\ call[c].pc = pc /\ context[c].operation = operation

KeyOf(c) == key[context[c].key]

\* No EVP context; or one whose operation fails or reports an odd length (what
\* it may have written stays in temporaries that no later step reads).
MlkemFails(c) ==
  /\ context[c] # Free /\ call[c].pc = "mlkem"
  /\ \E allocated \in BOOLEAN :
       /\ call' = [call EXCEPT ![c].pc = "cleanup", ![c].mlkem = allocated]
       /\ live' = [live EXCEPT !.evp = IF allocated THEN @ + 1 ELSE @]
  /\ UNCHANGED <<output, nonce, sent>>
  /\ CallUnrelated

MlkemEncapsulates(c) ==
  /\ At(c, "mlkem", "encapsulate") /\ nonce < MaxNonce
  /\ LET ciphertext == MlEncapsulated(KeyOf(c).mlkem.pair, nonce + 1)
     IN  call' = [call EXCEPT ![c].pc = "objects", ![c].mlkem = TRUE,
                    ![c].ciphertext = <<ciphertext, @[2]>>,
                    ![c].secret = <<MlSecretOf(KeyOf(c).mlkem.pair, ciphertext), @[2]>>]
  /\ nonce' = nonce + 1
  /\ live' = [live EXCEPT !.evp = @ + 1]
  /\ UNCHANGED <<output, sent>>
  /\ CallUnrelated

MlkemDecapsulates(c) ==
  /\ At(c, "mlkem", "decapsulate")
  /\ call' = [call EXCEPT ![c].pc = "objects", ![c].mlkem = TRUE,
                ![c].secret = <<MlSecretOf(KeyOf(c).mlkem.pair, call[c].ciphertext[1]), @[2]>>]
  /\ live' = [live EXCEPT !.evp = @ + 1]
  /\ UNCHANGED <<output, nonce, sent>>
  /\ CallUnrelated

\* The server's ephemeral key, or the holder of the peer's, and the exchange:
\* both are asked for before either is looked at.
Objects(c, x301, exchange) ==
  /\ call' = [call EXCEPT ![c].x301 = x301, ![c].exchange = exchange,
                ![c].pc = IF x301 # Absent /\ exchange # Absent THEN "agree" ELSE "cleanup"]
  /\ live' = [live EXCEPT !.x301 = @ + Count(x301), !.exchange = @ + Count(exchange)]
  /\ UNCHANGED <<output, nonce, sent>>
  /\ CallUnrelated

EncapsulateObjects(c, secret, x301, exchange) ==
  /\ At(c, "objects", "encapsulate")
  /\ x301 => GenerateAccepts(secret)
  /\ Objects(c, IF x301 THEN Generate(secret) ELSE Absent,
                IF exchange THEN NewExchange ELSE Absent)

DecapsulateObjects(c, x301, exchange) ==
  /\ At(c, "objects", "decapsulate")
  /\ Objects(c, IF x301 THEN NewKey ELSE Absent, IF exchange THEN NewExchange ELSE Absent)

\* Fault: the result of the derivation is not looked at.
AgreeEnds_Anyway(derived) == "copy"

AgreeEnds(derived) == IF derived = Absent THEN "cleanup" ELSE "copy"

\* exchange_init with own, exchange_set_peer with peer, exchange_derive.
Derived(exchange, own, peer) == ExchangeDerive(SetPeer(ExchangeInit(exchange, own), peer))

\* Fault: the ciphertext carries the client's own public key back.
ServerShare_Echo(c) == KeyOf(c).x301.public

\* key_get_public of the ephemeral key.
ServerShare(c) == call[c].x301.public

EncapsulateAgree(c) ==
  /\ At(c, "agree", "encapsulate")
  /\ LET derived == Derived(call[c].exchange, call[c].x301, KeyOf(c).x301)
     IN  call' = [call EXCEPT ![c].pc = AgreeEnds(derived),
                    ![c].ciphertext = <<@[1], ServerShare(c)>>,
                    ![c].secret = <<@[1], IF derived = Absent THEN Zero ELSE derived>>]
  /\ UNCHANGED <<output, nonce, live, sent>>
  /\ CallUnrelated

DecapsulateAgree(c) ==
  /\ At(c, "agree", "decapsulate")
  /\ LET peer == SetEncodedPublic(call[c].x301, call[c].ciphertext[2])
         derived == Derived(call[c].exchange, KeyOf(c).x301, peer)
     IN  call' = [call EXCEPT ![c].pc = AgreeEnds(derived), ![c].x301 = peer,
                    ![c].secret = <<@[1], IF derived = Absent THEN Zero ELSE derived>>]
  /\ UNCHANGED <<output, nonce, live, sent>>
  /\ CallUnrelated

EncapsulateCopies(c) ==
  /\ At(c, "copy", "encapsulate")
  /\ output' = [output EXCEPT ![c].ciphertext = call[c].ciphertext, ![c].secret = call[c].secret]
  /\ sent' = sent \cup {[share |-> EncodedPublic(context[c].key),
                         ciphertext |-> call[c].ciphertext, secret |-> call[c].secret]}
  /\ call' = [call EXCEPT ![c].pc = "cleanup", ![c].done = TRUE]
  /\ UNCHANGED <<nonce, live>>
  /\ CallUnrelated

\* Only the secret is the caller's; the ciphertext is kept for the properties.
DecapsulateCopies(c) ==
  /\ At(c, "copy", "decapsulate")
  /\ output' = [output EXCEPT ![c].ciphertext = call[c].ciphertext, ![c].secret = call[c].secret]
  /\ call' = [call EXCEPT ![c].pc = "cleanup", ![c].done = TRUE]
  /\ UNCHANGED <<nonce, live, sent>>
  /\ CallUnrelated

\* Fault: the ephemeral key is forgotten.
Released_KeepsKey(c) ==
  [live EXCEPT !.evp = IF call[c].mlkem THEN @ - 1 ELSE @,
               !.exchange = @ - Count(call[c].exchange)]

Released(c) ==
  [live EXCEPT !.evp = IF call[c].mlkem THEN @ - 1 ELSE @,
               !.exchange = @ - Count(call[c].exchange), !.x301 = @ - Count(call[c].x301)]

\* Every way out passes here: the objects are freed, the secret is cleansed.
Cleanup(c) ==
  /\ context[c] # Free /\ call[c].pc = "cleanup"
  /\ call' = [call EXCEPT ![c] = NoCall]
  /\ live' = Released(c)
  /\ output' = [output EXCEPT ![c].result = IF call[c].done THEN "ok" ELSE "failed"]
  /\ UNCHANGED <<nonce, sent>>
  /\ CallUnrelated

-----------------------------------------------------------------------------
Init ==
  /\ key = [k \in Keys |-> Free] /\ generation = Free
  /\ context = [c \in Contexts |-> Free]
  /\ call = [c \in Contexts |-> NoCall] /\ output = [c \in Contexts |-> NoOutput]
  /\ nonce = 0
  /\ live = [x301 |-> 0, mlkem |-> 0, exchange |-> 0, evp |-> 0]
  /\ sent = {}

KeyStep ==
  \E k \in Keys :
    \/ \E p \in Providers : KeyNew(k, p)
    \/ KeyFree(k)
    \/ \E share \in Shares \cup {Malformed, Absent}, mlkem, x301, encoded \in BOOLEAN :
         SetParams(k, share, mlkem, x301, encoded)
    \/ \E pair \in Pairs, secret \in RawSecrets, mlkem, x301 \in BOOLEAN :
         Gen(k, pair, secret, mlkem, x301)

GenerationStep ==
  \/ \E p \in Providers, keypair \in BOOLEAN : GenInit(p, keypair)
  \/ GenCleanup

ContextStep ==
  \E c \in Contexts :
    \/ \E p \in Providers : KemNew(c, p)
    \/ KemFree(c)
    \/ \E k \in Keys, operation \in {"encapsulate", "decapsulate"} : KemInit(c, k, operation)
    \/ \E operation \in {"encapsulate", "decapsulate"}, wellFormed \in BOOLEAN :
         Refuse(c, operation, wellFormed)

CallStep ==
  \E c \in Contexts :
    \/ EncapsulateStart(c)
    \/ \E ciphertext \in Ciphertexts : DecapsulateStart(c, ciphertext)
    \/ MlkemFails(c) \/ MlkemEncapsulates(c) \/ MlkemDecapsulates(c)
    \/ \E secret \in RawSecrets, x301, exchange \in BOOLEAN :
         EncapsulateObjects(c, secret, x301, exchange)
    \/ \E x301, exchange \in BOOLEAN : DecapsulateObjects(c, x301, exchange)
    \/ EncapsulateAgree(c) \/ DecapsulateAgree(c)
    \/ EncapsulateCopies(c) \/ DecapsulateCopies(c)
    \/ Cleanup(c)

Next == KeyStep \/ GenerationStep \/ ContextStep \/ CallStep

Spec == Init /\ [][Next]_vars
-----------------------------------------------------------------------------
Call ==
  [pc : {"idle", "mlkem", "objects", "agree", "copy", "cleanup"},
   ciphertext : (MlCiphertext \cup {Zero}) \X (RawPublics \cup {Zero}),
   secret : (MlSecret \cup {Zero}) \X (SharedSecrets \cup {Zero}),
   mlkem : BOOLEAN, x301 : Key \cup {Absent}, exchange : Exchange \cup {Absent}, done : BOOLEAN]

Output ==
  [ciphertext : Ciphertexts \cup {Untouched}, secret : Secrets \cup {Untouched},
   result : {"none", "ok", "failed"}]

TypeOK ==
  /\ key \in [Keys -> HybridKey \cup {Free}]
  /\ generation \in GenContext \cup {Free}
  /\ context \in [Contexts -> KemContext \cup {Free}]
  /\ call \in [Contexts -> Call]
  /\ output \in [Contexts -> Output]
  /\ nonce \in 0 .. MaxNonce
  /\ live \in [x301 : Nat, mlkem : Nat, exchange : Nat, evp : Nat]

\* A hybrid key that reports a public or private key has it in both halves,
\* and one that reports none has neither: a generation or a share of which one
\* half failed is never visible.
KeysAreWhole ==
  \A k \in Keys : key[k] # Free =>
    /\ ~KeyHas(k, FALSE, TRUE) => key[k].x301 = Absent /\ key[k].mlkem = Absent
    /\ KeyHas(k, FALSE, TRUE) =>
         /\ key[k].mlkem # Absent /\ key[k].x301 # Absent
         /\ EncodedPublic(k) \in Shares
         /\ (key[k].x301.private # Absent) = KeyHas(k, TRUE, TRUE)
         /\ key[k].mlkem.private = KeyHas(k, TRUE, TRUE)
    /\ KeyHas(k, TRUE, FALSE) => Validate(key[k].x301, TRUE, TRUE)

\* The keys, and the calls under way, that hold an object of a kind.
Holders(field) == {k \in Keys : key[k] # Free /\ key[k][field] # Absent}
Users(field) == {c \in Contexts : call[c][field] # Absent}

\* What is allocated is what the keys and the calls under way still hold, and
\* a call that has returned leaves no object and no secret behind, whichever
\* of its steps failed.
NothingIsLeft ==
  /\ live.x301 = Cardinality(Holders("x301")) + Cardinality(Users("x301"))
  /\ live.mlkem = Cardinality(Holders("mlkem"))
  /\ live.exchange = Cardinality(Users("exchange"))
  /\ live.evp = Cardinality({c \in Contexts : call[c].mlkem})
  /\ \A c \in Contexts : call[c].pc = "idle" => call[c] = NoCall

\* What was tested at initialisation still holds whenever the context is used,
\* although the key may have been given a share since and the context have
\* been refused another initialisation: a key of the same provider that has both halves of what the operation
\* needs, so that no call meets a half it did not check for.
ContextFitsKey ==
  \A c \in Contexts : context[c] # Free /\ context[c].key # Absent =>
    LET k == context[c].key
    IN  /\ key[k] # Free /\ key[k].provider = context[c].provider
        /\ key[k].mlkem # Absent /\ key[k].x301 # Absent
        /\ context[c].operation = "decapsulate" =>
             key[k].mlkem.private /\ key[k].x301.private # Absent

\* A failed call leaves the caller's buffers alone; one that writes them has
\* both halves of the ciphertext and of the secret.
OutputIsWhole ==
  \A c \in Contexts :
    /\ output[c].result = "failed" => output[c].secret = Untouched /\ output[c].ciphertext = Untouched
    /\ output[c].result = "ok" => output[c].secret # Untouched
    /\ output[c].secret # Untouched =>
         \A i \in 1 .. 2 : output[c].secret[i] # Zero /\ output[c].ciphertext[i] # Zero

\* Who decapsulates an encapsulation made for its key gets the sender's secret,
\* also when the X301 half arrives as an alias of what was sent; and no other
\* key, and no other ML-KEM ciphertext, gives the ML-KEM half of that secret.
SecretsAgree ==
  \A c \in Contexts, m \in sent :
    output[c].result = "ok" /\ context[c].operation = "decapsulate" =>
      LET share == EncodedPublic(context[c].key)
          received == output[c].ciphertext
      IN  /\ /\ share = m.share
             /\ received[1] = m.ciphertext[1] /\ Canon(received[2]) = m.ciphertext[2]
             => output[c].secret = m.secret
          /\ output[c].secret = m.secret =>
               share[1] = m.share[1] /\ received[1] = m.ciphertext[1]

-----------------------------------------------------------------------------
(* The hybrid as one atomic key encapsulation mechanism.                   *)

\* A private key is an ML-KEM key pair and an X301 secret with a public key;
\* both halves of a ciphertext are opened, or nothing is.
HybridOpeners == {d \in Pairs \X RawSecrets : PublicOf(d[2]) # Absent}
HybridShareOf == [d \in HybridOpeners |-> <<d[1], PublicOf(d[2])>>]
HybridOpened ==
  [d \in HybridOpeners |-> [ciphertext \in Ciphertexts |->
     LET agreed == Shared(d[2], Canon(ciphertext[2]))
     IN  IF agreed = Absent THEN Absent ELSE <<MlSecretOf(d[1], ciphertext[1]), agreed>>]]

\* What stands for "nothing here" is no share, no private key, no key and no
\* use of one either.
ASSUME KemAssumption ==
  /\ Absent \notin Pairs \X Publics /\ Absent \notin HybridOpeners
  /\ Absent \notin [share : (Pairs \X Publics) \cup {Absent}, opener : HybridOpeners \cup {Absent}]
  /\ Absent \notin [key : Keys \cup {Absent}, operation : Operations]

Content(k) ==
  IF key[k] = Free THEN Absent
  ELSE [share |-> IF KeyHas(k, FALSE, TRUE) THEN EncodedPublic(k) ELSE Absent,
        opener |-> IF KeyHas(k, TRUE, FALSE) THEN <<key[k].mlkem.pair, key[k].x301.private>>
                   ELSE Absent]

Binding(c) ==
  IF context[c] = Free THEN Absent
  ELSE [key |-> context[c].key, operation |-> context[c].operation]

Given(buffer) == IF buffer = Untouched THEN Absent ELSE buffer

\* A call has succeeded for the caller once the buffers are written or it says so.
Outcome(c) ==
  [status |-> IF output[c].result = "failed" THEN "failed"
              ELSE IF output[c].result = "none" /\ output[c].secret = Untouched THEN "none"
              ELSE "ok",
   ciphertext |-> Given(output[c].ciphertext), secret |-> Given(output[c].secret)]

Kem == INSTANCE AtomicKem WITH
  Openers <- HybridOpeners, ShareOf <- HybridShareOf, Opened <- HybridOpened,
  Shares <- Pairs \X Publics, Nothing <- Absent,
  box <- [k \in Keys |-> Content(k)], use <- [c \in Contexts |-> Binding(c)],
  outcome <- [c \in Contexts |-> Outcome(c)]

\* Two mechanisms, several steps and a failure at each of them behave like one
\* mechanism whose calls are atomic: a call gives the caller the ciphertext
\* and secret of both halves at once or nothing, a secret is the one that the
\* owner of the share opens the ciphertext to, and a key never changes under
\* a context that was initialised with it.
ImplementsKem == Kem!KemSpec
=============================================================================
