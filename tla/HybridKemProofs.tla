--------------------------- MODULE HybridKemProofs --------------------------
(***************************************************************************)
(* The safety of the hybrid KEM for any number of providers, keys and      *)
(* contexts, any ML-KEM key pairs, and every curve that meets              *)
(* CurveAssumption and AgreementAssumption.                                *)
(*                                                                         *)
(* The invariant has a part for the keys, one for the contexts that rely   *)
(* on them, one for what a call has computed so far at each step and what  *)
(* the caller got from it, and one for what was sent.  A frame lemma for a *)
(* change of one key, one context and one call leaves to each action only  *)
(* what it is about.  The counts of live objects come last, on top.        *)
(***************************************************************************)
EXTENDS HybridKem, FiniteSetTheorems, TLAPS

\* What a hybrid key holds in each of its states.
KeyOK(K) ==
  /\ K \in HybridKey
  /\ K.state = "empty" => K.x301 = Absent /\ K.mlkem = Absent
  /\ K.state # "empty" =>
       /\ K.mlkem \in MlKey /\ K.x301 \in Key /\ K.x301.public \in Publics
       /\ K.mlkem.private <=> K.state = "private"
       /\ K.x301.private # Absent <=> K.state = "private"
       /\ K.x301.private # Absent => K.x301.public = PublicOf(K.x301.private)

KeyInv ==
  /\ key \in [Keys -> HybridKey \cup {Free}]
  /\ \A k \in Keys : key[k] # Free => KeyOK(key[k])

\* What a context can rely on: the key it was initialised with fits.
ContextOK(X) ==
  /\ X \in KemContext
  /\ X.key = Absent <=> X.operation = "none"
  /\ X.key # Absent =>
       /\ key[X.key] # Free /\ key[X.key].provider = X.provider
       /\ key[X.key].state # "empty"
       /\ X.operation = "decapsulate" => key[X.key].state = "private"

ContextInv ==
  /\ context \in [Contexts -> KemContext \cup {Free}]
  /\ \A c \in Contexts : context[c] # Free => ContextOK(context[c])

\* A ciphertext and a secret made for a share, by a sender whose ephemeral
\* secret is s.
Encapsulated(share, ciphertext, secret) ==
  /\ ciphertext \in Ciphertexts /\ secret \in Secrets
  /\ secret[1] = MlSecretOf(share[1], ciphertext[1])
  /\ \E s \in RawSecrets :
       /\ PublicOf(s) = ciphertext[2] /\ ciphertext[2] \in Publics
       /\ secret[2] = Shared(s, share[2])

\* What the holder of the key K makes of a ciphertext.
Decapsulated(K, ciphertext, secret) ==
  /\ ciphertext \in Ciphertexts /\ secret \in Secrets
  /\ secret[1] = MlSecretOf(K.mlkem.pair, ciphertext[1])
  /\ secret[2] = Shared(K.x301.private, Canon(ciphertext[2])) /\ secret[2] # Absent

Agreed(operation, K, ciphertext, secret) ==
  /\ operation = "encapsulate" => Encapsulated(<<K.mlkem.pair, K.x301.public>>, ciphertext, secret)
  /\ operation = "decapsulate" => Decapsulated(K, ciphertext, secret)

\* How far a call C in a context X with the key K has come at each pc.
CallOK(X, K, C) ==
  /\ C \in Call
  /\ C.pc = "idle" => C = NoCall
  /\ C.pc # "idle" => X # Free /\ X.operation # "none"
  /\ C.pc \notin {"idle", "cleanup"} => ~C.done
  /\ C.pc = "mlkem" => ~C.mlkem
  /\ C.pc \in {"mlkem", "objects"} => C.x301 = Absent /\ C.exchange = Absent
  /\ C.pc # "idle" /\ X.operation = "decapsulate" => C.ciphertext \in Ciphertexts
  /\ C.pc \in {"objects", "agree"} =>
       /\ C.mlkem /\ C.ciphertext[1] \in MlCiphertext
       /\ C.secret[1] = MlSecretOf(K.mlkem.pair, C.ciphertext[1])
  /\ C.pc = "agree" =>
       /\ C.x301 \in Key /\ C.exchange \in Exchange
       /\ X.operation = "encapsulate" =>
            /\ C.x301.private \in RawSecrets
            /\ C.x301.public = PublicOf(C.x301.private) /\ C.x301.public # Absent
       /\ X.operation = "decapsulate" => C.x301 = NewKey
  /\ C.pc = "copy" => Agreed(X.operation, K, C.ciphertext, C.secret)

\* What the caller's buffers O hold beside that call.
OutputOK(X, K, C, O) ==
  /\ O \in Output
  /\ O.result # "none" => C.pc = "idle"
  /\ O.result = "ok" \/ C.done =>
       /\ X # Free /\ X.operation # "none"
       /\ Agreed(X.operation, K, O.ciphertext, O.secret)
  /\ ~(O.result = "ok" \/ C.done) => O.ciphertext = Untouched /\ O.secret = Untouched

CallInv ==
  /\ call \in [Contexts -> Call] /\ output \in [Contexts -> Output]
  /\ nonce \in 0 .. MaxNonce
  /\ \A c \in Contexts : /\ CallOK(context[c], KeyOf(c), call[c])
                         /\ OutputOK(context[c], KeyOf(c), call[c], output[c])

SentInv == \A m \in sent : m.share \in Pairs \X Publics /\ Encapsulated(m.share, m.ciphertext, m.secret)

IInv == KeyInv /\ ContextInv /\ CallInv /\ SentInv
-----------------------------------------------------------------------------
\* The keys.

LEMMA Distinct ==
  /\ \A K \in HybridKey : K # Free
  /\ \A X \in KemContext : X # Free
  /\ Absent \notin MlKey /\ Absent \notin Key /\ Absent \notin Exchange /\ Absent \notin Keys
  /\ Absent \notin RawSecrets /\ Absent \notin RawPublics /\ Absent \notin Publics
BY HybridAssumption, CurveAssumption DEF HybridAssumption, CurveAssumption

LEMMA EmptyKeyOK ==
  ASSUME NEW p \in Providers PROVE KeyOK(EmptyKey(p))
BY DEF KeyOK, EmptyKey, HybridKey

\* A key that no context holds may change: nothing that is known of contexts,
\* calls and buffers is about it.
LEMMA KeyChange ==
  ASSUME IInv, NEW k \in Keys, ~Referenced(k), NEW K, K = Free \/ KeyOK(K),
         key' = [key EXCEPT ![k] = K], UNCHANGED <<context, call, output, nonce, sent>>
  PROVE  IInv'
<1>1. KeyInv'
    BY DEF IInv, KeyInv, KeyOK
<1>2. ASSUME NEW c \in Contexts, context[c] # Free, context[c].operation # "none"
      PROVE  KeyOf(c)' = KeyOf(c)
    BY <1>2 DEF IInv, KeyInv, ContextInv, ContextOK, KemContext, KeyOf, Referenced
<1>3. ContextInv'
    BY DEF IInv, KeyInv, ContextInv, ContextOK, KemContext, Referenced
<1>4. CallInv'
  <2> SUFFICES ASSUME NEW c \in Contexts
               PROVE  /\ CallOK(context[c], KeyOf(c), call[c])'
                      /\ OutputOK(context[c], KeyOf(c), call[c], output[c])'
      BY DEF IInv, CallInv
  <2>1. CallOK(context[c], KeyOf(c), call[c]) /\ OutputOK(context[c], KeyOf(c), call[c], output[c])
      BY DEF IInv, CallInv
  <2>2. CASE context[c] # Free /\ context[c].operation # "none"
      BY <1>2, <2>1, <2>2 DEF CallOK, OutputOK, Agreed, Encapsulated, Decapsulated
  <2>3. CASE ~(context[c] # Free /\ context[c].operation # "none")
      BY <2>1, <2>3 DEF CallOK, OutputOK
  <2> QED
      BY <2>2, <2>3
<1> QED
    BY <1>1, <1>3, <1>4 DEF IInv, SentInv, Encapsulated

\* A key that does not exist, or is still empty, is in no context.
LEMMA NotReferenced ==
  ASSUME IInv, NEW k \in Keys, key[k] = Free \/ key[k].state = "empty"
  PROVE  ~Referenced(k)
BY Distinct DEF IInv, ContextInv, ContextOK, Referenced

LEMMA KeyNewInv ==
  ASSUME IInv, NEW k \in Keys, NEW p \in Providers, KeyNew(k, p)
  PROVE  IInv'
BY NotReferenced, EmptyKeyOK, KeyChange DEF KeyNew, KeyUnrelated

LEMMA KeyFreeInv ==
  ASSUME IInv, NEW k \in Keys, KeyFree(k)
  PROVE  IInv'
BY KeyChange DEF KeyFree, KeyUnrelated

\* An empty Rust key takes any public encoding, in canonical form.
LEMMA ImportedPublic ==
  ASSUME NEW e \in RawPublics
  PROVE  SetEncodedPublic(NewKey, e) = [private |-> Absent, public |-> Canon(e)]
BY Distinct DEF SetEncodedPublic, NewKey, ReadOptionalPublic

LEMMA SetParamsInv ==
  ASSUME IInv, NEW k \in Keys, NEW share \in Shares \cup {Malformed, Absent},
         NEW mlkem \in BOOLEAN, NEW x301 \in BOOLEAN, NEW encoded \in BOOLEAN,
         SetParams(k, share, mlkem, x301, encoded)
  PROVE  IInv'
<1>1. key[k] # Free /\ key[k].state = "empty" /\ share \in Shares /\ ~Referenced(k)
    BY NotReferenced DEF SetParams, SetParamsAccepts
<1>2. CASE mlkem /\ x301 /\ encoded
  <2> DEFINE K == [key[k] EXCEPT !.mlkem = Imported(share[1]),
                     !.x301 = SetEncodedPublic(NewKey, share[2]), !.state = "public"]
  <2>1. share[1] \in Pairs /\ share[2] \in RawPublics /\ Canon(share[2]) \in Publics
      BY <1>1, CurveAssumption DEF Shares, CurveAssumption
  <2>2. /\ Imported(share[1]) \in MlKey /\ ~Imported(share[1]).private
        /\ SetEncodedPublic(NewKey, share[2]) = [private |-> Absent, public |-> Canon(share[2])]
        /\ [private |-> Absent, public |-> Canon(share[2])] \in Key
      BY <2>1, ImportedPublic DEF Imported, MlKey, Key
  <2>3. key[k] \in HybridKey
      BY <1>1 DEF IInv, KeyInv
  <2>4. /\ K.mlkem = Imported(share[1]) /\ K.state = "public"
        /\ K.x301 = [private |-> Absent, public |-> Canon(share[2])]
        /\ K \in HybridKey
      BY <2>2, <2>3 DEF HybridKey
  <2>5. KeyOK(K)
      BY <2>1, <2>2, <2>4 DEF KeyOK
  <2>6. key' = [key EXCEPT ![k] = K]
      BY <1>2 DEF SetParams
  <2> HIDE DEF K
  <2> QED
      BY <1>1, <2>5, <2>6, KeyChange DEF SetParams, KeyUnrelated
<1>3. CASE ~(mlkem /\ x301 /\ encoded)
  <2>1. key' = [key EXCEPT ![k] = key[k]]
      BY <1>3 DEF SetParams, IInv, KeyInv
  <2>2. KeyOK(key[k])
      BY <1>1 DEF IInv, KeyInv
  <2> QED
      BY <1>1, <2>1, <2>2, KeyChange DEF SetParams, KeyUnrelated
<1> QED
    BY <1>2, <1>3

LEMMA GeneratedKey ==
  ASSUME NEW s \in RawSecrets, GenerateAccepts(s)
  PROVE  /\ Generate(s) \in Key /\ Generate(s).private = s
         /\ Generate(s).public = PublicOf(s) /\ PublicOf(s) \in Publics
BY CurveAssumption DEF Generate, GenerateAccepts, Key, CurveAssumption

LEMMA GenInv ==
  ASSUME IInv, generation \in GenContext \cup {Free}, NEW k \in Keys, NEW pair \in Pairs,
         NEW secret \in RawSecrets, NEW mlkem \in BOOLEAN, NEW x301 \in BOOLEAN,
         Gen(k, pair, secret, mlkem, x301)
  PROVE  IInv'
<1>1. generation.provider \in Providers /\ key[k] = Free /\ ~Referenced(k)
    BY NotReferenced DEF Gen, GenContext
<1>2. CASE ~generation.keypair
    BY <1>1, <1>2, EmptyKeyOK, KeyChange DEF Gen, KeyUnrelated
<1>3. CASE generation.keypair /\ Complete(mlkem, x301)
  <2> DEFINE K == [provider |-> generation.provider, x301 |-> Generate(secret),
                   mlkem |-> [pair |-> pair, private |-> TRUE], state |-> "private"]
  <2>1. /\ Generate(secret) \in Key /\ Generate(secret).private = secret
        /\ Generate(secret).public = PublicOf(secret) /\ PublicOf(secret) \in Publics
      BY <1>3, GeneratedKey DEF Gen, Complete
  <2>2. [pair |-> pair, private |-> TRUE] \in MlKey
      BY DEF MlKey
  <2>3. KeyOK(K)
      BY <1>1, <2>1, <2>2, Distinct DEF KeyOK, HybridKey
  <2>4. key' = [key EXCEPT ![k] = K]
      BY <1>3 DEF Gen, Complete
  <2> HIDE DEF K
  <2> QED
      BY <1>1, <2>3, <2>4, KeyChange DEF Gen, KeyUnrelated
<1>4. CASE generation.keypair /\ ~Complete(mlkem, x301)
  <2>1. key' = [key EXCEPT ![k] = key[k]]
      BY <1>4 DEF Gen, IInv, KeyInv
  <2> QED
      BY <1>1, <2>1, KeyChange DEF Gen, KeyUnrelated
<1> QED
    BY <1>2, <1>3, <1>4

-----------------------------------------------------------------------------
\* The contexts.

LEMMA Idling ==
  ASSUME IInv, NEW c \in Contexts, context[c] = Free \/ call[c].pc = "idle"
  PROVE  call[c] = NoCall
BY DEF IInv, CallInv, CallOK

LEMMA NoCallOK ==
  ASSUME NEW X, NEW K PROVE CallOK(X, K, NoCall)
BY DEF CallOK, NoCall, Call

LEMMA NoOutputOK ==
  ASSUME NEW X, NEW K, NEW C \in Call, ~C.done PROVE OutputOK(X, K, C, NoOutput)
BY DEF OutputOK, NoOutput, Output

\* A context without a call may change, if its buffers are fresh.
LEMMA ContextChange ==
  ASSUME IInv, NEW c \in Contexts, call[c] = NoCall, NEW X, X = Free \/ ContextOK(X),
         context' = [context EXCEPT ![c] = X], output' = [output EXCEPT ![c] = NoOutput],
         UNCHANGED <<key, call, nonce, sent>>
  PROVE  IInv'
<1>1. ContextInv'
    BY DEF IInv, ContextInv, ContextOK
<1>2. ASSUME NEW d \in Contexts
      PROVE  /\ CallOK(context[d], KeyOf(d), call[d])'
             /\ OutputOK(context[d], KeyOf(d), call[d], output[d])'
  <2>1. CASE d = c
    <3>1. call'[c] = NoCall /\ output'[c] = NoOutput /\ NoCall \in Call /\ ~NoCall.done
        BY DEF IInv, CallInv, NoCall
    <3> QED
        BY <2>1, <3>1, NoCallOK, NoOutputOK
  <2>2. CASE d # c
    <3>1. /\ context'[d] = context[d] /\ KeyOf(d)' = KeyOf(d)
          /\ call'[d] = call[d] /\ output'[d] = output[d]
        BY <2>2 DEF IInv, ContextInv, CallInv, KeyOf
    <3>2. CallOK(context[d], KeyOf(d), call[d]) /\ OutputOK(context[d], KeyOf(d), call[d], output[d])
        BY DEF IInv, CallInv
    <3> QED
        BY <3>1, <3>2 DEF CallOK, OutputOK, Agreed, Encapsulated, Decapsulated
  <2> QED
      BY <2>1, <2>2
<1>3. CallInv'
  <2>1. output' \in [Contexts -> Output]
      BY DEF IInv, CallInv, NoOutput, Output
  <2> QED
      BY <1>2, <2>1 DEF IInv, CallInv
<1> QED
    BY <1>1, <1>3 DEF IInv, KeyInv, SentInv, Encapsulated

LEMMA KemNewInv ==
  ASSUME IInv, NEW c \in Contexts, NEW p \in Providers, KemNew(c, p)
  PROVE  IInv'
<1> DEFINE X == [provider |-> p, key |-> Absent, operation |-> "none"]
<1>1. ContextOK(X)
    BY DEF ContextOK, KemContext, Operations
<1> QED
    BY <1>1, Idling, ContextChange DEF KemNew, ContextUnrelated

LEMMA KemFreeInv ==
  ASSUME IInv, NEW c \in Contexts, KemFree(c)
  PROVE  IInv'
BY Idling, ContextChange DEF KemFree, Idle, ContextUnrelated

LEMMA KemInitInv ==
  ASSUME IInv, NEW c \in Contexts, NEW k \in Keys,
         NEW operation \in {"encapsulate", "decapsulate"}, KemInit(c, k, operation)
  PROVE  IInv'
<1> DEFINE X == [context[c] EXCEPT !.key = k, !.operation = operation]
<1>1. context[c] \in KemContext
    BY DEF IInv, ContextInv, KemInit, Idle
<1>2. X \in KemContext /\ X.key = k /\ X.operation = operation /\ X.provider = context[c].provider
    BY <1>1 DEF KemContext, Operations
<1>3. /\ key[k] # Free /\ key[k].provider = context[c].provider /\ key[k].state # "empty"
      /\ operation = "decapsulate" => key[k].state = "private"
    BY DEF KemInit, InitAccepts
<1>4. context' = [context EXCEPT ![c] = X]
    BY DEF KemInit
<1> HIDE DEF X
<1>5. ContextOK(X)
    BY <1>2, <1>3, Distinct DEF ContextOK
<1> QED
    BY <1>4, <1>5, Idling, ContextChange DEF KemInit, Idle, ContextUnrelated

-----------------------------------------------------------------------------
\* The calls.

\* The key a context was initialised with.
LEMMA KeyOfContext ==
  ASSUME IInv, NEW c \in Contexts, context[c] # Free, context[c].operation # "none"
  PROVE  /\ context[c].key \in Keys /\ KeyOf(c) # Free /\ KeyOK(KeyOf(c))
         /\ KeyOf(c).mlkem \in MlKey /\ KeyOf(c).mlkem.pair \in Pairs
         /\ KeyOf(c).x301 \in Key /\ KeyOf(c).x301.public \in Publics
         /\ context[c].operation \in {"encapsulate", "decapsulate"}
         /\ context[c].operation = "decapsulate" =>
              /\ KeyOf(c).x301.private \in RawSecrets
              /\ KeyOf(c).x301.public = PublicOf(KeyOf(c).x301.private)
<1>1. /\ context[c].key \in Keys /\ KeyOf(c) # Free /\ KeyOf(c).state # "empty"
      /\ context[c].operation \in {"encapsulate", "decapsulate"}
      /\ context[c].operation = "decapsulate" => KeyOf(c).state = "private"
    BY DEF IInv, ContextInv, ContextOK, KemContext, Operations, KeyOf
<1>2. KeyOK(KeyOf(c))
    BY <1>1 DEF IInv, KeyInv, KeyOf
<1> QED
    BY <1>1, <1>2 DEF KeyOK, MlKey, Key

LEMMA UpdateCall ==
  ASSUME IInv, NEW c \in Contexts, NEW C, NEW O,
         CallOK(context[c], KeyOf(c), C), OutputOK(context[c], KeyOf(c), C, O),
         call' = [call EXCEPT ![c] = C], output' = [output EXCEPT ![c] = O],
         UNCHANGED <<key, context>>, nonce' \in 0 .. MaxNonce
  PROVE  CallInv'
<1> USE DEF IInv, CallInv
<1>1. C \in Call /\ O \in Output
    BY DEF CallOK, OutputOK
<1>2. call' \in [Contexts -> Call] /\ output' \in [Contexts -> Output]
    BY <1>1
<1>3. ASSUME NEW d \in Contexts
      PROVE  CallOK(context[d], KeyOf(d), call'[d]) /\ OutputOK(context[d], KeyOf(d), call'[d], output'[d])
    BY <1>3
<1>4. \A d \in Contexts : KeyOf(d)' = KeyOf(d)
    BY DEF KeyOf
<1> QED
    BY <1>2, <1>3, <1>4 DEF CallOK, OutputOK, Agreed, Encapsulated, Decapsulated

\* A step of a call: C is the call after it, O the buffers after it.
LEMMA CallChange ==
  ASSUME IInv, NEW c \in Contexts, NEW C, NEW O,
         CallOK(context[c], KeyOf(c), C), OutputOK(context[c], KeyOf(c), C, O),
         call' = [call EXCEPT ![c] = C], output' = [output EXCEPT ![c] = O],
         UNCHANGED <<key, context, sent>>, nonce' \in 0 .. MaxNonce
  PROVE  IInv'
<1>1. CallInv'
    BY UpdateCall
<1> QED
    BY <1>1 DEF IInv, KeyInv, ContextInv, ContextOK, SentInv, Encapsulated

LEMMA RefuseInv ==
  ASSUME IInv, NEW c \in Contexts, NEW operation, NEW wellFormed, Refuse(c, operation, wellFormed)
  PROVE  IInv'
<1> DEFINE O == [NoOutput EXCEPT !.result = "failed"]
<1>1. call[c] = NoCall
    BY Idling DEF Refuse, Idle
<1>2. OutputOK(context[c], KeyOf(c), NoCall, O)
    BY DEF OutputOK, Output, NoOutput, NoCall
<1>3. call' = [call EXCEPT ![c] = NoCall]
    BY <1>1 DEF Refuse, IInv, CallInv
<1>4. nonce' \in 0 .. MaxNonce
    BY DEF Refuse, IInv, CallInv
<1> QED
    BY <1>2, <1>3, <1>4, NoCallOK, CallChange DEF Refuse, CallUnrelated

\* A step that leaves the buffers alone, taken before anything is copied out.
LEMMA QuietStep ==
  ASSUME IInv, NEW c \in Contexts, NEW C, CallOK(context[c], KeyOf(c), C), ~C.done,
         call[c].pc # "idle", ~call[c].done,
         call' = [call EXCEPT ![c] = C], UNCHANGED <<key, context, output, sent>>,
         nonce' \in 0 .. MaxNonce
  PROVE  IInv'
<1>1. output' = [output EXCEPT ![c] = output[c]]
    BY DEF IInv, CallInv
<1>2. OutputOK(context[c], KeyOf(c), call[c], output[c]) /\ output[c].result = "none"
    BY DEF IInv, CallInv, OutputOK, Output
<1>3. OutputOK(context[c], KeyOf(c), C, output[c])
    BY <1>2 DEF OutputOK
<1> QED
    BY <1>1, <1>3, CallChange

LEMMA EncapsulateStartInv ==
  ASSUME IInv, NEW c \in Contexts, EncapsulateStart(c)
  PROVE  IInv'
<1> DEFINE C == [NoCall EXCEPT !.pc = "mlkem"]
<1>1. call' = [call EXCEPT ![c] = C] /\ nonce' \in 0 .. MaxNonce
    BY Idling DEF EncapsulateStart, Idle, IInv, CallInv
<1>2. CallOK(context[c], KeyOf(c), C) /\ C \in Call /\ ~C.done
    BY DEF CallOK, Call, NoCall, EncapsulateStart, Idle, Initialised
<1> QED
    BY <1>1, <1>2, NoOutputOK, CallChange DEF EncapsulateStart, CallUnrelated

LEMMA DecapsulateStartInv ==
  ASSUME IInv, NEW c \in Contexts, NEW ciphertext \in Ciphertexts, DecapsulateStart(c, ciphertext)
  PROVE  IInv'
<1> DEFINE C == [NoCall EXCEPT !.pc = "mlkem", !.ciphertext = ciphertext]
<1>1. call' = [call EXCEPT ![c] = C] /\ nonce' \in 0 .. MaxNonce
    BY Idling DEF DecapsulateStart, Idle, IInv, CallInv
<1>2. ciphertext \in (MlCiphertext \cup {Zero}) \X (RawPublics \cup {Zero})
    BY DEF Ciphertexts
<1>3. CallOK(context[c], KeyOf(c), C) /\ C \in Call /\ ~C.done
    BY <1>2 DEF CallOK, Call, NoCall, DecapsulateStart, Idle, Initialised
<1> QED
    BY <1>1, <1>3, NoOutputOK, CallChange DEF DecapsulateStart, CallUnrelated

\* Where a call under way stands.
LEMMA CallAt ==
  ASSUME IInv, NEW c \in Contexts, call[c].pc # "idle"
  PROVE  /\ call[c] \in Call /\ CallOK(context[c], KeyOf(c), call[c])
         /\ context[c] # Free /\ context[c].operation \in {"encapsulate", "decapsulate"}
         /\ call[c].pc # "cleanup" => ~call[c].done
         /\ nonce \in 0 .. MaxNonce
<1>1. CallOK(context[c], KeyOf(c), call[c]) /\ nonce \in 0 .. MaxNonce
    BY DEF IInv, CallInv
<1>2. context[c] # Free /\ context[c].operation # "none"
    BY <1>1 DEF CallOK
<1> QED
    BY <1>1, <1>2, KeyOfContext DEF CallOK

LEMMA MlkemFailsInv ==
  ASSUME IInv, NEW c \in Contexts, MlkemFails(c)
  PROVE  IInv'
<1>1. PICK allocated \in BOOLEAN :
        call' = [call EXCEPT ![c].pc = "cleanup", ![c].mlkem = allocated]
    BY DEF MlkemFails
<1> DEFINE C == [call[c] EXCEPT !.pc = "cleanup", !.mlkem = allocated]
<1>2. call[c].pc = "mlkem"
    BY DEF MlkemFails
<1>3. /\ C \in Call /\ C.pc = "cleanup" /\ C.ciphertext = call[c].ciphertext
      /\ C.done = call[c].done
    BY <1>2, CallAt DEF Call
<1>4. CallOK(context[c], KeyOf(c), C)
    BY <1>2, <1>3, CallAt DEF CallOK
<1>5. call' = [call EXCEPT ![c] = C]
    BY <1>1
<1> HIDE DEF C
<1> QED
    BY <1>2, <1>3, <1>4, <1>5, CallAt, QuietStep DEF MlkemFails, CallUnrelated

LEMMA MlSecretType ==
  ASSUME NEW pair \in Pairs, NEW ciphertext \in MlCiphertext
  PROVE  MlSecretOf(pair, ciphertext) \in MlSecret
BY DEF MlSecretOf, MlSecret

LEMMA MlkemEncapsulatesInv ==
  ASSUME IInv, NEW c \in Contexts, MlkemEncapsulates(c)
  PROVE  IInv'
<1> DEFINE K == KeyOf(c)
           ciphertext == MlEncapsulated(K.mlkem.pair, nonce + 1)
           C == [call[c] EXCEPT !.pc = "objects", !.mlkem = TRUE,
                   !.ciphertext = <<ciphertext, @[2]>>,
                   !.secret = <<MlSecretOf(K.mlkem.pair, ciphertext), @[2]>>]
<1>1. /\ call' = [call EXCEPT ![c] = C] /\ context[c] # Free
      /\ context[c].operation = "encapsulate" /\ call[c].pc = "mlkem" /\ nonce < MaxNonce
    BY DEF MlkemEncapsulates, At
<1>2. K.mlkem.pair \in Pairs /\ nonce \in 0 .. MaxNonce /\ nonce' \in 0 .. MaxNonce
    BY <1>1, KeyOfContext, CallAt, HybridAssumption DEF MlkemEncapsulates, HybridAssumption
<1>3. ciphertext \in MlCiphertext /\ MlSecretOf(K.mlkem.pair, ciphertext) \in MlSecret
    BY <1>1, <1>2, MlSecretType, HybridAssumption DEF MlEncapsulated, MlCiphertext, HybridAssumption
<1> HIDE DEF K, ciphertext
<1>4. /\ C \in Call /\ C.pc = "objects" /\ C.mlkem = TRUE /\ C.ciphertext[1] = ciphertext
      /\ C.secret[1] = MlSecretOf(K.mlkem.pair, ciphertext)
      /\ C.x301 = call[c].x301 /\ C.exchange = call[c].exchange /\ C.done = call[c].done
    BY <1>1, <1>3, CallAt DEF Call
<1> HIDE DEF C
<1>5. CallOK(context[c], K, C)
    BY <1>1, <1>3, <1>4, CallAt DEF CallOK
<1> QED
    BY <1>1, <1>2, <1>4, <1>5, CallAt, QuietStep DEF MlkemEncapsulates, CallUnrelated, K

LEMMA MlkemDecapsulatesInv ==
  ASSUME IInv, NEW c \in Contexts, MlkemDecapsulates(c)
  PROVE  IInv'
<1> DEFINE K == KeyOf(c)
           secret == MlSecretOf(K.mlkem.pair, call[c].ciphertext[1])
           C == [call[c] EXCEPT !.pc = "objects", !.mlkem = TRUE, !.secret = <<secret, @[2]>>]
<1>1. /\ call' = [call EXCEPT ![c] = C] /\ context[c] # Free
      /\ context[c].operation = "decapsulate" /\ call[c].pc = "mlkem"
    BY DEF MlkemDecapsulates, At
<1>2. K.mlkem.pair \in Pairs /\ nonce' \in 0 .. MaxNonce
    BY <1>1, KeyOfContext, CallAt DEF MlkemDecapsulates
<1>3. call[c].ciphertext \in Ciphertexts
    BY <1>1, CallAt DEF CallOK
<1>4. call[c].ciphertext[1] \in MlCiphertext
    BY <1>3 DEF Ciphertexts
<1>5. secret \in MlSecret
    BY <1>2, <1>4, MlSecretType
<1>6. /\ C \in Call /\ C.pc = "objects" /\ C.mlkem = TRUE
      /\ C.ciphertext = call[c].ciphertext /\ C.secret[1] = secret
      /\ C.x301 = call[c].x301 /\ C.exchange = call[c].exchange /\ C.done = call[c].done
    BY <1>1, <1>5, CallAt DEF Call
<1> HIDE DEF C
<1>7. CallOK(context[c], K, C)
    BY <1>1, <1>3, <1>4, <1>6, CallAt DEF CallOK
<1> QED
    BY <1>1, <1>2, <1>6, <1>7, CallAt, QuietStep DEF MlkemDecapsulates, CallUnrelated, K

LEMMA ObjectsInv ==
  ASSUME IInv, NEW c \in Contexts, call[c].pc = "objects",
         NEW x301 \in Key \cup {Absent}, NEW exchange \in Exchange \cup {Absent},
         x301 # Absent =>
           /\ context[c].operation = "encapsulate" =>
                /\ x301.private \in RawSecrets
                /\ x301.public = PublicOf(x301.private) /\ x301.public # Absent
           /\ context[c].operation = "decapsulate" => x301 = NewKey,
         Objects(c, x301, exchange)
  PROVE  IInv'
<1> DEFINE C == [call[c] EXCEPT !.x301 = x301, !.exchange = exchange,
                   !.pc = IF x301 # Absent /\ exchange # Absent THEN "agree" ELSE "cleanup"]
<1>1. call' = [call EXCEPT ![c] = C] /\ nonce' \in 0 .. MaxNonce
    BY CallAt DEF Objects
<1>2. /\ C \in Call /\ C.x301 = x301 /\ C.exchange = exchange /\ C.mlkem = call[c].mlkem
      /\ C.pc = IF x301 # Absent /\ exchange # Absent THEN "agree" ELSE "cleanup"
      /\ C.ciphertext = call[c].ciphertext /\ C.secret = call[c].secret /\ C.done = call[c].done
    BY CallAt DEF Call
<1> HIDE DEF C
<1>3. CallOK(context[c], KeyOf(c), C)
    BY <1>2, CallAt DEF CallOK
<1> QED
    BY <1>1, <1>2, <1>3, CallAt, QuietStep DEF Objects, CallUnrelated

LEMMA FreshObjects ==
  /\ NewKey \in Key /\ NewExchange \in Exchange
  /\ NewKey # Absent /\ NewExchange # Absent
BY Distinct DEF NewKey, NewExchange, Key, Exchange

LEMMA EncapsulateObjectsInv ==
  ASSUME IInv, NEW c \in Contexts, NEW secret \in RawSecrets, NEW x301 \in BOOLEAN,
         NEW exchange \in BOOLEAN, EncapsulateObjects(c, secret, x301, exchange)
  PROVE  IInv'
<1> DEFINE own == IF x301 THEN Generate(secret) ELSE Absent
           X == IF exchange THEN NewExchange ELSE Absent
<1>1. /\ own \in Key \cup {Absent} /\ X \in Exchange \cup {Absent}
      /\ own # Absent => /\ own.private \in RawSecrets /\ own.public # Absent
                         /\ own.public = PublicOf(own.private)
    BY GeneratedKey, FreshObjects, Distinct DEF EncapsulateObjects
<1>2. call[c].pc = "objects" /\ context[c].operation = "encapsulate" /\ Objects(c, own, X)
    BY DEF EncapsulateObjects, At
<1> HIDE DEF own, X
<1> QED
    BY <1>1, <1>2, ObjectsInv

LEMMA DecapsulateObjectsInv ==
  ASSUME IInv, NEW c \in Contexts, NEW x301 \in BOOLEAN, NEW exchange \in BOOLEAN,
         DecapsulateObjects(c, x301, exchange)
  PROVE  IInv'
<1> DEFINE peer == IF x301 THEN NewKey ELSE Absent
           X == IF exchange THEN NewExchange ELSE Absent
<1>1. /\ peer \in Key \cup {Absent} /\ X \in Exchange \cup {Absent}
      /\ peer # Absent => peer = NewKey
    BY FreshObjects
<1>2. call[c].pc = "objects" /\ context[c].operation = "decapsulate" /\ Objects(c, peer, X)
    BY DEF DecapsulateObjects, At
<1> HIDE DEF peer, X
<1> QED
    BY <1>1, <1>2, ObjectsInv

\* A fresh or used exchange, initialised and given its peer, derives from the
\* two keys alone.
LEMMA DerivedIsShared ==
  ASSUME NEW exchange \in Exchange, NEW own \in Key, NEW peer \in Key,
         own.private # Absent, peer.public # Absent
  PROVE  Derived(exchange, own, peer) = Shared(own.private, peer.public)
BY Distinct DEF Derived, ExchangeDerive, SetPeer, PeerAccepted, ExchangeInit, Key

LEMMA SharedType ==
  ASSUME NEW s \in RawSecrets, NEW u \in Publics PROVE Shared(s, u) \in SharedSecrets
BY DEF SharedSecrets

LEMMA EncapsulateAgreeInv ==
  ASSUME IInv, NEW c \in Contexts, EncapsulateAgree(c)
  PROVE  IInv'
<1> DEFINE K == KeyOf(c)
           own == call[c].x301
           derived == Shared(own.private, K.x301.public)
           C == [call[c] EXCEPT !.pc = AgreeEnds(derived), !.ciphertext = <<@[1], own.public>>,
                   !.secret = <<@[1], IF derived = Absent THEN Zero ELSE derived>>]
<1>1. call[c].pc = "agree" /\ context[c] # Free /\ context[c].operation = "encapsulate"
    BY DEF EncapsulateAgree, At
<1>2. call[c] \in Call /\ CallOK(context[c], K, call[c]) /\ nonce' \in 0 .. MaxNonce
    BY <1>1, CallAt DEF EncapsulateAgree
<1>3. K.x301 \in Key /\ K.x301.public \in Publics
    BY <1>1, KeyOfContext
<1>4. /\ own \in Key /\ own.private \in RawSecrets /\ own.public = PublicOf(own.private)
      /\ own.public \in Publics /\ call[c].exchange \in Exchange
      /\ call[c].ciphertext[1] \in MlCiphertext
      /\ call[c].secret[1] = MlSecretOf(K.mlkem.pair, call[c].ciphertext[1])
    BY <1>1, <1>2 DEF CallOK, Key
<1>5. derived = Derived(call[c].exchange, own, K.x301) /\ derived \in SharedSecrets
    BY <1>3, <1>4, Distinct, DerivedIsShared, SharedType
<1>6. call' = [call EXCEPT ![c] = C]
    BY <1>5 DEF EncapsulateAgree, ServerShare
<1>7. own.public \in RawPublics /\ K.mlkem.pair \in Pairs
    BY <1>1, <1>4, KeyOfContext, CurveAssumption DEF CurveAssumption
<1>8. call[c].secret[1] \in MlSecret
    BY <1>4, <1>7, MlSecretType
<1> HIDE DEF K, own, derived
<1>9. /\ C \in Call /\ C.pc = AgreeEnds(derived) /\ C.done = call[c].done
      /\ C.ciphertext = <<call[c].ciphertext[1], own.public>>
      /\ C.secret = <<call[c].secret[1], IF derived = Absent THEN Zero ELSE derived>>
    BY <1>2, <1>4, <1>5, <1>7, <1>8 DEF Call, AgreeEnds
<1> HIDE DEF C
<1>10. ASSUME C.pc = "copy"
       PROVE  Encapsulated(<<K.mlkem.pair, K.x301.public>>, C.ciphertext, C.secret)
  <2>1. C.secret = <<call[c].secret[1], derived>>
      BY <1>9, <1>10 DEF AgreeEnds
  <2>2. C.ciphertext \in Ciphertexts /\ C.secret \in Secrets
      BY <1>4, <1>5, <1>7, <1>8, <1>9, <2>1 DEF Ciphertexts, Secrets
  <2> QED
      BY <1>4, <1>9, <2>1, <2>2 DEF Encapsulated, derived
<1>11. CallOK(context[c], K, C)
    BY <1>1, <1>2, <1>9, <1>10 DEF CallOK, AgreeEnds, Agreed
<1> QED
    BY <1>1, <1>2, <1>6, <1>9, <1>11, CallAt, QuietStep DEF EncapsulateAgree, CallUnrelated, K

LEMMA DecapsulateAgreeInv ==
  ASSUME IInv, NEW c \in Contexts, DecapsulateAgree(c)
  PROVE  IInv'
<1> DEFINE K == KeyOf(c)
           received == call[c].ciphertext[2]
           peer == [private |-> Absent, public |-> Canon(received)]
           derived == Shared(K.x301.private, Canon(received))
           C == [call[c] EXCEPT !.pc = AgreeEnds(derived), !.x301 = peer,
                   !.secret = <<@[1], IF derived = Absent THEN Zero ELSE derived>>]
<1>1. call[c].pc = "agree" /\ context[c] # Free /\ context[c].operation = "decapsulate"
    BY DEF DecapsulateAgree, At
<1>2. call[c] \in Call /\ CallOK(context[c], K, call[c]) /\ nonce' \in 0 .. MaxNonce
    BY <1>1, CallAt DEF DecapsulateAgree
<1>3. K.x301 \in Key /\ K.x301.private \in RawSecrets
    BY <1>1, KeyOfContext
<1>4. /\ call[c].x301 = NewKey /\ call[c].exchange \in Exchange
      /\ call[c].ciphertext \in Ciphertexts
      /\ call[c].secret[1] = MlSecretOf(K.mlkem.pair, call[c].ciphertext[1])
    BY <1>1, <1>2 DEF CallOK
<1>5. received \in RawPublics /\ Canon(received) \in Publics /\ call[c].ciphertext[1] \in MlCiphertext
    BY <1>4, CurveAssumption DEF Ciphertexts, CurveAssumption
<1>6. SetEncodedPublic(call[c].x301, received) = peer /\ peer \in Key /\ peer.public # Absent
    BY <1>4, <1>5, ImportedPublic, Distinct DEF Key
<1>7. derived = Derived(call[c].exchange, K.x301, peer) /\ derived \in SharedSecrets
    BY <1>3, <1>4, <1>5, <1>6, Distinct, DerivedIsShared, SharedType
<1>8. call' = [call EXCEPT ![c] = C]
    BY <1>6, <1>7 DEF DecapsulateAgree
<1>9. call[c].secret[1] \in MlSecret
    BY <1>1, <1>4, <1>5, KeyOfContext, MlSecretType
<1> HIDE DEF K, peer, derived
<1>10. /\ C \in Call /\ C.pc = AgreeEnds(derived) /\ C.done = call[c].done
       /\ C.ciphertext = call[c].ciphertext
       /\ C.secret = <<call[c].secret[1], IF derived = Absent THEN Zero ELSE derived>>
    BY <1>2, <1>6, <1>7, <1>9 DEF Call, AgreeEnds
<1> HIDE DEF C
<1>11. ASSUME C.pc = "copy" PROVE Decapsulated(K, C.ciphertext, C.secret)
  <2>1. derived # Absent /\ C.secret = <<call[c].secret[1], derived>> /\ C.secret \in Secrets
      BY <1>7, <1>9, <1>10, <1>11 DEF AgreeEnds, Secrets
  <2> QED
      BY <1>4, <1>10, <2>1 DEF Decapsulated, derived
<1>12. CallOK(context[c], K, C)
    BY <1>1, <1>2, <1>4, <1>10, <1>11 DEF CallOK, AgreeEnds, Agreed
<1> QED
    BY <1>1, <1>2, <1>8, <1>10, <1>12, CallAt, QuietStep DEF DecapsulateAgree, CallUnrelated, K

\* What a call at "copy" writes into the caller's buffers.
LEMMA CopiesInv ==
  ASSUME IInv, NEW c \in Contexts, call[c].pc = "copy",
         call' = [call EXCEPT ![c].pc = "cleanup", ![c].done = TRUE],
         output' = [output EXCEPT ![c].ciphertext = call[c].ciphertext,
                                  ![c].secret = call[c].secret],
         UNCHANGED <<key, context, nonce>>
  PROVE  CallInv'
<1> DEFINE C == [call[c] EXCEPT !.pc = "cleanup", !.done = TRUE]
           O == [output[c] EXCEPT !.ciphertext = call[c].ciphertext, !.secret = call[c].secret]
<1>1. /\ call[c] \in Call /\ context[c] # Free
      /\ context[c].operation \in {"encapsulate", "decapsulate"}
      /\ Agreed(context[c].operation, KeyOf(c), call[c].ciphertext, call[c].secret)
    BY CallAt DEF CallOK
<1>2. call[c].ciphertext \in Ciphertexts /\ call[c].secret \in Secrets
    BY <1>1 DEF Agreed, Encapsulated, Decapsulated
<1>3. C \in Call /\ C.pc = "cleanup" /\ C.done = TRUE /\ C.ciphertext = call[c].ciphertext
    BY <1>1 DEF Call
<1>4. output[c] \in Output /\ output[c].result = "none"
    BY DEF IInv, CallInv, OutputOK, Output
<1>5. /\ O \in Output /\ O.result = "none"
      /\ O.ciphertext = call[c].ciphertext /\ O.secret = call[c].secret
    BY <1>2, <1>4 DEF Output
<1>6. call' = [call EXCEPT ![c] = C] /\ output' = [output EXCEPT ![c] = O]
    OBVIOUS
<1> HIDE DEF C, O
<1>7. CallOK(context[c], KeyOf(c), C)
    BY <1>1, <1>2, <1>3 DEF CallOK
<1>8. OutputOK(context[c], KeyOf(c), C, O)
    BY <1>1, <1>3, <1>5 DEF OutputOK
<1>9. nonce' \in 0 .. MaxNonce
    BY CallAt
<1> QED
    BY <1>6, <1>7, <1>8, <1>9, UpdateCall

LEMMA EncapsulateCopiesInv ==
  ASSUME IInv, NEW c \in Contexts, EncapsulateCopies(c)
  PROVE  IInv'
<1>1. /\ call[c].pc = "copy" /\ context[c] # Free /\ context[c].operation = "encapsulate"
      /\ UNCHANGED <<key, context>>
    BY DEF EncapsulateCopies, At, CallUnrelated
<1>2. CallInv'
    BY <1>1, CopiesInv DEF EncapsulateCopies
<1>3. EncodedPublic(context[c].key) \in Pairs \X Publics
    BY <1>1, KeyOfContext DEF EncodedPublic, KeyOf
<1>4. Encapsulated(EncodedPublic(context[c].key), call[c].ciphertext, call[c].secret)
    BY <1>1, CallAt DEF CallOK, Agreed, EncodedPublic, KeyOf
<1>5. SentInv'
    BY <1>3, <1>4 DEF EncapsulateCopies, IInv, SentInv, Encapsulated
<1> QED
    BY <1>1, <1>2, <1>5 DEF IInv, KeyInv, ContextInv, ContextOK

LEMMA DecapsulateCopiesInv ==
  ASSUME IInv, NEW c \in Contexts, DecapsulateCopies(c)
  PROVE  IInv'
<1>1. call[c].pc = "copy" /\ UNCHANGED <<key, context, sent>>
    BY DEF DecapsulateCopies, At, CallUnrelated
<1>2. CallInv'
    BY <1>1, CopiesInv DEF DecapsulateCopies
<1> QED
    BY <1>1, <1>2 DEF IInv, KeyInv, ContextInv, ContextOK, SentInv, Encapsulated

LEMMA CleanupInv ==
  ASSUME IInv, NEW c \in Contexts, Cleanup(c)
  PROVE  IInv'
<1> DEFINE O == [output[c] EXCEPT !.result = IF call[c].done THEN "ok" ELSE "failed"]
<1>1. call[c].pc = "cleanup" /\ nonce' \in 0 .. MaxNonce /\ call[c].done \in BOOLEAN
    BY DEF Cleanup, IInv, CallInv, Call
<1>2. output[c] \in Output /\ OutputOK(context[c], KeyOf(c), call[c], output[c]) /\ output[c].result = "none"
    BY <1>1 DEF IInv, CallInv, OutputOK, Output
<1>3. /\ O \in Output /\ O.ciphertext = output[c].ciphertext /\ O.secret = output[c].secret
      /\ O.result = IF call[c].done THEN "ok" ELSE "failed"
    BY <1>2 DEF Output
<1> HIDE DEF O
<1>4. OutputOK(context[c], KeyOf(c), NoCall, O)
    BY <1>1, <1>2, <1>3 DEF OutputOK, NoCall
<1>5. call' = [call EXCEPT ![c] = NoCall] /\ output' = [output EXCEPT ![c] = O]
    BY DEF Cleanup, O
<1> QED
    BY <1>1, <1>4, <1>5, NoCallOK, CallChange DEF Cleanup, CallUnrelated

-----------------------------------------------------------------------------
\* The invariant holds at the start, and every step keeps it.

LEMMA GenerationType ==
  ASSUME generation \in GenContext \cup {Free}, [Next]_vars
  PROVE  (generation \in GenContext \cup {Free})'
<1>1. CASE KeyStep
  <2>1. KeyUnrelated
    <3>1. \A k \in Keys : /\ \A q : KeyNew(k, q) => KeyUnrelated
                          /\ KeyFree(k) => KeyUnrelated
        BY Zenon DEF KeyNew, KeyFree
    <3>2. \A k, share, mlkem, x301, encoded : SetParams(k, share, mlkem, x301, encoded) => KeyUnrelated
        BY Zenon DEF SetParams
    <3>3. \A k, pair, secret, mlkem, x301 : Gen(k, pair, secret, mlkem, x301) => KeyUnrelated
        BY Zenon DEF Gen
    <3> QED
        BY <1>1, <3>1, <3>2, <3>3, Zenon DEF KeyStep
  <2> QED
      BY <2>1 DEF KeyUnrelated
<1>2. CASE GenerationStep
    BY <1>2 DEF GenerationStep, GenInit, GenCleanup, GenContext
<1>3. CASE ContextStep
    BY <1>3 DEF ContextStep, KemNew, KemFree, KemInit, Refuse, ContextUnrelated, CallUnrelated
<1>4. CASE CallStep
  <2>1. ASSUME NEW c
        PROVE  /\ EncapsulateStart(c) => CallUnrelated
               /\ \A ciphertext : DecapsulateStart(c, ciphertext) => CallUnrelated
               /\ MlkemEncapsulates(c) \/ MlkemDecapsulates(c) => CallUnrelated
               /\ EncapsulateCopies(c) \/ DecapsulateCopies(c) => CallUnrelated
      BY DEF EncapsulateStart, DecapsulateStart, MlkemEncapsulates, MlkemDecapsulates,
             EncapsulateCopies, DecapsulateCopies
  <2>2. ASSUME NEW c
        PROVE  /\ MlkemFails(c) \/ Cleanup(c) => CallUnrelated
               /\ EncapsulateAgree(c) \/ DecapsulateAgree(c) => CallUnrelated
               /\ \A s, x, e : EncapsulateObjects(c, s, x, e) => CallUnrelated
               /\ \A x, e : DecapsulateObjects(c, x, e) => CallUnrelated
      BY DEF MlkemFails, Cleanup, EncapsulateAgree, DecapsulateAgree, EncapsulateObjects,
             DecapsulateObjects, Objects
  <2> QED
      BY <1>4, <2>1, <2>2 DEF CallStep, CallUnrelated
<1>5. CASE UNCHANGED vars
    BY <1>5 DEF vars
<1> QED
    BY <1>1, <1>2, <1>3, <1>4, <1>5 DEF Next

LEMMA Frame ==
  ASSUME IInv, UNCHANGED <<key, context, call, output, nonce, sent>>
  PROVE  IInv'
BY DEF IInv, KeyInv, ContextInv, ContextOK, CallInv, CallOK, OutputOK, Agreed, Encapsulated,
       Decapsulated, KeyOf, SentInv

Inv == IInv /\ generation \in GenContext \cup {Free}

LEMMA InitInv == Init => Inv
<1> SUFFICES ASSUME Init PROVE Inv
    OBVIOUS
<1>1. KeyInv /\ ContextInv /\ SentInv /\ generation = Free
    BY DEF Init, KeyInv, ContextInv, SentInv
<1>2. NoCall \in Call /\ NoOutput \in Output /\ ~NoCall.done
    BY DEF NoCall, Call, NoOutput, Output
<1>3. nonce \in 0 .. MaxNonce
    BY HybridAssumption DEF Init, HybridAssumption
<1>4. CallInv
    BY <1>2, <1>3, NoCallOK, NoOutputOK DEF Init, CallInv
<1> QED
    BY <1>1, <1>4 DEF Inv, IInv

LEMMA NextInv == Inv /\ [Next]_vars => Inv'
<1> SUFFICES ASSUME Inv, [Next]_vars PROVE IInv'
    BY GenerationType DEF Inv
<1> USE DEF Inv
<1>1. CASE KeyStep
    BY <1>1, KeyNewInv, KeyFreeInv, SetParamsInv, GenInv DEF KeyStep
<1>2. CASE GenerationStep
    BY <1>2, Frame DEF GenerationStep, GenInit, GenCleanup
<1>3. CASE ContextStep
    BY <1>3, KemNewInv, KemFreeInv, KemInitInv, RefuseInv DEF ContextStep
<1>4. CASE CallStep
    BY <1>4, EncapsulateStartInv, DecapsulateStartInv, MlkemFailsInv, MlkemEncapsulatesInv,
       MlkemDecapsulatesInv, EncapsulateObjectsInv, DecapsulateObjectsInv, EncapsulateAgreeInv,
       DecapsulateAgreeInv, EncapsulateCopiesInv, DecapsulateCopiesInv, CleanupInv DEF CallStep
<1>5. CASE UNCHANGED vars
    BY <1>5, Frame DEF vars
<1> QED
    BY <1>1, <1>2, <1>3, <1>4, <1>5 DEF Next

\* Keys are whole, contexts fit their keys, calls and buffers are in step with
\* both, and what was sent was made for the share it names.
THEOREM Invariance == Spec => []Inv
BY InitInv, NextInv, PTL DEF Spec

-----------------------------------------------------------------------------
\* What the invariant says of the properties the runs check.

\* KeysAreWhole: both halves or none, and the halves of a key pair match.
THEOREM Wholeness == Spec => []KeysAreWhole
<1>1. Inv => KeysAreWhole
  <2> SUFFICES ASSUME Inv, NEW k \in Keys, key[k] # Free
               PROVE  KeysAreWhole!(k)!2
      BY DEF KeysAreWhole
  <2>1. KeyOK(key[k])
      BY DEF Inv, IInv, KeyInv
  <2>2. key[k].state \in {"empty", "public", "private"}
      BY <2>1 DEF KeyOK, HybridKey
  <2>3. CASE key[k].state = "empty"
      BY <2>1, <2>3 DEF KeyOK, KeyHas
  <2>4. CASE key[k].state # "empty"
    <3>1. /\ KeyHas(k, FALSE, TRUE) /\ (KeyHas(k, TRUE, TRUE) <=> key[k].state = "private")
          /\ KeyHas(k, TRUE, FALSE) <=> key[k].state = "private"
        BY <2>2, <2>4 DEF KeyHas
    <3>2. /\ key[k].mlkem \in MlKey /\ key[k].x301 \in Key /\ key[k].x301.public \in Publics
          /\ key[k].mlkem.private <=> key[k].state = "private"
          /\ key[k].x301.private # Absent <=> key[k].state = "private"
          /\ key[k].x301.private # Absent => key[k].x301.public = PublicOf(key[k].x301.private)
        BY <2>1, <2>4 DEF KeyOK
    <3>3. key[k].mlkem # Absent /\ key[k].x301 # Absent /\ key[k].x301.public # Absent
        BY <3>2, Distinct
    <3>4. EncodedPublic(k) \in Shares
        BY <3>2, CurveAssumption DEF EncodedPublic, Shares, MlKey, CurveAssumption
    <3>5. key[k].mlkem.private = KeyHas(k, TRUE, TRUE)
      <4>1. key[k].mlkem.private \in BOOLEAN /\ KeyHas(k, TRUE, TRUE) \in BOOLEAN
          BY <3>2 DEF MlKey, KeyHas
      <4> QED
          BY <3>1, <3>2, <4>1
    <3>6. (key[k].x301.private # Absent) = KeyHas(k, TRUE, TRUE)
        BY <3>1, <3>2 DEF KeyHas
    <3>7. KeyHas(k, TRUE, FALSE) => Validate(key[k].x301, TRUE, TRUE)
        BY <3>1, <3>2, <3>3 DEF Validate
    <3> QED
        BY <3>1, <3>3, <3>4, <3>5, <3>6, <3>7
  <2> QED
      BY <2>3, <2>4
<1> QED
    BY <1>1, Invariance, PTL

\* ContextFitsKey: what hybrid_kem_init tested still holds.
THEOREM Fitness == Spec => []ContextFitsKey
<1>1. Inv => ContextFitsKey
  <2> SUFFICES ASSUME Inv, NEW c \in Contexts, context[c] # Free, context[c].key # Absent
               PROVE  ContextFitsKey!(c)!2
      BY DEF ContextFitsKey
  <2>1. ContextOK(context[c])
      BY DEF Inv, IInv, ContextInv
  <2>2. KeyOK(KeyOf(c))
      BY <2>1 DEF Inv, IInv, KeyInv, ContextOK, KemContext, KeyOf
  <2> QED
      BY <2>1, <2>2, Distinct DEF ContextOK, KeyOK, KeyOf
<1> QED
    BY <1>1, Invariance, PTL

\* OutputIsWhole: both halves of both buffers, or neither buffer.
THEOREM Outputs == Spec => []OutputIsWhole
<1>1. Inv => OutputIsWhole
  <2> SUFFICES ASSUME Inv, NEW c \in Contexts PROVE OutputIsWhole!(c)
      BY DEF OutputIsWhole
  <2>1. OutputOK(context[c], KeyOf(c), call[c], output[c]) /\ CallOK(context[c], KeyOf(c), call[c])
      BY DEF Inv, IInv, CallInv
  <2>2. CASE output[c].result = "ok" \/ call[c].done
    <3>1. output[c].ciphertext \in Ciphertexts /\ output[c].secret \in Secrets
      <4>1. context[c].operation \in {"encapsulate", "decapsulate"}
          BY <2>1, <2>2, KeyOfContext DEF OutputOK, Inv
      <4> QED
          BY <2>1, <2>2, <4>1 DEF OutputOK, Agreed, Encapsulated, Decapsulated
    <3>2. output[c].ciphertext # Untouched /\ output[c].secret # Untouched
        BY <3>1, HybridAssumption DEF HybridAssumption
    <3>3. output[c].result # "failed"
        BY <2>1, <2>2 DEF OutputOK, CallOK, NoCall
    <3>4. \A i \in 1 .. 2 : output[c].secret[i] # Zero /\ output[c].ciphertext[i] # Zero
        BY <3>1, HybridAssumption DEF HybridAssumption, Ciphertexts, Secrets
    <3> QED
        BY <3>2, <3>3, <3>4
  <2>3. CASE ~(output[c].result = "ok" \/ call[c].done)
      BY <2>1, <2>3 DEF OutputOK
  <2> QED
      BY <2>2, <2>3
<1> QED
    BY <1>1, Invariance, PTL

\* SecretsAgree: the receiver's secret is the sender's when, and only when the
\* ML-KEM half, the ciphertext was made for the receiver's key.
THEOREM Agreement == Spec => []SecretsAgree
<1>1. Inv => SecretsAgree
  <2> SUFFICES ASSUME Inv, NEW c \in Contexts, NEW m \in sent, output[c].result = "ok",
                      context[c].operation = "decapsulate"
               PROVE  SecretsAgree!(c, m)!2
      BY DEF SecretsAgree
  <2> DEFINE K == KeyOf(c)
             share == EncodedPublic(context[c].key)
             received == output[c].ciphertext
  <2>1. context[c] # Free /\ Decapsulated(K, received, output[c].secret)
      BY DEF Inv, IInv, CallInv, OutputOK, Agreed
  <2>2. /\ K.x301.private \in RawSecrets /\ K.x301.public = PublicOf(K.x301.private)
        /\ K.x301.public \in Publics
      BY <2>1, KeyOfContext DEF Inv
  <2>3. share = <<K.mlkem.pair, K.x301.public>>
      BY DEF EncodedPublic, KeyOf
  <2>4. /\ output[c].secret \in Secrets /\ received \in Ciphertexts
        /\ output[c].secret[1] = MlSecretOf(K.mlkem.pair, received[1])
        /\ output[c].secret[2] = Shared(K.x301.private, Canon(received[2]))
      BY <2>1 DEF Decapsulated
  <2>5. Encapsulated(m.share, m.ciphertext, m.secret)
      BY DEF Inv, IInv, SentInv
  <2>6. PICK s \in RawSecrets :
          /\ PublicOf(s) = m.ciphertext[2] /\ m.ciphertext[2] \in Publics
          /\ m.secret[2] = Shared(s, m.share[2])
      BY <2>5 DEF Encapsulated
  <2>7. m.secret \in Secrets /\ m.secret[1] = MlSecretOf(m.share[1], m.ciphertext[1])
      BY <2>5 DEF Encapsulated
  <2> HIDE DEF K, share, received
  <2>8. ASSUME share = m.share, received[1] = m.ciphertext[1], Canon(received[2]) = m.ciphertext[2]
        PROVE  output[c].secret = m.secret
    <3>1. m.share[1] = K.mlkem.pair /\ m.share[2] = PublicOf(K.x301.private)
        BY <2>2, <2>3, <2>8
    <3>2. output[c].secret[1] = m.secret[1]
        BY <2>4, <2>7, <2>8, <3>1
    <3>3. PublicOf(s) # Absent /\ PublicOf(K.x301.private) # Absent
        BY <2>2, <2>6, Distinct
    <3>4. output[c].secret[2] = m.secret[2]
        BY <2>2, <2>4, <2>6, <2>8, <3>1, <3>3, AgreementAssumption DEF AgreementAssumption
    <3> QED
        BY <2>4, <2>7, <3>2, <3>4 DEF Secrets
  <2>9. ASSUME output[c].secret = m.secret
        PROVE  share[1] = m.share[1] /\ received[1] = m.ciphertext[1]
      BY <2>3, <2>4, <2>7, <2>9 DEF MlSecretOf
  <2> QED
      BY <2>8, <2>9 DEF share, received
<1> QED
    BY <1>1, Invariance, PTL

-----------------------------------------------------------------------------
\* What is allocated.  One step changes at most one member of each of the sets
\* that are counted.

MlkemUsers == {c \in Contexts : call[c].mlkem}

LiveInv ==
  /\ live \in [x301 : Int, mlkem : Int, exchange : Int, evp : Int]
  /\ live.x301 = Cardinality(Holders("x301")) + Cardinality(Users("x301"))
  /\ live.mlkem = Cardinality(Holders("mlkem"))
  /\ live.exchange = Cardinality(Users("exchange"))
  /\ live.evp = Cardinality(MlkemUsers)

\* How many objects of a kind a key holds, and how many EVP contexts a call.
HeldBy(K, field) == IF K = Free THEN 0 ELSE Count(K[field])
EvpOf(C) == IF C.mlkem THEN 1 ELSE 0

LEMMA CountChange ==
  ASSUME NEW U, IsFiniteSet(U), NEW x \in U, NEW S \in SUBSET U, NEW T \in SUBSET U,
         \A y \in U : y # x => (y \in T <=> y \in S)
  PROVE  /\ Cardinality(S) \in Nat /\ Cardinality(T) \in Nat
         /\ Cardinality(T) = Cardinality(S) - (IF x \in S THEN 1 ELSE 0) + (IF x \in T THEN 1 ELSE 0)
<1>1. IsFiniteSet(S) /\ IsFiniteSet(T)
    BY FS_Subset
<1>2. Cardinality(S) \in Nat /\ Cardinality(T) \in Nat
    BY <1>1, FS_CardinalityType
<1>3. CASE x \in S /\ x \notin T
  <2>1. T = S \ {x}
      BY <1>3
  <2> QED
      BY <1>1, <1>2, <1>3, <2>1, FS_RemoveElement
<1>4. CASE x \notin S /\ x \in T
  <2>1. T = S \cup {x}
      BY <1>4
  <2> QED
      BY <1>1, <1>2, <1>4, <2>1, FS_AddElement
<1>5. CASE x \in S <=> x \in T
  <2>1. T = S
      BY <1>5
  <2> QED
      BY <1>2, <1>5, <2>1
<1> QED
    BY <1>2, <1>3, <1>4, <1>5

\* The keys that hold an object of a kind, when the key k becomes K.
LEMMA HoldersChange ==
  ASSUME IInv, NEW k \in Keys, NEW K, key' = [key EXCEPT ![k] = K], NEW field
  PROVE  /\ Cardinality(Holders(field)) \in Nat /\ Cardinality(Holders(field)') \in Nat
         /\ Cardinality(Holders(field)') =
              Cardinality(Holders(field)) - HeldBy(key[k], field)
                + HeldBy(K, field)
<1>1. Holders(field) \in SUBSET Keys /\ Holders(field)' \in SUBSET Keys
    BY DEF Holders
<1>2. \A j \in Keys : j # k => (j \in Holders(field)' <=> j \in Holders(field))
    BY DEF Holders, IInv, KeyInv
<1>3. /\ k \in Holders(field) <=> key[k] # Free /\ key[k][field] # Absent
      /\ k \in Holders(field)' <=> K # Free /\ K[field] # Absent
    BY DEF Holders, IInv, KeyInv
<1>4. IsFiniteSet(Keys)
    BY HybridAssumption DEF HybridAssumption
<1>5. /\ (IF k \in Holders(field) THEN 1 ELSE 0) = HeldBy(key[k], field)
      /\ (IF k \in Holders(field)' THEN 1 ELSE 0) = HeldBy(K, field)
    BY <1>3 DEF HeldBy, Count
<1> QED
    BY <1>1, <1>2, <1>4, <1>5, CountChange

\* The calls that hold one, when the call of c becomes C.
LEMMA UsersChange ==
  ASSUME IInv, NEW c \in Contexts, NEW C, call' = [call EXCEPT ![c] = C], NEW field
  PROVE  /\ Cardinality(Users(field)) \in Nat /\ Cardinality(Users(field)') \in Nat
         /\ Cardinality(Users(field)') =
              Cardinality(Users(field)) - Count(call[c][field]) + Count(C[field])
<1>1. Users(field) \in SUBSET Contexts /\ Users(field)' \in SUBSET Contexts
    BY DEF Users
<1>2. \A d \in Contexts : d # c => (d \in Users(field)' <=> d \in Users(field))
    BY DEF Users, IInv, CallInv
<1>3. /\ c \in Users(field) <=> call[c][field] # Absent
      /\ c \in Users(field)' <=> C[field] # Absent
    BY DEF Users, IInv, CallInv
<1>4. IsFiniteSet(Contexts)
    BY HybridAssumption DEF HybridAssumption
<1>5. /\ (IF c \in Users(field) THEN 1 ELSE 0) = Count(call[c][field])
      /\ (IF c \in Users(field)' THEN 1 ELSE 0) = Count(C[field])
    BY <1>3 DEF Count
<1> QED
    BY <1>1, <1>2, <1>4, <1>5, CountChange

LEMMA MlkemUsersChange ==
  ASSUME IInv, NEW c \in Contexts, NEW C, call' = [call EXCEPT ![c] = C]
  PROVE  /\ Cardinality(MlkemUsers) \in Nat /\ Cardinality(MlkemUsers') \in Nat
         /\ Cardinality(MlkemUsers') =
              Cardinality(MlkemUsers) - EvpOf(call[c]) + EvpOf(C)
<1>1. MlkemUsers \in SUBSET Contexts /\ MlkemUsers' \in SUBSET Contexts
    BY DEF MlkemUsers
<1>2. \A d \in Contexts : d # c => (d \in MlkemUsers' <=> d \in MlkemUsers)
    BY DEF MlkemUsers, IInv, CallInv
<1>3. /\ c \in MlkemUsers <=> call[c].mlkem
      /\ c \in MlkemUsers' <=> C.mlkem
    BY DEF MlkemUsers, IInv, CallInv
<1>4. IsFiniteSet(Contexts)
    BY HybridAssumption DEF HybridAssumption
<1>5. (IF c \in MlkemUsers THEN 1 ELSE 0) = EvpOf(call[c]) /\ (IF c \in MlkemUsers' THEN 1 ELSE 0) = EvpOf(C)
    BY <1>3 DEF EvpOf
<1> QED
    BY <1>1, <1>2, <1>4, <1>5, CountChange

LiveType == [x301 : Int, mlkem : Int, exchange : Int, evp : Int]

\* Objects are allocated and freed as a key changes from key[k] to K.
LEMMA KeyLive ==
  ASSUME IInv, LiveInv, NEW k \in Keys, NEW K, key' = [key EXCEPT ![k] = K], UNCHANGED call,
         NEW x301 \in Int, x301 = live.x301 - HeldBy(key[k], "x301") + HeldBy(K, "x301"),
         NEW mlkem \in Int, mlkem = live.mlkem - HeldBy(key[k], "mlkem") + HeldBy(K, "mlkem"),
         live' = [live EXCEPT !.x301 = x301, !.mlkem = mlkem]
  PROVE  LiveInv'
<1>0. /\ live' \in LiveType /\ live'.exchange = live.exchange /\ live'.evp = live.evp
      /\ live'.x301 = x301 /\ live'.mlkem = mlkem
    BY DEF LiveInv, LiveType
<1>1. Users("x301")' = Users("x301") /\ Users("exchange")' = Users("exchange") /\ MlkemUsers' = MlkemUsers
    BY DEF Users, MlkemUsers
<1>2. live \in LiveType
    BY DEF LiveInv, LiveType
<1>4. Cardinality(Users("x301")) \in Nat
  <2>1. IsFiniteSet(Users("x301"))
      BY FS_Subset, HybridAssumption DEF Users, HybridAssumption
  <2> QED
      BY <2>1, FS_CardinalityType
<1>5. /\ Cardinality(Holders("x301")) \in Nat /\ Cardinality(Holders("x301")') \in Nat
      /\ Cardinality(Holders("x301")') =
           Cardinality(Holders("x301")) - HeldBy(key[k], "x301")
             + HeldBy(K, "x301")
    BY HoldersChange
<1>6. /\ Cardinality(Holders("mlkem")) \in Nat /\ Cardinality(Holders("mlkem")') \in Nat
      /\ Cardinality(Holders("mlkem")') =
           Cardinality(Holders("mlkem")) - HeldBy(key[k], "mlkem")
             + HeldBy(K, "mlkem")
    BY HoldersChange
<1>7. \A L, field : HeldBy(L, field) \in Nat
    BY DEF HeldBy, Count
<1>8. /\ live.x301 = Cardinality(Holders("x301")) + Cardinality(Users("x301"))
      /\ live.mlkem = Cardinality(Holders("mlkem"))
    BY DEF LiveInv
<1>9. live'.x301 = Cardinality(Holders("x301")') + Cardinality(Users("x301"))
    BY <1>0, <1>4, <1>5, <1>7, <1>8
<1>10. live'.mlkem = Cardinality(Holders("mlkem")')
    BY <1>0, <1>6, <1>7, <1>8
<1> QED
    BY <1>0, <1>1, <1>9, <1>10 DEF LiveInv, LiveType

\* Objects are allocated and freed as a call changes from call[c] to C.
LEMMA CallLive ==
  ASSUME IInv, LiveInv, NEW c \in Contexts, NEW C, call' = [call EXCEPT ![c] = C], UNCHANGED key,
         live' \in LiveType, live'.mlkem = live.mlkem,
         live'.x301 = live.x301 - Count(call[c].x301) + Count(C.x301),
         live'.exchange = live.exchange - Count(call[c].exchange) + Count(C.exchange),
         live'.evp = live.evp - EvpOf(call[c]) + EvpOf(C)
  PROVE  LiveInv'
<1>1. Holders("x301")' = Holders("x301") /\ Holders("mlkem")' = Holders("mlkem")
    BY DEF Holders
<1>2. live \in LiveType
    BY DEF LiveInv, LiveType
<1>3. Cardinality(Holders("x301")) \in Nat
  <2>1. IsFiniteSet(Holders("x301"))
      BY FS_Subset, HybridAssumption DEF Holders, HybridAssumption
  <2> QED
      BY <2>1, FS_CardinalityType
<1>4. /\ Cardinality(Users("x301")) \in Nat /\ Cardinality(Users("x301")') \in Nat
      /\ Cardinality(Users("x301")') =
           Cardinality(Users("x301")) - Count(call[c].x301) + Count(C.x301)
    BY UsersChange
<1>5. /\ Cardinality(Users("exchange")) \in Nat /\ Cardinality(Users("exchange")') \in Nat
      /\ Cardinality(Users("exchange")') =
           Cardinality(Users("exchange")) - Count(call[c].exchange) + Count(C.exchange)
    BY UsersChange
<1>6. /\ Cardinality(MlkemUsers) \in Nat /\ Cardinality(MlkemUsers') \in Nat
      /\ Cardinality(MlkemUsers') =
           Cardinality(MlkemUsers) - EvpOf(call[c]) + EvpOf(C)
    BY MlkemUsersChange
<1>7. \A x : Count(x) \in Nat /\ EvpOf(x) \in Nat
    BY DEF Count, EvpOf
<1>8. /\ live.x301 = Cardinality(Holders("x301")) + Cardinality(Users("x301"))
      /\ live.exchange = Cardinality(Users("exchange"))
      /\ live.evp = Cardinality(MlkemUsers) /\ live.mlkem = Cardinality(Holders("mlkem"))
    BY DEF LiveInv
<1>9. live'.x301 = Cardinality(Holders("x301")) + Cardinality(Users("x301")')
    BY <1>3, <1>4, <1>7, <1>8
<1>10. live'.exchange = Cardinality(Users("exchange")') /\ live'.evp = Cardinality(MlkemUsers')
    BY <1>5, <1>6, <1>7, <1>8
<1> QED
    BY <1>1, <1>8, <1>9, <1>10 DEF LiveInv, LiveType

\* Halves that were made and freed again leave the counts as they were.
LEMMA MadeThenFreed ==
  ASSUME NEW objects \in LiveType, NEW x301 \in BOOLEAN, NEW mlkem \in BOOLEAN
  PROVE  HalvesFreed(HalvesMade(objects, x301, mlkem), x301, mlkem) = objects
<1> DEFINE made == HalvesMade(objects, x301, mlkem)
<1>1. CountIf(x301) \in Int /\ CountIf(mlkem) \in Int
    BY DEF CountIf
<1>2. /\ made \in LiveType /\ made.exchange = objects.exchange /\ made.evp = objects.evp
      /\ made.x301 = objects.x301 + CountIf(x301) /\ made.mlkem = objects.mlkem + CountIf(mlkem)
  <2>1. objects.x301 + CountIf(x301) \in Int /\ objects.mlkem + CountIf(mlkem) \in Int
      BY <1>1 DEF LiveType
  <2> DEFINE x == objects.x301 + CountIf(x301)
             m == objects.mlkem + CountIf(mlkem)
  <2>2. made = [objects EXCEPT !.x301 = x, !.mlkem = m]
      BY DEF HalvesMade
  <2> HIDE DEF x, m, made
  <2>3. /\ made \in LiveType /\ made.exchange = objects.exchange /\ made.evp = objects.evp
        /\ made.x301 = x /\ made.mlkem = m
    <3>1. x \in Int /\ m \in Int
        BY <2>1 DEF x, m
    <3> QED
        BY <2>2, <3>1 DEF LiveType
  <2> QED
      BY <2>3 DEF x, m
<1> HIDE DEF made
<1>3. /\ made.x301 - CountIf(x301) = objects.x301 /\ made.mlkem - CountIf(mlkem) = objects.mlkem
    BY <1>1, <1>2 DEF LiveType
<1>4. HalvesFreed(made, x301, mlkem) = [made EXCEPT !.x301 = objects.x301, !.mlkem = objects.mlkem]
    BY <1>3 DEF HalvesFreed
<1>5. [made EXCEPT !.x301 = objects.x301, !.mlkem = objects.mlkem] = objects
    BY <1>2 DEF LiveType
<1> QED
    BY <1>4, <1>5 DEF made

LEMMA LiveUnchanged ==
  ASSUME LiveInv, UNCHANGED <<key, call, live>>
  PROVE  LiveInv'
BY DEF LiveInv, Holders, Users, MlkemUsers

LEMMA KeyStepLive ==
  ASSUME Inv, LiveInv, KeyStep
  PROVE  LiveInv'
<1> USE DEF Inv
<1>a. live \in LiveType /\ live.x301 \in Int /\ live.mlkem \in Int
    BY DEF LiveInv, LiveType
<1>b. live = [live EXCEPT !.x301 = live.x301, !.mlkem = live.mlkem]
    BY <1>a DEF LiveType
<1>c. ASSUME NEW p PROVE HeldBy(EmptyKey(p), "x301") = 0 /\ HeldBy(EmptyKey(p), "mlkem") = 0
    BY DEF HeldBy, EmptyKey, Count
<1>d. HeldBy(Free, "x301") = 0 /\ HeldBy(Free, "mlkem") = 0
    BY DEF HeldBy
<1>1. ASSUME NEW k \in Keys, NEW p \in Providers, KeyNew(k, p)
      PROVE  LiveInv'
  <2>1. /\ key[k] = Free /\ key' = [key EXCEPT ![k] = EmptyKey(p)]
        /\ UNCHANGED <<live, call>>
      BY <1>1 DEF KeyNew, KeyUnrelated
  <2>2. /\ live.x301 = live.x301 - HeldBy(key[k], "x301") + HeldBy(EmptyKey(p), "x301")
        /\ live.mlkem = live.mlkem - HeldBy(key[k], "mlkem") + HeldBy(EmptyKey(p), "mlkem")
        /\ live' = [live EXCEPT !.x301 = live.x301, !.mlkem = live.mlkem]
      BY <1>a, <1>b, <1>c, <1>d, <2>1
  <2> QED
      BY <1>a, <2>1, <2>2, KeyLive
<1>2. ASSUME NEW k \in Keys, KeyFree(k)
      PROVE  LiveInv'
  <2> DEFINE x == live.x301 - Count(key[k].x301)
             m == live.mlkem - Count(key[k].mlkem)
  <2>1. /\ key[k] # Free /\ key' = [key EXCEPT ![k] = Free] /\ UNCHANGED call
        /\ live' = [live EXCEPT !.x301 = x, !.mlkem = m]
      BY <1>2 DEF KeyFree, KeyUnrelated, HalvesFreed, CountIf, Count
  <2>2. Count(key[k].x301) \in Nat /\ Count(key[k].mlkem) \in Nat
      BY DEF Count
  <2>3. HeldBy(key[k], "x301") = Count(key[k].x301) /\ HeldBy(key[k], "mlkem") = Count(key[k].mlkem)
      BY <2>1 DEF HeldBy
  <2>4. /\ x \in Int /\ x = live.x301 - HeldBy(key[k], "x301") + HeldBy(Free, "x301")
        /\ m \in Int /\ m = live.mlkem - HeldBy(key[k], "mlkem") + HeldBy(Free, "mlkem")
      BY <1>a, <1>d, <2>2, <2>3
  <2> HIDE DEF x, m
  <2> QED
      BY <2>1, <2>4, KeyLive
<1>3. ASSUME NEW k \in Keys, NEW share \in Shares \cup {Malformed, Absent},
             NEW mlkem \in BOOLEAN, NEW x301 \in BOOLEAN, NEW encoded \in BOOLEAN,
         SetParams(k, share, mlkem, x301, encoded)
      PROVE  LiveInv'
  <2>1. CASE mlkem /\ x301 /\ encoded
    <3> DEFINE K == [key[k] EXCEPT !.mlkem = Imported(share[1]),
                       !.x301 = SetEncodedPublic(NewKey, share[2]), !.state = "public"]
               x == live.x301 + 1
               m == live.mlkem + 1
    <3>1. /\ key[k] # Free /\ KeyOK(key[k]) /\ key[k].x301 = Absent /\ key[k].mlkem = Absent
          /\ share \in Shares
        BY <1>3 DEF SetParams, SetParamsAccepts, IInv, KeyInv, KeyOK
    <3>2. share[1] \in Pairs /\ share[2] \in RawPublics /\ Canon(share[2]) \in Publics
        BY <3>1, CurveAssumption DEF Shares, CurveAssumption
    <3>3. Imported(share[1]) \in MlKey /\ SetEncodedPublic(NewKey, share[2]) \in Key
        BY <3>2, ImportedPublic DEF Imported, MlKey, Key
    <3>4. /\ K \in HybridKey /\ K.mlkem = Imported(share[1])
          /\ K.x301 = SetEncodedPublic(NewKey, share[2])
        BY <3>1, <3>3 DEF KeyOK, HybridKey
    <3>5. K # Free /\ K.mlkem # Absent /\ K.x301 # Absent
        BY <3>3, <3>4, Distinct
    <3>6. /\ key' = [key EXCEPT ![k] = K] /\ UNCHANGED call
          /\ live' = [live EXCEPT !.x301 = x, !.mlkem = m]
        BY <1>3, <2>1 DEF SetParams, KeyUnrelated, HalvesMade, CountIf
    <3> HIDE DEF K
    <3>7. /\ HeldBy(key[k], "x301") = 0 /\ HeldBy(K, "x301") = 1
          /\ HeldBy(key[k], "mlkem") = 0 /\ HeldBy(K, "mlkem") = 1
        BY <3>1, <3>5 DEF HeldBy, Count
    <3>8. /\ x \in Int /\ x = live.x301 - HeldBy(key[k], "x301") + HeldBy(K, "x301")
          /\ m \in Int /\ m = live.mlkem - HeldBy(key[k], "mlkem") + HeldBy(K, "mlkem")
        BY <1>a, <3>7
    <3> HIDE DEF x, m
    <3> QED
        BY <3>6, <3>8, KeyLive
  <2>2. CASE ~(mlkem /\ x301 /\ encoded)
    <3>1. live' = HalvesFreed(HalvesMade(live, x301, mlkem), x301, mlkem)
        BY <1>3, <2>2, Zenon DEF SetParams, SetParamsCleanup
    <3>2. live' = live
        BY <1>a, <3>1, MadeThenFreed
    <3> QED
        BY <1>3, <2>2, <3>2, LiveUnchanged DEF SetParams, KeyUnrelated
  <2> QED
      BY <2>1, <2>2
<1>4. ASSUME NEW k \in Keys, NEW pair \in Pairs, NEW secret \in RawSecrets,
             NEW mlkem \in BOOLEAN, NEW x301 \in BOOLEAN, Gen(k, pair, secret, mlkem, x301)
      PROVE  LiveInv'
  <2>0. generation # Free /\ generation.provider \in Providers /\ key[k] = Free /\ UNCHANGED call
      BY <1>4 DEF Gen, GenContext, KeyUnrelated
  <2>1. CASE ~generation.keypair
    <3> DEFINE K == EmptyKey(generation.provider)
    <3>1. /\ key' = [key EXCEPT ![k] = K]
          /\ live' = [live EXCEPT !.x301 = live.x301, !.mlkem = live.mlkem]
        BY <1>4, <1>b, <2>1 DEF Gen
    <3>2. /\ live.x301 = live.x301 - HeldBy(key[k], "x301") + HeldBy(K, "x301")
          /\ live.mlkem = live.mlkem - HeldBy(key[k], "mlkem") + HeldBy(K, "mlkem")
        BY <1>a, <1>c, <1>d, <2>0
    <3> HIDE DEF K
    <3> QED
        BY <1>a, <2>0, <3>1, <3>2, KeyLive
  <2>2. CASE generation.keypair /\ Complete(mlkem, x301)
    <3> DEFINE K == [provider |-> generation.provider, x301 |-> Generate(secret),
                     mlkem |-> [pair |-> pair, private |-> TRUE], state |-> "private"]
               x == live.x301 + 1
               m == live.mlkem + 1
    <3>1. Generate(secret) \in Key /\ [pair |-> pair, private |-> TRUE] \in MlKey
        BY <1>4, <2>2, GeneratedKey DEF Gen, Complete, MlKey
    <3>2. K \in HybridKey /\ K.x301 # Absent /\ K.mlkem # Absent
        BY <2>0, <3>1, Distinct DEF HybridKey
    <3>3. key' = [key EXCEPT ![k] = K] /\ live' = [live EXCEPT !.x301 = x, !.mlkem = m]
        BY <1>4, <2>2 DEF Gen, Complete, HalvesMade, CountIf
    <3> HIDE DEF K
    <3>4. HeldBy(K, "x301") = 1 /\ HeldBy(K, "mlkem") = 1
        BY <3>2, Distinct DEF HeldBy, Count
    <3>5. /\ x \in Int /\ x = live.x301 - HeldBy(key[k], "x301") + HeldBy(K, "x301")
          /\ m \in Int /\ m = live.mlkem - HeldBy(key[k], "mlkem") + HeldBy(K, "mlkem")
        BY <1>a, <1>d, <2>0, <3>4
    <3> HIDE DEF x, m
    <3> QED
        BY <2>0, <3>3, <3>5, KeyLive
  <2>3. CASE generation.keypair /\ ~Complete(mlkem, x301)
    <3>1. live' = live
        BY <1>4, <1>a, <2>3, MadeThenFreed DEF Gen, GivenUp
    <3> QED
        BY <1>4, <2>0, <2>3, <3>1, LiveUnchanged DEF Gen
  <2> QED
      BY <2>1, <2>2, <2>3
<1> QED
    BY <1>1, <1>2, <1>3, <1>4 DEF KeyStep

LEMMA CallStepLive ==
  ASSUME Inv, LiveInv, CallStep
  PROVE  LiveInv'
<1> USE DEF Inv
<1>a. /\ live \in LiveType
      /\ live.x301 \in Int /\ live.exchange \in Int /\ live.evp \in Int
    BY DEF LiveInv, LiveType
<1>b. \A x : Count(x) \in Nat /\ EvpOf(x) \in Nat
    BY DEF Count, EvpOf
\* A step that allocates and frees nothing.
<1>c. ASSUME NEW c \in Contexts, NEW C, call' = [call EXCEPT ![c] = C], UNCHANGED <<key, live>>,
             Count(C.x301) = Count(call[c].x301), Count(C.exchange) = Count(call[c].exchange),
             EvpOf(C) = EvpOf(call[c])
      PROVE  LiveInv'
  <2>1. /\ live.x301 = live.x301 - Count(call[c].x301) + Count(C.x301)
        /\ live.exchange = live.exchange - Count(call[c].exchange) + Count(C.exchange)
        /\ live.evp = live.evp - EvpOf(call[c]) + EvpOf(C)
      BY <1>a, <1>b, <1>c
  <2> QED
      BY <1>a, <1>c, <2>1, CallLive
\* A step that allocates the EVP context.
<1>d. ASSUME NEW c \in Contexts, NEW C, call' = [call EXCEPT ![c] = C], UNCHANGED key,
             live' = [live EXCEPT !.evp = @ + 1], C.mlkem, ~call[c].mlkem,
             C.x301 = call[c].x301, C.exchange = call[c].exchange
      PROVE  LiveInv'
  <2> DEFINE v == live.evp + 1
  <2>1. /\ live.x301 = live.x301 - Count(call[c].x301) + Count(C.x301)
        /\ live.exchange = live.exchange - Count(call[c].exchange) + Count(C.exchange)
      BY <1>a, <1>b, <1>d
  <2>2. EvpOf(C) = 1 /\ EvpOf(call[c]) = 0
      BY <1>d DEF EvpOf
  <2>3. v \in Int /\ v = live.evp - EvpOf(call[c]) + EvpOf(C)
      BY <1>a, <2>2
  <2>4. live' = [live EXCEPT !.evp = v]
      BY <1>d
  <2> HIDE DEF v
  <2>5. /\ live' \in LiveType /\ live'.mlkem = live.mlkem /\ live'.evp = v
        /\ live'.x301 = live.x301 /\ live'.exchange = live.exchange
      BY <1>a, <2>3, <2>4 DEF LiveType
  <2> QED
      BY <1>d, <2>1, <2>3, <2>5, CallLive
<1>1. ASSUME NEW c \in Contexts, EncapsulateStart(c) PROVE LiveInv'
  <2> DEFINE C == [call[c] EXCEPT !.pc = "mlkem"]
  <2>1. call[c] \in Call
      BY DEF IInv, CallInv
  <2>2. C.x301 = call[c].x301 /\ C.exchange = call[c].exchange /\ C.mlkem = call[c].mlkem
      BY <2>1 DEF Call
  <2>3. call' = [call EXCEPT ![c] = C] /\ UNCHANGED <<key, live>>
      BY <1>1 DEF EncapsulateStart, CallUnrelated
  <2> HIDE DEF C
  <2> QED
      BY <1>c, <2>2, <2>3 DEF EvpOf
<1>2. ASSUME NEW c \in Contexts, NEW ciphertext \in Ciphertexts, DecapsulateStart(c, ciphertext)
      PROVE  LiveInv'
  <2> DEFINE C == [call[c] EXCEPT !.pc = "mlkem", !.ciphertext = ciphertext]
  <2>1. call[c] \in Call
      BY DEF IInv, CallInv
  <2>2. C.x301 = call[c].x301 /\ C.exchange = call[c].exchange /\ C.mlkem = call[c].mlkem
      BY <2>1 DEF Call
  <2>3. call' = [call EXCEPT ![c] = C] /\ UNCHANGED <<key, live>>
      BY <1>2 DEF DecapsulateStart, CallUnrelated
  <2> HIDE DEF C
  <2> QED
      BY <1>c, <2>2, <2>3 DEF EvpOf
<1>3. ASSUME NEW c \in Contexts, MlkemFails(c) PROVE LiveInv'
  <2>1. PICK allocated \in BOOLEAN :
          /\ call' = [call EXCEPT ![c].pc = "cleanup", ![c].mlkem = allocated]
          /\ live' = [live EXCEPT !.evp = IF allocated THEN @ + 1 ELSE @]
      BY <1>3 DEF MlkemFails
  <2> DEFINE C == [call[c] EXCEPT !.pc = "cleanup", !.mlkem = allocated]
  <2>2. call[c] \in Call /\ ~call[c].mlkem /\ UNCHANGED key
      BY <1>3, CallAt DEF MlkemFails, CallUnrelated, CallOK
  <2>3. /\ call' = [call EXCEPT ![c] = C] /\ C.mlkem = allocated
        /\ C.x301 = call[c].x301 /\ C.exchange = call[c].exchange
      BY <2>1, <2>2 DEF Call
  <2> HIDE DEF C
  <2>4. CASE allocated
    <3>1. live' = [live EXCEPT !.evp = @ + 1]
        BY <2>1, <2>4
    <3> QED
        BY <1>d, <2>2, <2>3, <2>4, <3>1
  <2>5. CASE ~allocated
    <3>1. live' = live
        BY <1>a, <2>1, <2>5 DEF LiveType
    <3> QED
        BY <1>c, <2>2, <2>3, <2>5, <3>1 DEF EvpOf
  <2> QED
      BY <2>4, <2>5
<1>4. ASSUME NEW c \in Contexts, MlkemEncapsulates(c) PROVE LiveInv'
  <2> DEFINE ciphertext == MlEncapsulated(KeyOf(c).mlkem.pair, nonce + 1)
             C == [call[c] EXCEPT !.pc = "objects", !.mlkem = TRUE,
                     !.ciphertext = <<ciphertext, @[2]>>,
                     !.secret = <<MlSecretOf(KeyOf(c).mlkem.pair, ciphertext), @[2]>>]
  <2>1. call[c] \in Call /\ ~call[c].mlkem
      BY <1>4, CallAt DEF MlkemEncapsulates, At, CallOK
  <2>2. C.x301 = call[c].x301 /\ C.exchange = call[c].exchange /\ C.mlkem = TRUE
      BY <2>1 DEF Call
  <2>3. /\ call' = [call EXCEPT ![c] = C] /\ UNCHANGED key
        /\ live' = [live EXCEPT !.evp = @ + 1]
      BY <1>4 DEF MlkemEncapsulates, CallUnrelated
  <2> HIDE DEF C
  <2> QED
      BY <1>d, <2>1, <2>2, <2>3
<1>5. ASSUME NEW c \in Contexts, MlkemDecapsulates(c) PROVE LiveInv'
  <2> DEFINE C == [call[c] EXCEPT !.pc = "objects", !.mlkem = TRUE,
                !.secret = <<MlSecretOf(KeyOf(c).mlkem.pair, call[c].ciphertext[1]), @[2]>>]
  <2>1. call[c] \in Call /\ ~call[c].mlkem
      BY <1>5, CallAt DEF MlkemDecapsulates, At, CallOK
  <2>2. C.x301 = call[c].x301 /\ C.exchange = call[c].exchange /\ C.mlkem = TRUE
      BY <2>1 DEF Call
  <2>3. /\ call' = [call EXCEPT ![c] = C] /\ UNCHANGED key
        /\ live' = [live EXCEPT !.evp = @ + 1]
      BY <1>5 DEF MlkemDecapsulates, CallUnrelated
  <2> HIDE DEF C
  <2> QED
      BY <1>d, <2>1, <2>2, <2>3
<1>6. ASSUME NEW c \in Contexts, call[c].pc = "objects", NEW x301, NEW exchange,
             Objects(c, x301, exchange)
      PROVE  LiveInv'
  <2> DEFINE C == [call[c] EXCEPT !.x301 = x301, !.exchange = exchange,
                !.pc = IF x301 # Absent /\ exchange # Absent THEN "agree" ELSE "cleanup"]
             x == live.x301 + Count(x301)
             e == live.exchange + Count(exchange)
  <2>1. call[c] \in Call /\ call[c].x301 = Absent /\ call[c].exchange = Absent
      BY <1>6, CallAt DEF CallOK
  <2>2. C.x301 = x301 /\ C.exchange = exchange /\ C.mlkem = call[c].mlkem
      BY <2>1 DEF Call
  <2>3. /\ call' = [call EXCEPT ![c] = C] /\ UNCHANGED key
        /\ live' = [live EXCEPT !.x301 = x, !.exchange = e]
      BY <1>6 DEF Objects, CallUnrelated
  <2> HIDE DEF C
  <2>4. Count(Absent) = 0
      BY DEF Count
  <2>5. /\ x \in Int /\ x = live.x301 - Count(call[c].x301) + Count(C.x301)
        /\ e \in Int /\ e = live.exchange - Count(call[c].exchange) + Count(C.exchange)
      BY <1>a, <1>b, <2>1, <2>2, <2>4
  <2>6. EvpOf(C) = EvpOf(call[c])
      BY <2>2 DEF EvpOf
  <2>7. live.evp = live.evp - EvpOf(call[c]) + EvpOf(C)
      BY <1>a, <1>b, <2>6
  <2> HIDE DEF x, e
  <2>8. /\ live' \in LiveType /\ live'.mlkem = live.mlkem /\ live'.evp = live.evp
        /\ live'.x301 = x /\ live'.exchange = e
      BY <1>a, <2>3, <2>5 DEF LiveType
  <2> QED
      BY <2>3, <2>5, <2>7, <2>8, CallLive
<1>7. ASSUME NEW c \in Contexts, NEW secret \in RawSecrets, NEW x301 \in BOOLEAN,
             NEW exchange \in BOOLEAN, EncapsulateObjects(c, secret, x301, exchange)
      PROVE  LiveInv'
    BY <1>6, <1>7 DEF EncapsulateObjects, At
<1>8. ASSUME NEW c \in Contexts, NEW x301 \in BOOLEAN, NEW exchange \in BOOLEAN,
             DecapsulateObjects(c, x301, exchange)
      PROVE  LiveInv'
    BY <1>6, <1>8 DEF DecapsulateObjects, At
<1>9. ASSUME NEW c \in Contexts, EncapsulateAgree(c) PROVE LiveInv'
  <2> DEFINE derived == Derived(call[c].exchange, call[c].x301, KeyOf(c).x301)
             C == [call[c] EXCEPT !.pc = AgreeEnds(derived),
                     !.ciphertext = <<@[1], ServerShare(c)>>,
                     !.secret = <<@[1], IF derived = Absent THEN Zero ELSE derived>>]
  <2>1. call[c] \in Call
      BY DEF IInv, CallInv
  <2>2. C.x301 = call[c].x301 /\ C.exchange = call[c].exchange /\ C.mlkem = call[c].mlkem
      BY <2>1 DEF Call
  <2>3. call' = [call EXCEPT ![c] = C] /\ UNCHANGED <<key, live>>
      BY <1>9 DEF EncapsulateAgree, CallUnrelated
  <2> HIDE DEF C
  <2> QED
      BY <1>c, <2>2, <2>3 DEF EvpOf
<1>10. ASSUME NEW c \in Contexts, DecapsulateAgree(c) PROVE LiveInv'
  <2> DEFINE peer == SetEncodedPublic(call[c].x301, call[c].ciphertext[2])
             derived == Derived(call[c].exchange, KeyOf(c).x301, peer)
             C == [call[c] EXCEPT !.pc = AgreeEnds(derived), !.x301 = peer,
                     !.secret = <<@[1], IF derived = Absent THEN Zero ELSE derived>>]
  <2>1. /\ call[c] \in Call /\ call[c].x301 = NewKey /\ call[c].ciphertext \in Ciphertexts
      BY <1>10, CallAt DEF DecapsulateAgree, At, CallOK
  <2>2. peer \in Key
    <3>1. call[c].ciphertext[2] \in RawPublics /\ Canon(call[c].ciphertext[2]) \in Publics
        BY <2>1, CurveAssumption DEF Ciphertexts, CurveAssumption
    <3> QED
        BY <2>1, <3>1, ImportedPublic DEF Key
  <2>3. call' = [call EXCEPT ![c] = C] /\ UNCHANGED <<key, live>>
      BY <1>10 DEF DecapsulateAgree, CallUnrelated
  <2> HIDE DEF peer
  <2>4. C.x301 = peer /\ C.exchange = call[c].exchange /\ C.mlkem = call[c].mlkem
      BY <2>1 DEF Call
  <2> HIDE DEF C
  <2>5. Count(C.x301) = 1 /\ Count(call[c].x301) = 1
      BY <2>1, <2>2, <2>4, Distinct, FreshObjects DEF Count
  <2> QED
      BY <1>c, <2>3, <2>4, <2>5 DEF EvpOf
<1>11. ASSUME NEW c \in Contexts, EncapsulateCopies(c) \/ DecapsulateCopies(c) PROVE LiveInv'
  <2> DEFINE C == [call[c] EXCEPT !.pc = "cleanup", !.done = TRUE]
  <2>1. call[c] \in Call
      BY DEF IInv, CallInv
  <2>2. C.x301 = call[c].x301 /\ C.exchange = call[c].exchange /\ C.mlkem = call[c].mlkem
      BY <2>1 DEF Call
  <2>3. call' = [call EXCEPT ![c] = C] /\ UNCHANGED <<key, live>>
      BY <1>11 DEF EncapsulateCopies, DecapsulateCopies, CallUnrelated
  <2> HIDE DEF C
  <2> QED
      BY <1>c, <2>2, <2>3 DEF EvpOf
<1>12. ASSUME NEW c \in Contexts, Cleanup(c) PROVE LiveInv'
  <2> DEFINE x == live.x301 - Count(call[c].x301)
             e == live.exchange - Count(call[c].exchange)
             v == IF call[c].mlkem THEN live.evp - 1 ELSE live.evp
  <2>1. /\ call' = [call EXCEPT ![c] = NoCall] /\ UNCHANGED key
        /\ live' = [live EXCEPT !.evp = v, !.exchange = e, !.x301 = x]
      BY <1>12 DEF Cleanup, CallUnrelated, Released
  <2>2. Count(NoCall.x301) = 0 /\ Count(NoCall.exchange) = 0 /\ EvpOf(NoCall) = 0
      BY DEF NoCall, Count, EvpOf
  <2>3. /\ x \in Int /\ x = live.x301 - Count(call[c].x301) + Count(NoCall.x301)
        /\ e \in Int /\ e = live.exchange - Count(call[c].exchange) + Count(NoCall.exchange)
      BY <1>a, <1>b, <2>2
  <2>4. v \in Int /\ v = live.evp - EvpOf(call[c]) + EvpOf(NoCall)
      BY <1>a, <2>2 DEF EvpOf
  <2> HIDE DEF x, e, v
  <2>5. /\ live' \in LiveType /\ live'.mlkem = live.mlkem /\ live'.evp = v
        /\ live'.x301 = x /\ live'.exchange = e
      BY <1>a, <2>1, <2>3, <2>4 DEF LiveType
  <2> QED
      BY <2>1, <2>3, <2>4, <2>5, CallLive
<1> QED
    BY <1>1, <1>2, <1>3, <1>4, <1>5, <1>7, <1>8, <1>9, <1>10, <1>11, <1>12 DEF CallStep

LEMMA InitLive == Init => LiveInv
<1> SUFFICES ASSUME Init PROVE LiveInv
    OBVIOUS
<1>1. /\ Holders("x301") = {} /\ Holders("mlkem") = {} /\ MlkemUsers = {}
      /\ Users("x301") = {} /\ Users("exchange") = {}
    BY DEF Init, Holders, Users, MlkemUsers, NoCall
<1> QED
    BY <1>1, FS_EmptySet DEF Init, LiveInv

LEMMA NextLive == Inv /\ LiveInv /\ [Next]_vars => LiveInv'
<1> SUFFICES ASSUME Inv, LiveInv, [Next]_vars PROVE LiveInv'
    OBVIOUS
<1>1. CASE KeyStep
    BY <1>1, KeyStepLive
<1>2. CASE GenerationStep
    BY <1>2, LiveUnchanged DEF GenerationStep, GenInit, GenCleanup
<1>3. CASE ContextStep
    BY <1>3, LiveUnchanged
    DEF ContextStep, KemNew, KemFree, KemInit, Refuse, ContextUnrelated, CallUnrelated
<1>4. CASE CallStep
    BY <1>4, CallStepLive
<1>5. CASE UNCHANGED vars
    BY <1>5, LiveUnchanged DEF vars
<1> QED
    BY <1>1, <1>2, <1>3, <1>4, <1>5 DEF Next

LEMMA LiveInvariance == Spec => []LiveInv
BY InitLive, NextLive, Invariance, PTL DEF Spec

\* NothingIsLeft: what is allocated is what keys and calls hold, and a call that
\* has returned holds nothing.
THEOREM NoLeaks == Spec => []NothingIsLeft
<1>1. Inv /\ LiveInv => NothingIsLeft
    BY Idling DEF NothingIsLeft, LiveInv, MlkemUsers, Inv
<1> QED
    BY <1>1, Invariance, LiveInvariance, PTL

\* The variables keep their types.
THEOREM TypeCorrectness == Spec => []TypeOK
<1>1. Inv /\ LiveInv => TypeOK
  <2> SUFFICES ASSUME Inv, LiveInv PROVE TypeOK
      OBVIOUS
  <2>1. live \in [x301 : Nat, mlkem : Nat, exchange : Nat, evp : Nat]
    <3>1. /\ IsFiniteSet(Holders("x301")) /\ IsFiniteSet(Holders("mlkem"))
          /\ IsFiniteSet(Users("x301")) /\ IsFiniteSet(Users("exchange"))
          /\ IsFiniteSet(MlkemUsers)
        BY FS_Subset, HybridAssumption DEF Holders, Users, MlkemUsers, HybridAssumption
    <3>2. /\ Cardinality(Holders("x301")) \in Nat /\ Cardinality(Holders("mlkem")) \in Nat
          /\ Cardinality(Users("x301")) \in Nat /\ Cardinality(Users("exchange")) \in Nat
          /\ Cardinality(MlkemUsers) \in Nat
        BY <3>1, FS_CardinalityType
    <3>3. /\ live.x301 \in Nat /\ live.mlkem \in Nat /\ live.exchange \in Nat /\ live.evp \in Nat
        BY <3>2 DEF LiveInv
    <3> QED
        BY <3>3 DEF LiveInv
  <2> QED
      BY <2>1 DEF Inv, IInv, KeyInv, ContextInv, CallInv, TypeOK
<1> QED
    BY <1>1, Invariance, LiveInvariance, PTL

-----------------------------------------------------------------------------
(* The hybrid implements the atomic mechanism of AtomicKem: what a caller   *)
(* can see of keys, contexts and buffers changes only by its actions.      *)

Box == [k \in Keys |-> Content(k)]
Use == [c \in Contexts |-> Binding(c)]
Outcomes == [c \in Contexts |-> Outcome(c)]

\* A step that changes one key changes what that key shows, and nothing else.
LEMMA BoxMoves ==
  ASSUME IInv, NEW k \in Keys, NEW K, key' = [key EXCEPT ![k] = K], UNCHANGED <<context, output>>
  PROVE  /\ Box[k] = Content(k) /\ Box'[k] = Content(k)'
         /\ Box' = [Box EXCEPT ![k] = Box'[k]] /\ Use' = Use /\ Outcomes' = Outcomes
<1>1. ASSUME NEW j \in Keys, j # k PROVE Content(j)' = Content(j)
    BY <1>1 DEF IInv, KeyInv, Content, KeyHas, EncodedPublic
<1>2. Use' = Use /\ Outcomes' = Outcomes
    BY DEF Use, Outcomes, Binding, Outcome
<1> QED
    BY <1>1, <1>2 DEF Box

\* A step that leaves the keys alone and one context and its buffers behind.
LEMMA UseMoves ==
  ASSUME IInv, NEW c \in Contexts, NEW X, NEW O, UNCHANGED key,
         context' = [context EXCEPT ![c] = X], output' = [output EXCEPT ![c] = O]
  PROVE  /\ Box' = Box
         /\ Use[c] = Binding(c) /\ Use' = [Use EXCEPT ![c] = Binding(c)']
         /\ Outcomes[c] = Outcome(c) /\ Outcomes' = [Outcomes EXCEPT ![c] = Outcome(c)']
<1>1. ASSUME NEW d \in Contexts, d # c PROVE Binding(d)' = Binding(d) /\ Outcome(d)' = Outcome(d)
    BY <1>1 DEF IInv, ContextInv, CallInv, Binding, Outcome
<1>2. Box' = Box
    BY DEF Box, Content, KeyHas, EncodedPublic
<1> QED
    BY <1>1, <1>2 DEF Use, Outcomes

\* A step that changes the buffers of one context only.
LEMMA OutcomeMoves ==
  ASSUME IInv, NEW c \in Contexts, NEW O, UNCHANGED <<key, context>>,
         output' = [output EXCEPT ![c] = O]
  PROVE  /\ Box' = Box /\ Use' = Use
         /\ Outcomes[c] = Outcome(c) /\ Outcomes'[c] = Outcome(c)'
         /\ Outcomes' = [Outcomes EXCEPT ![c] = Outcomes'[c]]
<1>1. ASSUME NEW d \in Contexts, d # c PROVE Outcome(d)' = Outcome(d)
    BY <1>1 DEF IInv, CallInv, Outcome
<1>2. Box' = Box /\ Use' = Use
    BY DEF Box, Content, KeyHas, EncodedPublic, Use, Binding
<1> QED
    BY <1>1, <1>2 DEF Outcomes

\* A new hybrid key is a blank one.
LEMMA NewIsMake ==
  ASSUME IInv, NEW k \in Keys, NEW p \in Providers, KeyNew(k, p)
  PROVE  Kem!Make(k)
<1>1. key' = [key EXCEPT ![k] = EmptyKey(p)] /\ UNCHANGED <<context, output>>
    BY DEF KeyNew, KeyUnrelated
<1>2. /\ Box[k] = Content(k) /\ Box'[k] = Content(k)'
      /\ Box' = [Box EXCEPT ![k] = Box'[k]] /\ Use' = Use /\ Outcomes' = Outcomes
    BY <1>1, BoxMoves
<1>3. Content(k) = Absent
    BY DEF KeyNew, Content, KeyHas, EncodedPublic
<1>4. Content(k)' = Kem!Blank
    BY <1>1, EmptyKeyOK, Distinct DEF IInv, KeyInv, Content, KeyHas, EncodedPublic, EmptyKey, KeyOK, Kem!Blank
<1> QED
    BY <1>2, <1>3, <1>4 DEF Kem!Make, Kem!Hold, Box, Use, Outcomes

\* A generation makes a blank key or a whole pair, or nothing at all.
LEMMA GenIsMake ==
  ASSUME IInv, generation \in GenContext \cup {Free}, NEW k \in Keys, NEW pair \in Pairs,
         NEW secret \in RawSecrets, NEW mlkem \in BOOLEAN, NEW x301 \in BOOLEAN,
         Gen(k, pair, secret, mlkem, x301)
  PROVE  Kem!Make(k) \/ UNCHANGED <<Box, Use, Outcomes>>
<1>1. /\ generation.provider \in Providers /\ key[k] = Free /\ UNCHANGED <<context, output>>
      /\ Content(k) = Absent
    BY DEF Gen, GenContext, KeyUnrelated, Content, KeyHas, EncodedPublic
<1>2. CASE ~generation.keypair
  <2>1. key' = [key EXCEPT ![k] = EmptyKey(generation.provider)]
      BY <1>2 DEF Gen
  <2>2. /\ Box[k] = Content(k) /\ Box'[k] = Content(k)'
        /\ Box' = [Box EXCEPT ![k] = Box'[k]] /\ Use' = Use /\ Outcomes' = Outcomes
      BY <1>1, <2>1, BoxMoves
  <2>3. Content(k)' = Kem!Blank
      BY <1>1, <2>1, EmptyKeyOK, Distinct
      DEF IInv, KeyInv, Content, KeyHas, EncodedPublic, EmptyKey, KeyOK, Kem!Blank
  <2> QED
      BY <1>1, <2>2, <2>3 DEF Kem!Make, Kem!Hold, Box, Use, Outcomes
<1>3. CASE generation.keypair /\ Complete(mlkem, x301)
  <2> DEFINE K == [provider |-> generation.provider, x301 |-> Generate(secret),
                   mlkem |-> [pair |-> pair, private |-> TRUE], state |-> "private"]
             d == <<pair, secret>>
  <2>1. key' = [key EXCEPT ![k] = K]
      BY <1>3 DEF Gen, Complete
  <2>2. /\ Generate(secret) \in Key /\ Generate(secret).private = secret
        /\ Generate(secret).public = PublicOf(secret) /\ PublicOf(secret) \in Publics
      BY <1>3, GeneratedKey DEF Gen, Complete
  <2>3. K # Free
    <3>1. K \in HybridKey
        BY <1>1, <2>2 DEF HybridKey, MlKey
    <3> QED
        BY <3>1, Distinct
  <2>4. d \in HybridOpeners /\ HybridShareOf[d] = <<pair, PublicOf(secret)>>
      BY <2>2, Distinct, Zenon DEF HybridOpeners, HybridShareOf
  <2>5. /\ key'[k].x301 = Generate(secret) /\ key'[k].mlkem.pair = pair
        /\ key'[k].state = "private" /\ key'[k] # Free
      BY <2>1, <2>3 DEF IInv, KeyInv
  <2>6. Content(k)' = Kem!Paired(d)
      BY <2>2, <2>4, <2>5 DEF Content, KeyHas, EncodedPublic, Kem!Paired
  <2> HIDE DEF K, d
  <2>7. /\ Box[k] = Content(k) /\ Box'[k] = Content(k)'
        /\ Box' = [Box EXCEPT ![k] = Box'[k]] /\ Use' = Use /\ Outcomes' = Outcomes
      BY <1>1, <2>1, BoxMoves
  <2> QED
      BY <1>1, <2>4, <2>6, <2>7 DEF Kem!Make, Kem!Hold, Box, Use, Outcomes
<1>4. CASE generation.keypair /\ ~Complete(mlkem, x301)
    BY <1>1, <1>4 DEF Gen, Box, Content, KeyHas, EncodedPublic, Use, Binding, Outcomes, Outcome
<1> QED
    BY <1>2, <1>3, <1>4

\* A share is taken in canonical form and in both halves, or not at all.
LEMMA SetParamsIsFill ==
  ASSUME IInv, NEW k \in Keys, NEW share \in Shares \cup {Malformed, Absent},
         NEW mlkem \in BOOLEAN, NEW x301 \in BOOLEAN, NEW encoded \in BOOLEAN,
         SetParams(k, share, mlkem, x301, encoded)
  PROVE  Kem!Fill(k) \/ UNCHANGED <<Box, Use, Outcomes>>
<1>1. /\ key[k] # Free /\ key[k].state = "empty" /\ share \in Shares
      /\ UNCHANGED <<context, output>>
    BY DEF SetParams, SetParamsAccepts, KeyUnrelated
<1>2. CASE mlkem /\ x301 /\ encoded
  <2> DEFINE K == [key[k] EXCEPT !.mlkem = Imported(share[1]),
                     !.x301 = SetEncodedPublic(NewKey, share[2]), !.state = "public"]
             s == <<share[1], Canon(share[2])>>
  <2>1. key' = [key EXCEPT ![k] = K]
      BY <1>2 DEF SetParams
  <2>2. s \in Pairs \X Publics /\ share[2] \in RawPublics
      BY <1>1, CurveAssumption DEF Shares, CurveAssumption
  <2>3. K \in HybridKey /\ K.mlkem.pair = share[1] /\ K.x301.public = Canon(share[2])
        /\ K.state = "public"
    <3>1. /\ Imported(share[1]) \in MlKey /\ Imported(share[1]).pair = share[1]
          /\ SetEncodedPublic(NewKey, share[2]) = [private |-> Absent, public |-> Canon(share[2])]
          /\ [private |-> Absent, public |-> Canon(share[2])] \in Key
        BY <2>2, ImportedPublic DEF Imported, MlKey, Key
    <3>2. key[k] \in HybridKey
        BY <1>1 DEF IInv, KeyInv
    <3>3. /\ K.mlkem = Imported(share[1]) /\ K.state = "public"
          /\ K.x301 = [private |-> Absent, public |-> Canon(share[2])]
          /\ K \in HybridKey
        BY <3>1, <3>2 DEF HybridKey
    <3> HIDE DEF K
    <3> QED
        BY <3>1, <3>3
  <2> HIDE DEF K
  <2>4. key'[k] = K /\ K # Free
      BY <2>1, <2>3, Distinct DEF IInv, KeyInv
  <2>5. Content(k) = Kem!Blank
      BY <1>1 DEF Content, KeyHas, EncodedPublic, Kem!Blank
  <2>6. Content(k)' = Kem!Public(s)
      BY <2>3, <2>4 DEF Content, KeyHas, EncodedPublic, Kem!Public
  <2>7. /\ Box[k] = Content(k) /\ Box'[k] = Content(k)'
        /\ Box' = [Box EXCEPT ![k] = Box'[k]] /\ Use' = Use /\ Outcomes' = Outcomes
      BY <1>1, <2>1, BoxMoves
  <2> HIDE DEF s
  <2> QED
      BY <2>2, <2>5, <2>6, <2>7 DEF Kem!Fill, Kem!Hold, Box, Use, Outcomes
<1>3. CASE ~(mlkem /\ x301 /\ encoded)
    BY <1>1, <1>3
    DEF SetParams, Box, Content, KeyHas, EncodedPublic, Use, Binding, Outcomes, Outcome
<1> QED
    BY <1>2, <1>3

\* What a key shows: nothing where it has nothing, and never "nothing" where
\* it has a share or a private key.
LEMMA ContentIsThere ==
  ASSUME IInv, NEW k \in Keys, key[k] # Free
  PROVE  /\ Content(k) # Absent
         /\ key[k].state # "empty" =>
              Content(k).share = EncodedPublic(k) /\ EncodedPublic(k) \in Pairs \X Publics
         /\ key[k].state = "private" =>
              /\ Content(k).opener = <<key[k].mlkem.pair, key[k].x301.private>>
              /\ Content(k).opener \in HybridOpeners
<1>1. KeyOK(key[k])
    BY DEF IInv, KeyInv
<1>2. key[k].state # "empty" => EncodedPublic(k) \in Pairs \X Publics
    BY <1>1 DEF KeyOK, EncodedPublic, MlKey
<1>3. key[k].state = "private" => <<key[k].mlkem.pair, key[k].x301.private>> \in HybridOpeners
    BY <1>1, Distinct DEF KeyOK, HybridOpeners, MlKey, Key
<1>4. key[k].state \in {"empty", "public", "private"}
    BY <1>1 DEF KeyOK, HybridKey
<1> QED
    BY <1>2, <1>3, <1>4, KemAssumption DEF Content, KeyHas, EncodedPublic, KemAssumption

\* Only a key that no context holds is freed.
LEMMA FreeIsDiscard ==
  ASSUME IInv, NEW k \in Keys, KeyFree(k)
  PROVE  Kem!Discard(k)
<1>1. /\ key[k] # Free /\ ~Referenced(k) /\ key' = [key EXCEPT ![k] = Free]
      /\ UNCHANGED <<context, output>>
    BY DEF KeyFree, KeyUnrelated
<1>2. Content(k) # Absent
    BY <1>1, ContentIsThere
<1>3. Content(k)' = Absent
    BY <1>1 DEF IInv, KeyInv, Content, KeyHas, EncodedPublic
<1>4. \A c \in Contexts : Binding(c) # Absent => Binding(c).key # k
    BY <1>1 DEF Binding, Referenced
<1>5. /\ Box[k] = Content(k) /\ Box'[k] = Content(k)'
      /\ Box' = [Box EXCEPT ![k] = Box'[k]] /\ Use' = Use /\ Outcomes' = Outcomes
    BY <1>1, BoxMoves
<1> QED
    BY <1>2, <1>3, <1>4, <1>5 DEF Kem!Discard, Kem!Hold, Box, Use, Outcomes

\* Fresh buffers are no answer.
LEMMA Silence ==
  ASSUME NEW c \in Contexts, output'[c] = NoOutput
  PROVE  Outcome(c)' = Kem!Silent
BY DEF Outcome, Given, NoOutput, Kem!Silent

\* An existing context is bound or unbound, and shows it.
LEMMA BindingIsThere ==
  ASSUME IInv, NEW c \in Contexts, context[c] # Free
  PROVE  /\ Binding(c) # Absent
         /\ Binding(c).key = context[c].key /\ Binding(c).operation = context[c].operation
<1>1. context[c].key \in Keys \cup {Absent} /\ context[c].operation \in Operations
    BY DEF IInv, ContextInv, KemContext
<1> QED
    BY <1>1, KemAssumption DEF Binding, KemAssumption

\* Creating, freeing and initialising a context drops what was answered before.
LEMMA ContextStepIsTurn ==
  ASSUME IInv, ContextStep
  PROVE  Kem!KemNext
<1>1. ASSUME NEW c \in Contexts, NEW p \in Providers, KemNew(c, p) PROVE Kem!Enter(c)
  <2> DEFINE X == [provider |-> p, key |-> Absent, operation |-> "none"]
  <2>1. /\ context' = [context EXCEPT ![c] = X] /\ output' = [output EXCEPT ![c] = NoOutput]
        /\ UNCHANGED key /\ context[c] = Free
      BY <1>1 DEF KemNew, ContextUnrelated
  <2>2. X # Free
      BY Distinct DEF KemContext, Operations
  <2>3. context'[c] = X /\ output'[c] = NoOutput
      BY <2>1 DEF IInv, ContextInv, CallInv
  <2>4. Binding(c) = Absent /\ Binding(c)' = Kem!Unbound
      BY <2>1, <2>2, <2>3 DEF Binding, Kem!Unbound
  <2> HIDE DEF X
  <2>5. /\ Box' = Box
        /\ Use[c] = Binding(c) /\ Use' = [Use EXCEPT ![c] = Binding(c)']
        /\ Outcomes[c] = Outcome(c) /\ Outcomes' = [Outcomes EXCEPT ![c] = Outcome(c)']
      BY <2>1, UseMoves
  <2> QED
      BY <2>3, <2>4, <2>5, Silence DEF Kem!Enter, Kem!Turn, Box, Use, Outcomes
<1>2. ASSUME NEW c \in Contexts, KemFree(c) PROVE Kem!Leave(c)
  <2>1. /\ context' = [context EXCEPT ![c] = Free] /\ output' = [output EXCEPT ![c] = NoOutput]
        /\ UNCHANGED key /\ context[c] # Free
      BY <1>2 DEF KemFree, Idle, ContextUnrelated
  <2>2. context'[c] = Free /\ output'[c] = NoOutput
      BY <2>1 DEF IInv, ContextInv, CallInv
  <2>3. Binding(c) # Absent /\ Binding(c)' = Absent
      BY <2>1, <2>2, BindingIsThere DEF Binding
  <2>4. /\ Box' = Box
        /\ Use[c] = Binding(c) /\ Use' = [Use EXCEPT ![c] = Binding(c)']
        /\ Outcomes[c] = Outcome(c) /\ Outcomes' = [Outcomes EXCEPT ![c] = Outcome(c)']
      BY <2>1, UseMoves
  <2> QED
      BY <2>2, <2>3, <2>4, Silence DEF Kem!Leave, Kem!Turn, Box, Use, Outcomes
<1>3. ASSUME NEW c \in Contexts, NEW k \in Keys, NEW operation \in {"encapsulate", "decapsulate"},
             KemInit(c, k, operation)
      PROVE  Kem!Bind(c, k)
  <2> DEFINE X == [context[c] EXCEPT !.key = k, !.operation = operation]
  <2>1. /\ context' = [context EXCEPT ![c] = X] /\ output' = [output EXCEPT ![c] = NoOutput]
        /\ UNCHANGED key /\ context[c] # Free
      BY <1>3 DEF KemInit, Idle, ContextUnrelated
  <2>2. X \in KemContext /\ X.key = k /\ X.operation = operation
      BY <2>1 DEF IInv, ContextInv, KemContext, Operations
  <2> HIDE DEF X
  <2>3. context'[c] = X /\ X # Free /\ output'[c] = NoOutput
      BY <2>1, <2>2, Distinct DEF IInv, ContextInv, CallInv
  <2>4. Binding(c) # Absent /\ Binding(c)' = Kem!Bound(k, operation)
      BY <2>1, <2>2, <2>3, BindingIsThere DEF Binding, Kem!Bound
  <2>5. /\ Content(k) # Absent
        /\ operation = "encapsulate" => Content(k).share # Absent
        /\ operation = "decapsulate" => Content(k).opener # Absent
      BY <1>3, ContentIsThere, KemAssumption DEF KemInit, InitAccepts, KemAssumption
  <2>6. /\ Box' = Box /\ Box[k] = Content(k)
        /\ Use[c] = Binding(c) /\ Use' = [Use EXCEPT ![c] = Binding(c)']
        /\ Outcomes[c] = Outcome(c) /\ Outcomes' = [Outcomes EXCEPT ![c] = Outcome(c)']
      BY <2>1, UseMoves DEF Box
  <2>7. Outcome(c)' = Kem!Silent
      BY <2>3, Silence
  <2> QED
      BY <2>4, <2>5, <2>6, <2>7 DEF Kem!Bind, Kem!Turn, Box, Use, Outcomes
<1>4. ASSUME NEW c \in Contexts, NEW operation, NEW wellFormed, Refuse(c, operation, wellFormed)
      PROVE  Kem!Fail(c)
  <2> DEFINE O == [NoOutput EXCEPT !.result = "failed"]
  <2>1. /\ output' = [output EXCEPT ![c] = O] /\ context[c] # Free /\ UNCHANGED <<key, context>>
      BY <1>4 DEF Refuse, Idle, CallUnrelated
  <2>2. output'[c] = O
      BY <2>1 DEF IInv, CallInv
  <2>3. Outcome(c)' = Kem!Failure
      BY <2>2 DEF Outcome, Given, NoOutput, Kem!Failure
  <2> HIDE DEF O
  <2>4. /\ Box' = Box /\ Use' = Use /\ Outcomes'[c] = Outcome(c)'
        /\ Outcomes' = [Outcomes EXCEPT ![c] = Outcomes'[c]]
      BY <2>1, OutcomeMoves
  <2>5. Use[c] # Absent
      BY <2>1, BindingIsThere DEF Use
  <2> QED
      BY <2>3, <2>4, <2>5 DEF Kem!Fail, Kem!Answer, Box, Use, Outcomes
<1> QED
    BY <1>1, <1>2, <1>3, <1>4 DEF ContextStep, Kem!KemNext

\* A step that touches neither keys, contexts nor buffers shows nothing.
LEMMA Unseen ==
  ASSUME UNCHANGED <<key, context, output>>
  PROVE  UNCHANGED <<Box, Use, Outcomes>>
BY DEF Box, Content, KeyHas, EncodedPublic, Use, Binding, Outcomes, Outcome

\* The beginning of a call.
LEMMA StartIsBegin ==
  ASSUME IInv, NEW c \in Contexts, context[c] # Free, UNCHANGED <<key, context>>,
         output' = [output EXCEPT ![c] = NoOutput]
  PROVE  Kem!Begin(c)
<1>1. output'[c] = NoOutput
    BY DEF IInv, CallInv
<1>2. /\ Box' = Box /\ Use' = Use /\ Outcomes'[c] = Outcome(c)'
      /\ Outcomes' = [Outcomes EXCEPT ![c] = Outcomes'[c]]
    BY OutcomeMoves
<1>3. Use[c] # Absent
    BY BindingIsThere DEF Use
<1>4. Outcome(c)' = Kem!Silent
    BY <1>1, Silence
<1> QED
    BY <1>2, <1>3, <1>4 DEF Kem!Begin, Kem!Answer, Box, Use, Outcomes

\* Copying out turns no answer into a whole one.
LEMMA CopiesAnswer ==
  ASSUME IInv, NEW c \in Contexts, call[c].pc = "copy", UNCHANGED <<key, context>>,
         output' = [output EXCEPT ![c].ciphertext = call[c].ciphertext,
                                  ![c].secret = call[c].secret]
  PROVE  /\ Box' = Box /\ Use' = Use /\ Use[c] = Binding(c) /\ Binding(c) # Absent
         /\ Outcomes[c] = Kem!Silent
         /\ Outcomes'[c] = [status |-> "ok", ciphertext |-> call[c].ciphertext,
                            secret |-> call[c].secret]
         /\ Outcomes'[c] \in Kem!Success
         /\ Outcomes' = [Outcomes EXCEPT ![c] = Outcomes'[c]]
<1> DEFINE O == [output[c] EXCEPT !.ciphertext = call[c].ciphertext, !.secret = call[c].secret]
<1>1. /\ context[c] # Free
      /\ Agreed(context[c].operation, KeyOf(c), call[c].ciphertext, call[c].secret)
      /\ context[c].operation \in {"encapsulate", "decapsulate"} /\ ~call[c].done
    BY CallAt DEF CallOK
<1>2. call[c].ciphertext \in Ciphertexts /\ call[c].secret \in Secrets
    BY <1>1 DEF Agreed, Encapsulated, Decapsulated
<1>3. /\ output[c] \in Output /\ output[c].result = "none"
      /\ output[c].ciphertext = Untouched /\ output[c].secret = Untouched
    BY <1>1 DEF IInv, CallInv, OutputOK, Output
<1>4. /\ O.result = "none" /\ O.ciphertext = call[c].ciphertext /\ O.secret = call[c].secret
    BY <1>3 DEF Output
<1>5. output' = [output EXCEPT ![c] = O]
    OBVIOUS
<1> HIDE DEF O
<1>6. output'[c] = O
    BY <1>5 DEF IInv, CallInv
<1>7. Outcome(c) = Kem!Silent
    BY <1>3 DEF Outcome, Given, Kem!Silent
<1>8. call[c].ciphertext # Untouched /\ call[c].secret # Untouched
    BY <1>2, HybridAssumption DEF HybridAssumption
<1>9. Outcome(c)' = [status |-> "ok", ciphertext |-> call[c].ciphertext, secret |-> call[c].secret]
    BY <1>4, <1>6, <1>8 DEF Outcome, Given
<1>10. /\ Box' = Box /\ Use' = Use
       /\ Outcomes[c] = Outcome(c) /\ Outcomes'[c] = Outcome(c)'
       /\ Outcomes' = [Outcomes EXCEPT ![c] = Outcomes'[c]]
    BY <1>5, OutcomeMoves
<1>11. Use[c] = Binding(c) /\ Binding(c) # Absent
    BY <1>1, BindingIsThere DEF Use
<1>12. Outcomes'[c] \in Kem!Success
    BY <1>2, <1>9, <1>10 DEF Kem!Success
<1> QED
    BY <1>7, <1>9, <1>10, <1>11, <1>12

\* Every private key that goes with the share opens an encapsulation to the
\* sender's secret: both ends of the X301 half agree, on a secret that exists.
LEMMA OwnersOpen ==
  ASSUME NEW share, NEW ciphertext, NEW secret, Encapsulated(share, ciphertext, secret),
         NEW d \in HybridOpeners, HybridShareOf[d] = share
  PROVE  HybridOpened[d][ciphertext] = secret
<1>1. /\ d[1] \in Pairs /\ d[2] \in RawSecrets /\ PublicOf(d[2]) # Absent
      /\ share = <<d[1], PublicOf(d[2])>>
    BY DEF HybridOpeners, HybridShareOf
<1>2. PICK s \in RawSecrets : /\ PublicOf(s) = ciphertext[2] /\ ciphertext[2] \in Publics
                              /\ secret[2] = Shared(s, share[2])
    BY DEF Encapsulated
<1>3. ciphertext \in Ciphertexts /\ secret \in Secrets /\ secret[1] = MlSecretOf(share[1], ciphertext[1])
    BY DEF Encapsulated
<1>4. PublicOf(s) # Absent /\ Canon(ciphertext[2]) = PublicOf(s)
    BY <1>2, Distinct, CurveAssumption DEF CurveAssumption
<1>5. Shared(d[2], Canon(ciphertext[2])) = secret[2] /\ secret[2] # Absent
    BY <1>1, <1>2, <1>4, AgreementAssumption DEF AgreementAssumption
<1>6. secret = <<MlSecretOf(d[1], ciphertext[1]), secret[2]>>
    BY <1>1, <1>3 DEF Secrets
<1> QED
    BY <1>3, <1>5, <1>6 DEF HybridOpened

\* The owner of a key decapsulates what its private key opens.
LEMMA OwnerOpened ==
  ASSUME NEW K, NEW ciphertext, NEW secret, Decapsulated(K, ciphertext, secret),
         <<K.mlkem.pair, K.x301.private>> \in HybridOpeners
  PROVE  HybridOpened[<<K.mlkem.pair, K.x301.private>>][ciphertext] = secret
<1> DEFINE d == <<K.mlkem.pair, K.x301.private>>
<1>1. /\ ciphertext \in Ciphertexts /\ secret \in Secrets
      /\ secret[1] = MlSecretOf(d[1], ciphertext[1])
      /\ secret[2] = Shared(d[2], Canon(ciphertext[2])) /\ secret[2] # Absent
    BY DEF Decapsulated
<1> HIDE DEF d
<1>2. secret = <<MlSecretOf(d[1], ciphertext[1]), secret[2]>>
    BY <1>1 DEF Secrets
<1>3. d \in HybridOpeners
    BY DEF d
<1>4. HybridOpened[d][ciphertext] = secret
    BY <1>1, <1>2, <1>3 DEF HybridOpened
<1> QED
    BY <1>4 DEF d

\* What is copied out of an encapsulation is what every owner of the share opens.
LEMMA EncapsulateCopiesIs ==
  ASSUME IInv, NEW c \in Contexts, EncapsulateCopies(c)
  PROVE  Kem!Encapsulate(c)
<1>1. /\ call[c].pc = "copy" /\ context[c] # Free /\ context[c].operation = "encapsulate"
      /\ UNCHANGED <<key, context>>
      /\ output' = [output EXCEPT ![c].ciphertext = call[c].ciphertext, ![c].secret = call[c].secret]
    BY DEF EncapsulateCopies, At, CallUnrelated
<1>2. /\ Box' = Box /\ Use' = Use /\ Use[c] = Binding(c) /\ Binding(c) # Absent
      /\ Outcomes[c] = Kem!Silent
      /\ Outcomes'[c] = [status |-> "ok", ciphertext |-> call[c].ciphertext,
                         secret |-> call[c].secret]
      /\ Outcomes'[c] \in Kem!Success
      /\ Outcomes' = [Outcomes EXCEPT ![c] = Outcomes'[c]]
    BY <1>1, CopiesAnswer
<1>3. Use[c].key = context[c].key /\ Use[c].operation = "encapsulate"
    BY <1>1, <1>2, BindingIsThere
<1>4. /\ context[c].key \in Keys /\ key[context[c].key] # Free
      /\ key[context[c].key].state # "empty"
    BY <1>1, KeyOfContext DEF KeyOf, KeyOK, MlKey, IInv, ContextInv, ContextOK
<1>5. Box[Use[c].key].share = EncodedPublic(context[c].key)
    BY <1>3, <1>4, ContentIsThere DEF Box
<1>6. Encapsulated(EncodedPublic(context[c].key), call[c].ciphertext, call[c].secret)
    BY <1>1, CallAt DEF CallOK, Agreed, EncodedPublic, KeyOf
<1>7. \A d \in HybridOpeners : HybridShareOf[d] = Box[Use[c].key].share =>
        HybridOpened[d][Outcomes'[c].ciphertext] = Outcomes'[c].secret
    BY <1>2, <1>5, <1>6, OwnersOpen
<1> QED
    BY <1>2, <1>3, <1>7 DEF Kem!Encapsulate, Kem!Answer, Box, Use, Outcomes

\* What is copied out of a decapsulation is what the private key opens.
LEMMA DecapsulateCopiesIs ==
  ASSUME IInv, NEW c \in Contexts, DecapsulateCopies(c)
  PROVE  Kem!Decapsulate(c)
<1>1. /\ call[c].pc = "copy" /\ context[c] # Free /\ context[c].operation = "decapsulate"
      /\ UNCHANGED <<key, context>>
      /\ output' = [output EXCEPT ![c].ciphertext = call[c].ciphertext, ![c].secret = call[c].secret]
    BY DEF DecapsulateCopies, At, CallUnrelated
<1>2. /\ Box' = Box /\ Use' = Use /\ Use[c] = Binding(c) /\ Binding(c) # Absent
      /\ Outcomes[c] = Kem!Silent
      /\ Outcomes'[c] = [status |-> "ok", ciphertext |-> call[c].ciphertext,
                         secret |-> call[c].secret]
      /\ Outcomes'[c] \in Kem!Success
      /\ Outcomes' = [Outcomes EXCEPT ![c] = Outcomes'[c]]
    BY <1>1, CopiesAnswer
<1>3. Use[c].key = context[c].key /\ Use[c].operation = "decapsulate"
    BY <1>1, <1>2, BindingIsThere
<1>4. /\ context[c].key \in Keys /\ key[context[c].key] # Free
      /\ key[context[c].key].state = "private"
    BY <1>1, KeyOfContext DEF IInv, ContextInv, ContextOK
<1>5. /\ Box[Use[c].key].opener = <<KeyOf(c).mlkem.pair, KeyOf(c).x301.private>>
      /\ Box[Use[c].key].opener \in HybridOpeners
    BY <1>3, <1>4, ContentIsThere DEF Box, KeyOf
<1>6. Decapsulated(KeyOf(c), call[c].ciphertext, call[c].secret)
    BY <1>1, CallAt DEF CallOK, Agreed
<1>7. Outcomes'[c].secret = HybridOpened[Box[Use[c].key].opener][Outcomes'[c].ciphertext]
    BY <1>2, <1>5, <1>6, OwnerOpened
<1> QED
    BY <1>2, <1>3, <1>7 DEF Kem!Decapsulate, Kem!Answer, Box, Use, Outcomes

\* A call that has copied out has answered already; any other has failed.
LEMMA CleanupIsFail ==
  ASSUME IInv, NEW c \in Contexts, Cleanup(c)
  PROVE  Kem!Fail(c) \/ UNCHANGED <<Box, Use, Outcomes>>
<1> DEFINE O == [output[c] EXCEPT !.result = IF call[c].done THEN "ok" ELSE "failed"]
<1>1. /\ call[c].pc = "cleanup" /\ context[c] # Free /\ UNCHANGED <<key, context>>
      /\ output' = [output EXCEPT ![c] = O]
    BY DEF Cleanup, CallUnrelated
<1>2. /\ output[c] \in Output /\ output[c].result = "none"
      /\ OutputOK(context[c], KeyOf(c), call[c], output[c])
    BY <1>1 DEF IInv, CallInv, OutputOK, Output
<1>3. /\ O.ciphertext = output[c].ciphertext /\ O.secret = output[c].secret
      /\ O.result = IF call[c].done THEN "ok" ELSE "failed"
    BY <1>2 DEF Output
<1> HIDE DEF O
<1>4. output'[c] = O
    BY <1>1 DEF IInv, CallInv
<1>5. /\ Box' = Box /\ Use' = Use
      /\ Outcomes[c] = Outcome(c) /\ Outcomes'[c] = Outcome(c)'
      /\ Outcomes' = [Outcomes EXCEPT ![c] = Outcomes'[c]]
    BY <1>1, OutcomeMoves
<1>6. CASE call[c].done
  <2>1. output[c].secret # Untouched
    <3>1. context[c].operation \in {"encapsulate", "decapsulate"}
        BY <1>1, CallAt
    <3>2. output[c].secret \in Secrets
        BY <1>2, <1>6, <3>1 DEF OutputOK, Agreed, Encapsulated, Decapsulated
    <3> QED
        BY <3>2, HybridAssumption DEF HybridAssumption
  <2>2. Outcome(c)' = Outcome(c)
      BY <1>2, <1>3, <1>4, <1>6, <2>1 DEF Outcome
  <2>3. Outcomes' = Outcomes
      BY <1>5, <2>2 DEF Outcomes
  <2> QED
      BY <1>5, <2>3
<1>7. CASE ~call[c].done
  <2>1. Outcome(c)' = Kem!Failure
      BY <1>2, <1>3, <1>4, <1>7 DEF Outcome, OutputOK, Given, Kem!Failure
  <2>2. Use[c] # Absent
      BY <1>1, BindingIsThere DEF Use
  <2> QED
      BY <1>5, <2>1, <2>2 DEF Kem!Fail, Kem!Answer, Box, Use, Outcomes
<1> QED
    BY <1>6, <1>7

\* The hybrid implements the atomic mechanism.
THEOREM Refinement == Spec => ImplementsKem
<1>1. Init => Kem!KemInit
    BY Distinct DEF Init, Kem!KemInit, Content, KeyHas, EncodedPublic, Binding, Outcome, Given,
       NoOutput, Kem!Silent
<1>2. Inv /\ [Next]_vars => [Kem!KemNext]_(Kem!kemVars)
  <2> SUFFICES ASSUME Inv, [Next]_vars
               PROVE  Kem!KemNext \/ UNCHANGED <<Box, Use, Outcomes>>
      BY DEF Kem!kemVars, Box, Use, Outcomes
  <2> USE DEF Inv
  <2>1. CASE KeyStep
    <3>1. \A k \in Keys : Kem!Make(k) \/ Kem!Fill(k) \/ Kem!Discard(k) => Kem!KemNext
        BY DEF Kem!KemNext
    <3> QED
        BY <2>1, <3>1, NewIsMake, FreeIsDiscard, SetParamsIsFill, GenIsMake DEF KeyStep
  <2>2. CASE GenerationStep
      BY <2>2, Unseen DEF GenerationStep, GenInit, GenCleanup
  <2>3. CASE ContextStep
      BY <2>3, ContextStepIsTurn
  <2>4. CASE CallStep
    <3>1. \A c \in Contexts :
            Kem!Begin(c) \/ Kem!Fail(c) \/ Kem!Encapsulate(c) \/ Kem!Decapsulate(c) => Kem!KemNext
        BY DEF Kem!KemNext
    <3>2. ASSUME NEW c \in Contexts, EncapsulateStart(c) PROVE Kem!Begin(c)
        BY <3>2, StartIsBegin DEF EncapsulateStart, Idle, CallUnrelated
    <3>3. ASSUME NEW c \in Contexts, NEW ciphertext, DecapsulateStart(c, ciphertext)
          PROVE  Kem!Begin(c)
        BY <3>3, StartIsBegin DEF DecapsulateStart, Idle, CallUnrelated
    <3>4. ASSUME NEW c,
                 \/ MlkemFails(c) \/ MlkemEncapsulates(c) \/ MlkemDecapsulates(c)
                 \/ EncapsulateAgree(c) \/ DecapsulateAgree(c)
          PROVE  UNCHANGED <<Box, Use, Outcomes>>
        BY <3>4, Unseen
        DEF MlkemFails, MlkemEncapsulates, MlkemDecapsulates, EncapsulateAgree, DecapsulateAgree,
            CallUnrelated
    <3>5. ASSUME NEW c, NEW secret, NEW x301, NEW exchange,
                 \/ EncapsulateObjects(c, secret, x301, exchange)
                 \/ DecapsulateObjects(c, x301, exchange)
          PROVE  UNCHANGED <<Box, Use, Outcomes>>
        BY <3>5, Unseen DEF EncapsulateObjects, DecapsulateObjects, Objects, CallUnrelated
    <3> QED
        BY <2>4, <3>1, <3>2, <3>3, <3>4, <3>5, EncapsulateCopiesIs, DecapsulateCopiesIs,
           CleanupIsFail DEF CallStep
  <2>5. CASE UNCHANGED vars
      BY <2>5, Unseen DEF vars
  <2> QED
      BY <2>1, <2>2, <2>3, <2>4, <2>5 DEF Next
<1> QED
    BY <1>1, <1>2, Invariance, PTL DEF Spec, ImplementsKem, Kem!KemSpec
=============================================================================
