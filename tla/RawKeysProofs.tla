---------------------------- MODULE RawKeysProofs ---------------------------
(***************************************************************************)
(* The safety of the raw keys and exchanges for every set of secrets and   *)
(* encodings, every curve that meets CurveAssumption, and any number of    *)
(* providers, wrappers and boxes.                                          *)
(*                                                                         *)
(* The invariant has a part for the keys and one for the exchanges.  The   *)
(* key part is PresentComponentsValidate made inductive: every private key *)
(* on the heap has a public key, and a public key beside it is that one.   *)
(* The exchange part adds that the private key it took has one as well, so *)
(* that AgreementAssumption applies to what two exchanges derive.          *)
(***************************************************************************)
EXTENDS RawKeys, TLAPS

\* What every X301Key on the heap satisfies.
Sound(K) ==
  /\ K \in Key
  /\ K.private # Absent => PublicOf(K.private) # Absent
  /\ K.private # Absent /\ K.public # Absent => K.public = PublicOf(K.private)

KeyInv ==
  /\ key \in [Keys -> Wrapper(KeyBoxes) \cup {Free}]
  /\ keyBox \in [KeyBoxes -> Key \cup {Free}]
  /\ OwnedOnce(Keys, key, KeyBoxes, keyBox)
  /\ \A b \in KeyBoxes : keyBox[b] # Free => Sound(keyBox[b])

GenInv == generation \in GenContext \cup {Free}

\* An exchange only takes a private key that has a public key.
PrivatesHavePublics ==
  \A x \in Exchanges : exchange[x] # Free /\ ExchangeOf(x).private # Absent =>
    PublicOf(ExchangeOf(x).private) # Absent

ExchangeInv ==
  /\ exchange \in [Exchanges -> Wrapper(ExchangeBoxes) \cup {Free}]
  /\ exchangeBox \in [ExchangeBoxes -> Exchange \cup {Free}]
  /\ history \in [Exchanges -> Histories]
  /\ OwnedOnce(Exchanges, exchange, ExchangeBoxes, exchangeBox)
  /\ PeerIsLastAccepted
  /\ ProvidersKeptApart
  /\ PrivatesHavePublics

IInv == KeyInv /\ GenInv /\ ExchangeInv

-----------------------------------------------------------------------------
\* The operations of x301_ffi.rs keep a key sound.

\* A wrapper that exists leads to a sound key.
LEMMA KeyOfSound ==
  ASSUME KeyInv, NEW k \in Keys, key[k] # Free
  PROVE  key[k] \in Wrapper(KeyBoxes) /\ key[k].inner \in KeyBoxes
         /\ key[k].provider \in Providers /\ Sound(KeyOf(k)) /\ KeyOf(k) # Free
BY DEF KeyInv, OwnedOnce, KeyOf, Wrapper

LEMMA NewKeySound == Sound(NewKey)
BY CurveAssumption DEF Sound, NewKey, Key

LEMMA GenerateSound ==
  ASSUME NEW s \in RawSecrets, GenerateAccepts(s)
  PROVE  Sound(Generate(s))
BY CurveAssumption DEF Sound, Generate, GenerateAccepts, Key, CurveAssumption

LEMMA DuplicateSound ==
  ASSUME NEW K, Sound(K), NEW withPrivate \in BOOLEAN, NEW withPublic \in BOOLEAN
  PROVE  Sound(Duplicate(K, withPrivate, withPublic))
BY DEF Sound, Duplicate, Key

LEMMA ReadPublic ==
  ASSUME NEW e \in RawPublics \cup {Absent}
  PROVE  /\ ReadOptionalPublic(e) \in Publics \cup {Absent}
         /\ ReadOptionalPublic(e) = Absent <=> e = Absent
BY CurveAssumption DEF ReadOptionalPublic, CurveAssumption

LEMMA ImportSound ==
  ASSUME NEW K, Sound(K), NEW s \in RawSecrets \cup {Absent}, NEW e \in RawPublics \cup {Absent}
  PROVE  Sound(Import(K, s, e))
<1>1. CASE ImportAccepts(s, e)
    <2>1. CASE s = Absent
        BY <1>1, <2>1, ReadPublic, CurveAssumption DEF Sound, Import, Key, ImportAccepts
    <2>2. CASE s # Absent
        BY <1>1, <2>2, CurveAssumption DEF Sound, Import, Key, ImportAccepts, CurveAssumption
    <2> QED
        BY <2>1, <2>2
<1>2. CASE ~ImportAccepts(s, e)
    BY <1>2 DEF Import
<1> QED
    BY <1>1, <1>2

LEMMA SetEncodedPublicSound ==
  ASSUME NEW K, Sound(K), NEW e \in RawPublics \cup {Absent}
  PROVE  Sound(SetEncodedPublic(K, e))
BY ReadPublic, CurveAssumption DEF Sound, SetEncodedPublic, Key

-----------------------------------------------------------------------------
\* Freeing a box that exists removes it and breaks nothing.
LEMMA FreedOnce ==
  ASSUME NEW Boxes, NEW Values, NEW heap \in [Boxes -> Values], NEW b \in Boxes, heap[b] # Free
  PROVE  Freed(heap, b) = [heap EXCEPT ![b] = Free]
BY DEF Freed

\* Two ways to change the key heap: a new box in a new wrapper, and a new
\* value in the box of an existing wrapper.

LEMMA WrapKeyInv ==
  ASSUME KeyInv, NEW k \in Keys, NEW p \in Providers, NEW b \in KeyBoxes,
         NEW K, Sound(K), WrapKey(k, p, b, K) \/ WrapKeyFails(b, K)
  PROVE  KeyInv'
<1>1. K \in Key /\ K # Free /\ K # Broken
    BY HeapAssumption DEF Sound, HeapAssumption
<1>2. CASE WrapKey(k, p, b, K)
    <2>1. [provider |-> p, inner |-> b] \in Wrapper(KeyBoxes)
        BY DEF Wrapper
    <2>2. [provider |-> p, inner |-> b] # Free
        BY <2>1, HeapAssumption DEF HeapAssumption
    <2>3. key' \in [Keys -> Wrapper(KeyBoxes) \cup {Free}]
        BY <1>2, <2>1 DEF WrapKey, KeyInv
    <2>4. keyBox' \in [KeyBoxes -> Key \cup {Free}]
        BY <1>1, <1>2 DEF WrapKey, KeyInv
    <2>5. OwnedOnce(Keys, key, KeyBoxes, keyBox)'
        BY <1>1, <1>2, <2>2 DEF WrapKey, KeyInv, OwnedOnce, Wrapper
    <2>6. \A c \in KeyBoxes : keyBox'[c] # Free => Sound(keyBox'[c])
        BY <1>2 DEF WrapKey, KeyInv
    <2> QED
        BY <2>3, <2>4, <2>5, <2>6 DEF KeyInv, Sound
<1>3. CASE WrapKeyFails(b, K)
    <2>1. keyBox \in [KeyBoxes -> Key \cup {Free}] /\ keyBox[b] = Free
        BY <1>3 DEF WrapKeyFails, KeyInv
    <2>2. Freed([keyBox EXCEPT ![b] = K], b) = keyBox
        BY <1>1, <2>1 DEF Freed
    <2>3. keyBox' = keyBox /\ key' = key
        BY <1>3, <2>2 DEF WrapKeyFails
    <2> QED
        BY <2>3 DEF KeyInv, OwnedOnce, Sound
<1> QED
    BY <1>2, <1>3

LEMMA UpdateKeyInv ==
  ASSUME KeyInv, NEW k \in Keys, key[k] # Free, NEW K, Sound(K),
         keyBox' = [keyBox EXCEPT ![key[k].inner] = K], key' = key
  PROVE  KeyInv'
<1>1. K \in Key /\ K # Free /\ K # Broken
    BY HeapAssumption DEF Sound, HeapAssumption
<1>2. key[k].inner \in KeyBoxes /\ keyBox[key[k].inner] # Free
    BY KeyOfSound DEF KeyOf
<1>3. keyBox' \in [KeyBoxes -> Key \cup {Free}]
    BY <1>1, <1>2 DEF KeyInv
<1>4. OwnedOnce(Keys, key, KeyBoxes, keyBox)'
    BY <1>1, <1>2 DEF KeyInv, OwnedOnce, Wrapper
<1>5. \A c \in KeyBoxes : keyBox'[c] # Free => Sound(keyBox'[c])
    BY <1>2 DEF KeyInv
<1> QED
    BY <1>3, <1>4, <1>5 DEF KeyInv, Sound
-----------------------------------------------------------------------------
\* The exchange heap, in the same two ways.

\* What a history record says of the exchange it belongs to.
Recorded(X, h, p) ==
  /\ X \in Exchange /\ h \in Histories
  /\ X.peer = h.peer
  /\ X.peer # Absent => X.private # Absent
  /\ X.private # Absent => PublicOf(X.private) # Absent
  /\ h.privateFrom \in {Free, p} /\ h.peerFrom \in {Free, p}

LEMMA ExchangeOfRecorded ==
  ASSUME ExchangeInv, NEW x \in Exchanges, exchange[x] # Free
  PROVE  /\ exchange[x].inner \in ExchangeBoxes /\ exchange[x].provider \in Providers
         /\ Recorded(ExchangeOf(x), history[x], exchange[x].provider)
         /\ ExchangeOf(x) # Free
BY DEF ExchangeInv, OwnedOnce, ExchangeOf, Wrapper, Recorded, PeerIsLastAccepted,
   ProvidersKeptApart, PrivatesHavePublics

LEMMA NewExchangeRecorded ==
  ASSUME NEW p \in Providers
  PROVE  Recorded(NewExchange, NoHistory, p)
BY DEF Recorded, NewExchange, NoHistory, Exchange, Histories

LEMMA WrapExchangeInv ==
  ASSUME ExchangeInv, NEW x \in Exchanges, NEW p \in Providers, NEW b \in ExchangeBoxes,
         NEW X, NEW h, Recorded(X, h, p),
         WrapExchange(x, p, b, X), history' = [history EXCEPT ![x] = h]
  PROVE  ExchangeInv'
<1>1. X \in Exchange /\ X # Free /\ X # Broken /\ h \in Histories
    BY HeapAssumption DEF Recorded, HeapAssumption
<1>2. [provider |-> p, inner |-> b] \in Wrapper(ExchangeBoxes)
    BY DEF Wrapper
<1>3. [provider |-> p, inner |-> b] # Free
    BY <1>2, HeapAssumption DEF HeapAssumption
<1>4. /\ exchange' \in [Exchanges -> Wrapper(ExchangeBoxes) \cup {Free}]
      /\ exchangeBox' \in [ExchangeBoxes -> Exchange \cup {Free}]
      /\ history' \in [Exchanges -> Histories]
    BY <1>1, <1>2 DEF WrapExchange, ExchangeInv
<1>5. OwnedOnce(Exchanges, exchange, ExchangeBoxes, exchangeBox)'
    BY <1>1, <1>3 DEF WrapExchange, ExchangeInv, OwnedOnce, Wrapper
<1>6. ASSUME NEW y \in Exchanges, exchange'[y] # Free
      PROVE  Recorded(exchangeBox'[exchange'[y].inner], history'[y], exchange'[y].provider)
    <2>1. CASE y = x
        BY <2>1 DEF WrapExchange, ExchangeInv
    <2>2. CASE y # x
        <3>1. exchange'[y] = exchange[y] /\ history'[y] = history[y] /\ exchange[y] # Free
            BY <1>6, <2>2 DEF WrapExchange, ExchangeInv
        <3>2. exchangeBox'[exchange[y].inner] = ExchangeOf(y)
            BY <3>1, ExchangeOfRecorded DEF WrapExchange, ExchangeInv, ExchangeOf
        <3> QED
            BY <3>1, <3>2, ExchangeOfRecorded
    <2> QED
        BY <2>1, <2>2
<1> QED
    BY <1>4, <1>5, <1>6
    DEF ExchangeInv, PeerIsLastAccepted, ProvidersKeptApart, PrivatesHavePublics, ExchangeOf, Recorded

LEMMA UpdateExchangeInv ==
  ASSUME ExchangeInv, NEW x \in Exchanges, exchange[x] # Free,
         NEW X, NEW h, Recorded(X, h, exchange[x].provider),
         exchangeBox' = [exchangeBox EXCEPT ![exchange[x].inner] = X],
         history' = [history EXCEPT ![x] = h], exchange' = exchange
  PROVE  ExchangeInv'
<1>1. X \in Exchange /\ X # Free /\ X # Broken /\ h \in Histories
    BY HeapAssumption DEF Recorded, HeapAssumption
<1>2. exchange[x].inner \in ExchangeBoxes /\ exchangeBox[exchange[x].inner] # Free
    BY ExchangeOfRecorded DEF ExchangeOf
<1>3. /\ exchangeBox' \in [ExchangeBoxes -> Exchange \cup {Free}]
      /\ history' \in [Exchanges -> Histories]
    BY <1>1, <1>2 DEF ExchangeInv
<1>4. OwnedOnce(Exchanges, exchange, ExchangeBoxes, exchangeBox)'
    BY <1>1, <1>2 DEF ExchangeInv, OwnedOnce, Wrapper
<1>5. ASSUME NEW y \in Exchanges, exchange[y] # Free
      PROVE  Recorded(exchangeBox'[exchange[y].inner], history'[y], exchange[y].provider)
    <2>1. CASE y = x
        BY <1>2, <2>1 DEF ExchangeInv
    <2>2. CASE y # x
        <3>1. exchange[y].inner # exchange[x].inner /\ exchange[y].inner \in ExchangeBoxes
            BY <1>5, <2>2, ExchangeOfRecorded DEF ExchangeInv, OwnedOnce
        <3>2. exchangeBox'[exchange[y].inner] = ExchangeOf(y) /\ history'[y] = history[y]
            BY <2>2, <3>1 DEF ExchangeInv, ExchangeOf
        <3> QED
            BY <1>5, <3>2, ExchangeOfRecorded
    <2> QED
        BY <2>1, <2>2
<1> QED
    BY <1>3, <1>4, <1>5
    DEF ExchangeInv, PeerIsLastAccepted, ProvidersKeptApart, PrivatesHavePublics, ExchangeOf, Recorded

-----------------------------------------------------------------------------
\* One lemma per operation.

LEMMA KeyInvUnchanged ==
  ASSUME KeyInv, UNCHANGED <<key, keyBox>> PROVE KeyInv'
BY DEF KeyInv, OwnedOnce, Sound

LEMMA ExchangeInvUnchanged ==
  ASSUME ExchangeInv, UNCHANGED <<exchange, exchangeBox, history>> PROVE ExchangeInv'
BY DEF ExchangeInv, OwnedOnce, PeerIsLastAccepted, ProvidersKeptApart, PrivatesHavePublics, ExchangeOf

\* A step that only concerns the keys.
LEMMA KeyUnrelatedInv ==
  ASSUME IInv, KeyInv', KeyUnrelated PROVE IInv'
BY ExchangeInvUnchanged DEF IInv, KeyUnrelated, GenInv

\* A step that only concerns the exchanges.
LEMMA ExchangeUnrelatedInv ==
  ASSUME IInv, ExchangeInv', ExchangeUnrelated PROVE IInv'
BY KeyInvUnchanged DEF IInv, ExchangeUnrelated, GenInv

LEMMA KeyNewInv ==
  ASSUME IInv, NEW k \in Keys, NEW p \in Providers, NEW b \in KeyBoxes, KeyNew(k, p, b)
  PROVE  IInv'
<1>1. KeyInv'
    BY WrapKeyInv, NewKeySound DEF IInv, KeyNew
<1> QED
    BY <1>1, KeyUnrelatedInv DEF KeyNew

LEMMA KeyFreeInv ==
  ASSUME IInv, NEW k \in Keys, KeyFree(k)
  PROVE  IInv'
<1>a. /\ KeyInv /\ key[k] # Free /\ key[k].inner \in KeyBoxes /\ keyBox[key[k].inner] # Free
      /\ keyBox \in [KeyBoxes -> Key \cup {Free}]
    BY KeyOfSound DEF IInv, KeyFree, KeyInv, KeyOf
<1>b. Freed(keyBox, key[k].inner) = [keyBox EXCEPT ![key[k].inner] = Free]
    BY <1>a, FreedOnce
<1>1. /\ KeyInv /\ key[k] # Free /\ key[k].inner \in KeyBoxes /\ Free # Broken
      /\ keyBox' = [keyBox EXCEPT ![key[k].inner] = Free] /\ key' = [key EXCEPT ![k] = Free]
    BY <1>a, <1>b, HeapAssumption DEF KeyFree, HeapAssumption
<1>2. /\ key' \in [Keys -> Wrapper(KeyBoxes) \cup {Free}]
      /\ keyBox' \in [KeyBoxes -> Key \cup {Free}]
    BY <1>1 DEF KeyInv
<1>3. OwnedOnce(Keys, key, KeyBoxes, keyBox)'
    BY <1>1 DEF KeyInv, OwnedOnce, Wrapper
<1>4. \A c \in KeyBoxes : keyBox'[c] # Free => Sound(keyBox'[c])
    BY <1>1 DEF KeyInv
<1>5. KeyInv'
    BY <1>2, <1>3, <1>4 DEF KeyInv, Sound
<1> QED
    BY <1>5, KeyUnrelatedInv DEF KeyFree

LEMMA KeyImportInv ==
  ASSUME IInv, NEW k \in Keys, NEW selection \in Selections,
         NEW private \in RawSecrets \cup {Absent, Malformed},
         NEW public \in RawPublics \cup {Absent, Malformed},
         KeyImport(k, selection, private, public)
  PROVE  IInv'
<1> DEFINE s == Selected(WantsPrivate(selection), private)
           e == Selected(WantsPublic(selection), public)
<1>1. KeyInv /\ key[k] # Free /\ key' = key
    BY DEF IInv, KeyImport
<1>2. s \in RawSecrets \cup {Absent} /\ e \in RawPublics \cup {Absent}
    BY DEF KeyImport, ImportParamsAccepted, StrictAccepts, Selected
<1>3. keyBox' = [keyBox EXCEPT ![key[k].inner] = Import(KeyOf(k), s, e)]
    BY <1>1, KeyOfSound DEF KeyImport, KeyOf, KeyInv
<1>4. Sound(Import(KeyOf(k), s, e))
    BY <1>1, <1>2, KeyOfSound, ImportSound
<1>5. KeyInv'
    BY <1>1, <1>3, <1>4, UpdateKeyInv
<1> QED
    BY <1>5, KeyUnrelatedInv DEF KeyImport

LEMMA KeySetParamsInv ==
  ASSUME IInv, NEW k \in Keys, NEW public \in RawPublics \cup {Absent, Malformed},
         KeySetParams(k, public)
  PROVE  IInv'
<1>1. KeyInv /\ key[k] # Free /\ key' = key
    BY DEF IInv, KeySetParams
<1>2. public \in RawPublics \cup {Absent}
    BY DEF KeySetParams, StrictAccepts
<1>3. keyBox' = [keyBox EXCEPT ![key[k].inner] = SetEncodedPublic(KeyOf(k), public)]
    BY <1>1, KeyOfSound DEF KeySetParams, KeyOf, KeyInv
<1>4. Sound(SetEncodedPublic(KeyOf(k), public))
    BY <1>1, <1>2, KeyOfSound, SetEncodedPublicSound
<1>5. KeyInv'
    BY <1>1, <1>3, <1>4, UpdateKeyInv
<1> QED
    BY <1>5, KeyUnrelatedInv DEF KeySetParams

LEMMA KeyDuplicateInv ==
  ASSUME IInv, NEW source \in Keys, NEW k \in Keys, NEW selection \in Selections,
         NEW b \in KeyBoxes, KeyDuplicate(source, k, selection, b)
  PROVE  IInv'
<1> DEFINE copy == Duplicate(KeyOf(source), WantsPrivate(selection), WantsPublic(selection))
<1>1. KeyInv /\ key[source] # Free
    BY DEF IInv, KeyDuplicate
<1>a. WantsPrivate(selection) \in BOOLEAN /\ WantsPublic(selection) \in BOOLEAN
    BY DEF WantsPrivate, WantsPublic
<1>2. Sound(copy)
    <2>1. Sound(KeyOf(source))
        BY <1>1, KeyOfSound
    <2> QED
        BY <1>a, <2>1, DuplicateSound
<1>3. key[source].provider \in Providers
    BY <1>1, KeyOfSound
<1>4. WrapKey(k, key[source].provider, b, copy) \/ WrapKeyFails(b, copy)
    BY DEF KeyDuplicate
<1> HIDE DEF copy
<1>5. KeyInv'
    BY <1>1, <1>2, <1>3, <1>4, WrapKeyInv
<1> QED
    BY <1>5, KeyUnrelatedInv DEF KeyDuplicate

LEMMA KeyGenInv ==
  ASSUME IInv, NEW k \in Keys, NEW b \in KeyBoxes, NEW secret \in RawSecrets,
         KeyGen(k, b, secret)
  PROVE  IInv'
<1> DEFINE made == IF generation.selection = ALL_PARAMETERS THEN NewKey ELSE Generate(secret)
<1>1. KeyInv /\ generation.provider \in Providers
    BY DEF IInv, KeyGen, GenInv, GenContext
<1>2. Sound(made)
    BY NewKeySound, GenerateSound DEF KeyGen
<1>3. WrapKey(k, generation.provider, b, made) \/ WrapKeyFails(b, made)
    BY DEF KeyGen
<1> HIDE DEF made
<1>4. KeyInv'
    BY <1>1, <1>2, <1>3, WrapKeyInv
<1> QED
    BY <1>4, KeyUnrelatedInv DEF KeyGen

LEMMA GenerationInv ==
  ASSUME IInv, GenerationStep
  PROVE  IInv'
<1>1. GenInv'
    BY DEF IInv, GenInv, GenerationStep, GenInit, GenCleanup, GenContext
<1>2. UNCHANGED <<key, keyBox>> /\ UNCHANGED <<exchange, exchangeBox, history>>
    BY DEF GenerationStep, GenInit, GenCleanup
<1> QED
    BY <1>1, <1>2, KeyInvUnchanged, ExchangeInvUnchanged DEF IInv

LEMMA ExchangeNewInv ==
  ASSUME IInv, NEW x \in Exchanges, NEW p \in Providers, NEW b \in ExchangeBoxes,
         ExchangeNew(x, p, b)
  PROVE  IInv'
<1>1. ExchangeInv'
    <2>1. CASE WrapExchange(x, p, b, NewExchange) /\ history' = [history EXCEPT ![x] = NoHistory]
        BY <2>1, WrapExchangeInv, NewExchangeRecorded DEF IInv
    <2>2. CASE WrapExchangeFails(b, NewExchange) /\ UNCHANGED history
        <3>1. NewExchange \in Exchange /\ NewExchange # Free
            BY NewExchangeRecorded, HeapAssumption DEF Recorded, HeapAssumption
        <3> QED
            <4>1. /\ ExchangeInv /\ exchangeBox \in [ExchangeBoxes -> Exchange \cup {Free}]
                  /\ exchangeBox[b] = Free
                BY <2>2 DEF IInv, ExchangeInv, WrapExchangeFails
            <4>2. Freed([exchangeBox EXCEPT ![b] = NewExchange], b) = exchangeBox
                BY <3>1, <4>1 DEF Freed
            <4> QED
                BY <2>2, <4>1, <4>2, ExchangeInvUnchanged DEF WrapExchangeFails
    <2> QED
        BY <2>1, <2>2 DEF ExchangeNew
<1> QED
    BY <1>1, ExchangeUnrelatedInv DEF ExchangeNew

LEMMA ExchangeDuplicateInv ==
  ASSUME IInv, NEW source \in Exchanges, NEW x \in Exchanges, NEW b \in ExchangeBoxes,
         ExchangeDuplicate(source, x, b)
  PROVE  IInv'
<1>1. ExchangeInv /\ exchange[source] # Free
    BY DEF IInv, ExchangeDuplicate
<1>2. /\ exchange[source].provider \in Providers
      /\ Recorded(ExchangeOf(source), history[source], exchange[source].provider)
    BY <1>1, ExchangeOfRecorded
<1>3. ExchangeInv'
    <2>1. CASE /\ WrapExchange(x, exchange[source].provider, b, ExchangeOf(source))
               /\ history' = [history EXCEPT ![x] = history[source]]
        BY <1>1, <1>2, <2>1, WrapExchangeInv
    <2>2. CASE WrapExchangeFails(b, ExchangeOf(source)) /\ UNCHANGED history
        <3>1. ExchangeOf(source) # Free
            BY <1>1, ExchangeOfRecorded
        <3> QED
            <4>1. /\ exchangeBox \in [ExchangeBoxes -> Exchange \cup {Free}]
                  /\ exchangeBox[b] = Free
                BY <1>1, <2>2 DEF ExchangeInv, WrapExchangeFails
            <4>2. Freed([exchangeBox EXCEPT ![b] = ExchangeOf(source)], b) = exchangeBox
                BY <3>1, <4>1 DEF Freed
            <4> QED
                BY <1>1, <2>2, <4>1, <4>2, ExchangeInvUnchanged DEF WrapExchangeFails
    <2> QED
        BY <2>1, <2>2 DEF ExchangeDuplicate
<1> QED
    BY <1>3, ExchangeUnrelatedInv DEF ExchangeDuplicate

LEMMA ExchangeFreeInv ==
  ASSUME IInv, NEW x \in Exchanges, ExchangeFree(x)
  PROVE  IInv'
<1>a. /\ ExchangeInv /\ exchange[x] # Free /\ exchange[x].inner \in ExchangeBoxes
      /\ exchangeBox[exchange[x].inner] # Free
      /\ exchangeBox \in [ExchangeBoxes -> Exchange \cup {Free}]
    BY ExchangeOfRecorded DEF IInv, ExchangeFree, ExchangeInv, ExchangeOf
<1>b. Freed(exchangeBox, exchange[x].inner) = [exchangeBox EXCEPT ![exchange[x].inner] = Free]
    BY <1>a, FreedOnce
<1>1. /\ ExchangeInv /\ exchange[x] # Free /\ exchange[x].inner \in ExchangeBoxes
      /\ Free # Broken
      /\ exchangeBox' = [exchangeBox EXCEPT ![exchange[x].inner] = Free]
      /\ exchange' = [exchange EXCEPT ![x] = Free]
      /\ history' = [history EXCEPT ![x] = NoHistory]
    BY <1>a, <1>b, HeapAssumption DEF ExchangeFree, HeapAssumption
<1>2. /\ exchange' \in [Exchanges -> Wrapper(ExchangeBoxes) \cup {Free}]
      /\ exchangeBox' \in [ExchangeBoxes -> Exchange \cup {Free}]
      /\ history' \in [Exchanges -> Histories]
    BY <1>1 DEF ExchangeInv, NoHistory, Histories
<1>3. OwnedOnce(Exchanges, exchange, ExchangeBoxes, exchangeBox)'
    BY <1>1 DEF ExchangeInv, OwnedOnce, Wrapper
<1>4. ASSUME NEW y \in Exchanges, exchange'[y] # Free
      PROVE  Recorded(exchangeBox'[exchange'[y].inner], history'[y], exchange'[y].provider)
    <2>1. y # x /\ exchange'[y] = exchange[y] /\ history'[y] = history[y] /\ exchange[y] # Free
        BY <1>1, <1>4 DEF ExchangeInv
    <2>2. exchange[y].inner # exchange[x].inner /\ exchange[y].inner \in ExchangeBoxes
        BY <1>1, <2>1, ExchangeOfRecorded DEF ExchangeInv, OwnedOnce
    <2>3. exchangeBox'[exchange[y].inner] = ExchangeOf(y)
        BY <1>1, <2>2 DEF ExchangeInv, ExchangeOf
    <2> QED
        BY <1>1, <2>1, <2>3, ExchangeOfRecorded
<1>5. ExchangeInv'
    BY <1>2, <1>3, <1>4
    DEF ExchangeInv, PeerIsLastAccepted, ProvidersKeptApart, PrivatesHavePublics, ExchangeOf, Recorded
<1> QED
    BY <1>5, ExchangeUnrelatedInv DEF ExchangeFree

LEMMA InitExchangeInv ==
  ASSUME IInv, NEW x \in Exchanges, NEW k \in Keys, InitExchange(x, k)
  PROVE  IInv'
<1> DEFINE old == ExchangeOf(x)
           K == KeyOf(k)
           X == ExchangeInit(old, K)
           h == IF K.private = Absent THEN history[x]
                ELSE [NoHistory EXCEPT !.privateFrom = key[k].provider]
<1>1. /\ ExchangeInv /\ KeyInv /\ exchange[x] # Free /\ key[k] # Free
      /\ exchange[x].provider = key[k].provider
    BY DEF IInv, InitExchange, SameProvider
<1>2. /\ K \in Key /\ key[k].provider \in Providers
      /\ K.private # Absent => PublicOf(K.private) # Absent
    BY <1>1, KeyOfSound DEF Sound
<1>3. exchange[x].inner \in ExchangeBoxes /\ Recorded(old, history[x], exchange[x].provider)
    BY <1>1, ExchangeOfRecorded
<1>4. exchangeBox' = [exchangeBox EXCEPT ![exchange[x].inner] = X]
    BY <1>1, <1>3 DEF InitExchange, ExchangeOf, ExchangeInv
<1>5. history' = [history EXCEPT ![x] = h]
    BY <1>1 DEF InitExchange, ExchangeInv
<1>6. Recorded(X, h, exchange[x].provider)
    BY <1>1, <1>2, <1>3 DEF Recorded, ExchangeInit, Exchange, Key, NoHistory, Histories
<1>7. exchange' = exchange
    BY DEF InitExchange
<1> HIDE DEF X, h
<1>8. ExchangeInv'
    BY <1>1, <1>4, <1>5, <1>6, <1>7, UpdateExchangeInv
<1> QED
    BY <1>8, ExchangeUnrelatedInv DEF InitExchange

LEMMA ExchangeSetPeerInv ==
  ASSUME IInv, NEW x \in Exchanges, NEW k \in Keys, ExchangeSetPeer(x, k)
  PROVE  IInv'
<1> DEFINE old == ExchangeOf(x)
           K == KeyOf(k)
           X == SetPeer(old, K)
           h == IF ~PeerAccepted(old, K) THEN history[x]
                ELSE [history[x] EXCEPT !.peerFrom = key[k].provider, !.peer = K.public]
<1>1. /\ ExchangeInv /\ KeyInv /\ exchange[x] # Free /\ key[k] # Free
      /\ exchange[x].provider = key[k].provider
    BY DEF IInv, ExchangeSetPeer, SameProvider
<1>2. /\ K \in Key /\ key[k].provider \in Providers
      /\ K.private # Absent => PublicOf(K.private) # Absent
    BY <1>1, KeyOfSound DEF Sound
<1>3. exchange[x].inner \in ExchangeBoxes /\ Recorded(old, history[x], exchange[x].provider)
    BY <1>1, ExchangeOfRecorded
<1>4. exchangeBox' = [exchangeBox EXCEPT ![exchange[x].inner] = X]
    BY <1>1, <1>3 DEF ExchangeSetPeer, ExchangeOf, ExchangeInv
<1>5. history' = [history EXCEPT ![x] = h]
    BY <1>1, <1>3 DEF ExchangeSetPeer, ExchangeInv, Recorded
<1>6. Recorded(X, h, exchange[x].provider)
    BY <1>1, <1>2, <1>3 DEF Recorded, SetPeer, PeerAccepted, Exchange, Key, Histories
<1>7. exchange' = exchange
    BY DEF ExchangeSetPeer
<1> HIDE DEF X, h
<1>8. ExchangeInv'
    BY <1>1, <1>4, <1>5, <1>6, <1>7, UpdateExchangeInv
<1> QED
    BY <1>8, ExchangeUnrelatedInv DEF ExchangeSetPeer

-----------------------------------------------------------------------------
\* The invariant is inductive.

LEMMA InitInv == Init => IInv
<1> SUFFICES ASSUME Init PROVE IInv
    OBVIOUS
<1>a. Free # Broken
    BY HeapAssumption DEF HeapAssumption
<1>1. KeyInv
    BY <1>a DEF Init, KeyInv, OwnedOnce
<1>2. ExchangeInv
    BY <1>a DEF Init, ExchangeInv, OwnedOnce, PeerIsLastAccepted, ProvidersKeptApart, PrivatesHavePublics,
           NoHistory, Histories
<1> QED
    BY <1>1, <1>2 DEF Init, IInv, GenInv

LEMMA NextInv == IInv /\ [Next]_vars => IInv'
<1> SUFFICES ASSUME IInv, [Next]_vars PROVE IInv'
    OBVIOUS
<1>1. CASE KeyStep
    BY <1>1, KeyNewInv, KeyFreeInv, KeyImportInv, KeySetParamsInv, KeyDuplicateInv, KeyGenInv
    DEF KeyStep, Offers
<1>2. CASE GenerationStep
    BY <1>2, GenerationInv
<1>3. CASE ExchangeStep
    BY <1>3, ExchangeNewInv, ExchangeFreeInv, ExchangeDuplicateInv, InitExchangeInv,
       ExchangeSetPeerInv
    DEF ExchangeStep
<1>4. CASE UNCHANGED vars
    BY <1>4, KeyInvUnchanged, ExchangeInvUnchanged DEF vars, IInv, GenInv
<1> QED
    BY <1>1, <1>2, <1>3, <1>4 DEF Next

LEMMA Invariance == Spec => []IInv
BY InitInv, NextInv, PTL DEF Spec

-----------------------------------------------------------------------------
\* The theorems.

\* Every wrapper, box, generation context and history record keeps its type:
\* in particular every stored public key and peer is in canonical form, since
\* read_optional_public and public_from_secret are the only ways in.
THEOREM TypeCorrect == Spec => []TypeOK
<1>1. IInv => TypeOK
    BY DEF IInv, KeyInv, GenInv, ExchangeInv, TypeOK
<1> QED
    BY <1>1, Invariance, PTL

\* Across the C and Rust heaps, for any number of objects and any allocation
\* failures: no box is leaked, shared by two wrappers, or used after its free.
THEOREM Ownership == Spec => []BoxesOwnedOnce
<1>1. IInv => BoxesOwnedOnce
    BY DEF IInv, KeyInv, ExchangeInv, BoxesOwnedOnce
<1> QED
    BY <1>1, Invariance, PTL

\* x301_key_validate accepts every selection x301_key_has reports, for any
\* curve that meets CurveAssumption.
THEOREM KeysValidate == Spec => []PresentComponentsValidate
<1>1. IInv => PresentComponentsValidate
    <2> SUFFICES ASSUME IInv, NEW k \in Keys, NEW selection \in Selections,
                        key[k] # Free, KeyHas(k, selection)
                 PROVE  KeyValidate(k, selection)
        BY DEF PresentComponentsValidate
    <2>1. Sound(KeyOf(k))
        BY KeyOfSound DEF IInv
    <2> QED
        BY <2>1 DEF KeyHas, KeyValidate, Has, Validate, Sound
<1> QED
    BY <1>1, Invariance, PTL

\* A peer is in force exactly when set_peer accepted it after the last init.
THEOREM LastPeer == Spec => []PeerIsLastAccepted
<1>1. IInv => PeerIsLastAccepted
    BY DEF IInv, ExchangeInv
<1> QED
    BY <1>1, Invariance, PTL

\* Neither the private key nor the peer of an exchange comes from another
\* provider instance, the copies x301_exchange_duplicate makes included.
THEOREM ProvidersApart == Spec => []ProvidersKeptApart
<1>1. IInv => ProvidersKeptApart
    BY DEF IInv, ExchangeInv
<1> QED
    BY <1>1, Invariance, PTL

\* Two exchanges of one or of two providers that hold each other's public keys
\* derive the same secret, however keys and peers reached them: set, imported,
\* generated, duplicated, re-initialised or given another peer in between.
THEOREM SecretsMatch == Spec => []ExchangesAgree
<1>1. IInv => ExchangesAgree
    <2> SUFFICES ASSUME IInv, NEW x \in Exchanges, NEW y \in Exchanges,
                        exchange[x] # Free, ExchangeOf(x).private # Absent,
                        exchange[y] # Free, ExchangeOf(y).private # Absent,
                        history[x].peer = PublicOf(ExchangeOf(y).private),
                        history[y].peer = PublicOf(ExchangeOf(x).private)
                 PROVE  /\ ExchangeDerive(ExchangeOf(x)) # Absent
                        /\ ExchangeDerive(ExchangeOf(x)) = ExchangeDerive(ExchangeOf(y))
        BY DEF ExchangesAgree
    <2> DEFINE s == ExchangeOf(x).private
               t == ExchangeOf(y).private
    <2>1. /\ Recorded(ExchangeOf(x), history[x], exchange[x].provider)
          /\ Recorded(ExchangeOf(y), history[y], exchange[y].provider)
        BY ExchangeOfRecorded DEF IInv
    <2>2. /\ s \in RawSecrets /\ PublicOf(s) # Absent /\ ExchangeOf(x).peer = PublicOf(t)
          /\ t \in RawSecrets /\ PublicOf(t) # Absent /\ ExchangeOf(y).peer = PublicOf(s)
        BY <2>1 DEF Recorded, Exchange
    <2>3. /\ ExchangeDerive(ExchangeOf(x)) = Shared(s, PublicOf(t))
          /\ ExchangeDerive(ExchangeOf(y)) = Shared(t, PublicOf(s))
        BY <2>2 DEF ExchangeDerive
    <2> HIDE DEF s, t
    <2> QED
        BY <2>2, <2>3, AgreementAssumption DEF AgreementAssumption
<1> QED
    BY <1>1, Invariance, PTL

\* x301_exchange_derive leaves the buffer alone unless it succeeds, and then
\* uses a peer accepted since the exchange was initialised.
THEOREM DerivesWhole == Spec => []DeriveIsAllOrNothing
<1>1. IInv => DeriveIsAllOrNothing
    <2> SUFFICES ASSUME IInv, NEW x \in Exchanges, NEW buffer \in Buffers, exchange[x] # Free
                 PROVE  DeriveIsAllOrNothing!(x, buffer)!2
        BY DEF DeriveIsAllOrNothing
    <2> DEFINE secret == ExchangeDerive(ExchangeOf(x))
    <2>1. Recorded(ExchangeOf(x), history[x], exchange[x].provider)
        BY ExchangeOfRecorded DEF IInv
    <2>2. secret # Absent => secret # Free /\ history[x].peer # Absent
        BY <2>1, HeapAssumption DEF Recorded, Exchange, ExchangeDerive, HeapAssumption
    <2>3. Derive(x, buffer, Free) =
            CASE buffer = "null" -> [ok |-> TRUE, secret |-> Free, length |-> "full"]
              [] buffer = "short" -> [ok |-> FALSE, secret |-> Free, length |-> "full"]
              [] buffer = "full" /\ secret = Absent ->
                   [ok |-> FALSE, secret |-> Free, length |-> "zero"]
              [] OTHER -> [ok |-> TRUE, secret |-> secret, length |-> "full"]
        BY DEF Derive
    <2> HIDE DEF secret
    <2> QED
        BY <2>2, <2>3 DEF Buffers
<1> QED
    BY <1>1, Invariance, PTL

\* Every key x301_key_export reports is one x301_key_import takes back, and
\* the copy matches it.
THEOREM ReportedAccepted == Spec => []ReportedKeysAreAccepted
<1>1. ASSUME IInv, NEW k \in Keys, NEW selection \in Selections,
             key[k] # Free, ExportAccepts(k, selection)
      PROVE  LET e == Exported(k, selection)
                 copy == Import(NewKey, e.private, e.public)
                 reported == {c \in KEYPAIR : e[c] # Absent}
             IN  /\ ImportParamsAccepted(selection, e.private, e.public)
                 /\ KeyMatch(k, copy, reported)
                 /\ GetParamsAccepts(k, "private" \in reported, "public" \in reported)
                 /\ e.public # Absent => SetEncodedPublic(KeyOf(k), e.public) = KeyOf(k)
    <2> DEFINE K == KeyOf(k)
               s == Selected(WantsPrivate(selection), K.private)
               e == Selected(WantsPublic(selection), K.public)
               copy == Import(NewKey, s, e)
               reported == {c \in KEYPAIR : Exported(k, selection)[c] # Absent}
    <2>1. Sound(K)
        BY <1>1, KeyOfSound DEF IInv
    <2>2. Exported(k, selection).private = s /\ Exported(k, selection).public = e
        BY DEF Exported
    <2>3. s \in {K.private, Absent} /\ e \in {K.public, Absent}
        BY DEF Selected
    <2>4. s \in RawSecrets \cup {Absent} /\ e \in Publics \cup {Absent}
        BY <2>1, <2>3 DEF Sound, Key
    <2>5. ReadOptionalPublic(e) = e /\ (K.public # Absent => ReadOptionalPublic(K.public) = K.public)
        BY <2>1, <2>4, CurveAssumption DEF ReadOptionalPublic, CurveAssumption, Sound, Key
    <2>6. (s # Absent \/ e # Absent) /\ SelectionSupported(selection)
        BY <1>1, <2>2 DEF ExportAccepts
    <2>7. ImportAccepts(s, e)
        BY <2>1, <2>3, <2>5, <2>6 DEF ImportAccepts, Sound
    <2>8. copy.private = s /\ (e # Absent => copy.public = e)
        BY <2>5, <2>7 DEF Import, ImportAccepts
    <2>9. s # Absent => s = K.private
        BY <2>3
    <2>10. e # Absent => e = K.public
        BY <2>3
    <2>11. ImportParamsAccepted(selection, s, e)
        <3>1. s # Malformed /\ e # Malformed
            BY <2>4, HeapAssumption, CurveAssumption DEF HeapAssumption, CurveAssumption
        <3>2. s # Absent => WantsPrivate(selection)
            BY DEF Selected
        <3>3. e # Absent => WantsPublic(selection)
            BY DEF Selected
        <3> HIDE DEF s, e
        <3> QED
            BY <2>6, <3>1, <3>2, <3>3 DEF ImportParamsAccepted, StrictAccepts
    <2>12. ("private" \in reported <=> s # Absent) /\ ("public" \in reported <=> e # Absent)
        BY <2>2 DEF KEYPAIR
    <2>13. "foreign" \notin reported
        BY DEF KEYPAIR
    <2>14. e # Absent => SetEncodedPublic(K, e) = K
        BY <2>1, <2>5, <2>10 DEF SetEncodedPublic, Sound, Key
    <2> HIDE DEF reported, copy, s, e
    <2>15. KeyMatch(k, copy, reported)
        BY <2>8, <2>9, <2>10, <2>12, <2>13
        DEF KeyMatch, Match, SelectionSupported, WantsPrivate, WantsPublic
    <2>16. GetParamsAccepts(k, "private" \in reported, "public" \in reported)
        BY <2>9, <2>10, <2>12 DEF GetParamsAccepts, Has
    <2>17. copy = Import(NewKey, Exported(k, selection).private, Exported(k, selection).public)
        BY <2>2 DEF copy
    <2> QED
        BY <2>2, <2>11, <2>14, <2>15, <2>16, <2>17 DEF reported
<1>2. IInv => ReportedKeysAreAccepted
    BY <1>1 DEF ReportedKeysAreAccepted
<1> QED
    BY <1>2, Invariance, PTL

\* What x301_key_import has not replaced was at most completed, by
\* x301_key_set_params, with the public key it lacked; and no step that
\* x301_key_set_params could have taken replaces anything.
THEOREM ReplacedByImport == Spec => OnlyImportReplaces
<1>1. ASSUME IInv, Next, NEW k \in Keys,
             key[k] # Free, key'[k] = key[k], KeyOf(k)' # KeyOf(k)
      PROVE  /\ Completed(k) \/ Imported(k)
             /\ (\E public \in RawPublics \cup {Absent, Malformed} : KeySetParams(k, public))
                  => Completed(k)
    <2>1. /\ KeyInv /\ keyBox \in [KeyBoxes -> Key \cup {Free}]
          /\ key \in [Keys -> Wrapper(KeyBoxes) \cup {Free}]
        BY <1>1 DEF IInv, KeyInv
    <2>2. /\ key[k].inner \in KeyBoxes /\ keyBox[key[k].inner] # Free
          /\ keyBox'[key[k].inner] # keyBox[key[k].inner]
        BY <1>1, <2>1, KeyOfSound DEF KeyOf
    <2>3. ASSUME NEW j \in Keys, NEW p, NEW b \in KeyBoxes, NEW K,
                 WrapKey(j, p, b, K) \/ WrapKeyFails(b, K)
          PROVE  FALSE
        BY <2>1, <2>2, <2>3 DEF WrapKey, WrapKeyFails, Freed
    <2>4. ASSUME NEW j \in Keys, key[j] # Free, NEW K,
                 keyBox' = [keyBox EXCEPT ![key[j].inner] = K]
          PROVE  j = k
        BY <1>1, <2>1, <2>2, <2>4 DEF KeyInv, OwnedOnce
    <2>5. ~(UNCHANGED keyBox)
        BY <2>2
    <2>9. ASSUME NEW public \in RawPublics \cup {Absent, Malformed}, KeySetParams(k, public)
          PROVE  Completed(k)
        <3>1. /\ KeyOf(k) = keyBox[key[k].inner] /\ KeyOf(k)' = keyBox'[key[k].inner]
              /\ keyBox'[key[k].inner] = SetEncodedPublic(keyBox[key[k].inner], public)
            BY <1>1, <2>1, <2>2, <2>9 DEF KeySetParams, KeyOf
        <3>2. keyBox[key[k].inner] \in Key
            BY <2>1, <2>2
        <3> QED
            BY <2>2, <3>1, <3>2 DEF SetEncodedPublic, Key, Completed
    <2> SUFFICES Completed(k) \/ Imported(k)
        BY <2>9
    <2>6. CASE KeyStep
        <3>1. PICK j \in Keys :
                \/ \E p \in Providers, b \in KeyBoxes : KeyNew(j, p, b)
                \/ KeyFree(j)
                \/ Imported(j)
                \/ \E public \in RawPublics \cup {Absent, Malformed} : KeySetParams(j, public)
                \/ \E source \in Keys, selection \in Selections, b \in KeyBoxes :
                      KeyDuplicate(source, j, selection, b)
                \/ \E b \in KeyBoxes, secret \in RawSecrets : KeyGen(j, b, secret)
            BY <2>6 DEF KeyStep, Imported, Offers
        <3>2. CASE \E p \in Providers, b \in KeyBoxes : KeyNew(j, p, b)
            BY <2>3, <3>2 DEF KeyNew
        <3>3. CASE KeyFree(j)
            BY <1>1, <2>1, <2>4, <3>3 DEF KeyFree, Freed
        <3>4. CASE Imported(j)
            BY <2>4, <3>4 DEF KeyImport, Imported
        <3>5. CASE \E public \in RawPublics \cup {Absent, Malformed} : KeySetParams(j, public)
            BY <2>4, <2>9, <3>5 DEF KeySetParams
        <3>6. CASE \E source \in Keys, selection \in Selections, b \in KeyBoxes :
                     KeyDuplicate(source, j, selection, b)
            BY <2>3, <3>6 DEF KeyDuplicate
        <3>7. CASE \E b \in KeyBoxes, secret \in RawSecrets : KeyGen(j, b, secret)
            BY <2>3, <3>7 DEF KeyGen
        <3> QED
            BY <3>1, <3>2, <3>3, <3>4, <3>5, <3>6, <3>7
    <2>7. CASE GenerationStep
        BY <2>5, <2>7 DEF GenerationStep, GenInit, GenCleanup
    <2>8. CASE ExchangeStep
        BY <2>5, <2>8 DEF ExchangeStep, ExchangeNew, ExchangeFree, ExchangeDuplicate,
                          InitExchange, ExchangeSetPeer, ExchangeUnrelated
    <2> QED
        BY <1>1, <2>6, <2>7, <2>8 DEF Next
<1>2. IInv /\ [Next]_vars => [ReplacedOnlyByImport]_vars
    BY <1>1 DEF ReplacedOnlyByImport
<1> QED
    BY <1>2, Invariance, PTL DEF Spec, OnlyImportReplaces
=============================================================================
