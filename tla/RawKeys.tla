------------------------------- MODULE RawKeys ------------------------------
(***************************************************************************)
(* The raw X301 KEYMGMT and KEYEXCH of provider_shim.c.  OpenSSL holds C   *)
(* wrappers, each naming the provider that made it and the Rust box that   *)
(* holds the key or exchange; the Rust heap is separate, so that a box can *)
(* be lost or freed twice.  An operation that fails has no effect but an   *)
(* entry in the error queue, which is not modelled.                        *)
(***************************************************************************)
EXTENDS X301Ffi

CONSTANTS
  Providers,    \* loaded instances of the provider
  Keys, Exchanges,              \* wrappers OpenSSL can hold at a time
  KeyBoxes, ExchangeBoxes,      \* Rust allocations
  Free,         \* a wrapper or box that does not exist
  Broken,       \* a box that was freed while it did not exist
  Malformed,    \* a parameter of the wrong type or length
  Selections    \* the selections callers use

VARIABLES
  key,          \* X301_KEY wrappers
  keyBox,       \* X301Key objects on the Rust heap
  exchange,     \* X301_EXCHANGE wrappers
  exchangeBox,  \* X301Exchange objects on the Rust heap
  generation,   \* the X301_GEN_CONTEXT of the application, or Free
  history       \* what the operations on an exchange have been (not code)

vars == <<key, keyBox, exchange, exchangeBox, generation, history>>

Wrapper(boxes) == [provider : Providers, inner : boxes]
GenContext == [provider : Providers, selection : Selections]

\* Selections are sets of OSSL_KEYMGMT_SELECT_* bits; "foreign" stands for the
\* bits outside OSSL_KEYMGMT_SELECT_ALL.
ASSUME HeapAssumption ==
  /\ Selections \subseteq SUBSET {"private", "public", "domain", "other", "foreign"}
  /\ Free \notin Wrapper(KeyBoxes) \cup Wrapper(ExchangeBoxes) \cup Key \cup Exchange
  /\ Free \notin GenContext
  /\ Broken \notin Key \cup Exchange \cup {Free}
  /\ \A s \in RawSecrets, u \in Publics : Free # Shared(s, u)
  /\ Malformed \notin RawSecrets \cup RawPublics \cup {Absent}

-----------------------------------------------------------------------------
KEYPAIR == {"private", "public"}
ALL_PARAMETERS == {"domain", "other"}

SelectionSupported(selection) == "foreign" \notin selection
WantsPrivate(selection) == "private" \in selection
WantsPublic(selection) == "public" \in selection

\* x301_param_get_strict_octet_string.
StrictAccepts(parameter, required) ==
  parameter # Malformed /\ (parameter = Absent => ~required)

\* The parameter checks of x301_key_import, before the call into Rust.
ImportParamsAccepted(selection, private, public) ==
  /\ SelectionSupported(selection)
  /\ WantsPrivate(selection) \/ WantsPublic(selection)
  /\ WantsPrivate(selection) => StrictAccepts(private, ~WantsPublic(selection))
  /\ WantsPublic(selection) => StrictAccepts(public, ~WantsPrivate(selection))

\* Only what is selected is handed to Rust.
Selected(wanted, parameter) == IF wanted THEN parameter ELSE Absent

KeyOf(k) == keyBox[key[k].inner]
ExchangeOf(x) == exchangeBox[exchange[x].inner]

-----------------------------------------------------------------------------
\* key_free and exchange_free: the heap once a box on it is freed.
Freed(heap, box) == [heap EXCEPT ![box] = IF @ = Free THEN Broken ELSE Free]

\* Wrapping a new Rust key, which exists before its wrapper is asked for.
WrapKey(k, provider, box, inner) ==
  /\ key[k] = Free /\ keyBox[box] = Free
  /\ key' = [key EXCEPT ![k] = [provider |-> provider, inner |-> box]]
  /\ keyBox' = [keyBox EXCEPT ![box] = inner]

\* Fault: the callback that made the box frees it as well.
WrapKeyFails_FreesTwice(box, inner) ==
  /\ keyBox[box] = Free
  /\ keyBox' = Freed(Freed([keyBox EXCEPT ![box] = inner], box), box)
  /\ UNCHANGED key

\* The wrapper cannot be allocated, and the box that was to go into it is
\* freed: by x301_wrap_key, and by nobody else.
WrapKeyFails(box, inner) ==
  /\ keyBox[box] = Free
  /\ keyBox' = Freed([keyBox EXCEPT ![box] = inner], box)
  /\ UNCHANGED key

KeyUnrelated == UNCHANGED <<exchange, exchangeBox, generation, history>>

KeyNew(k, provider, box) ==
  /\ WrapKey(k, provider, box, NewKey) \/ WrapKeyFails(box, NewKey)
  /\ KeyUnrelated

KeyFree(k) ==
  /\ key[k] # Free
  /\ keyBox' = Freed(keyBox, key[k].inner)
  /\ key' = [key EXCEPT ![k] = Free]
  /\ KeyUnrelated

KeyImport(k, selection, private, public) ==
  /\ key[k] # Free
  /\ ImportParamsAccepted(selection, private, public)
  /\ keyBox' = [keyBox EXCEPT ![key[k].inner] =
       Import(@, Selected(WantsPrivate(selection), private),
                 Selected(WantsPublic(selection), public))]
  /\ UNCHANGED key
  /\ KeyUnrelated

\* x301_key_set_params: without an encoded public key there is nothing to do.
KeySetParams(k, public) ==
  /\ key[k] # Free
  /\ StrictAccepts(public, TRUE)
  /\ keyBox' = [keyBox EXCEPT ![key[k].inner] = SetEncodedPublic(@, public)]
  /\ UNCHANGED key
  /\ KeyUnrelated

KeyDuplicate(source, k, selection, box) ==
  /\ key[source] # Free
  /\ SelectionSupported(selection)
  /\ LET copy == Duplicate(KeyOf(source), WantsPrivate(selection), WantsPublic(selection))
     IN  WrapKey(k, key[source].provider, box, copy) \/ WrapKeyFails(box, copy)
  /\ KeyUnrelated

-----------------------------------------------------------------------------
\* Key generation.  The context is freed again when its parameters are refused.
GenInitAccepts(selection) ==
  /\ KEYPAIR \subseteq selection \/ selection = ALL_PARAMETERS
  /\ SelectionSupported(selection)

GenInit(provider, selection) ==
  /\ generation = Free
  /\ GenInitAccepts(selection)
  /\ generation' = [provider |-> provider, selection |-> selection]
  /\ UNCHANGED <<key, keyBox, exchange, exchangeBox, history>>

\* The parameters alone give an empty key; otherwise one secret is drawn.
KeyGen(k, box, secret) ==
  /\ generation # Free
  /\ generation.selection # ALL_PARAMETERS => GenerateAccepts(secret)
  /\ LET made == IF generation.selection = ALL_PARAMETERS THEN NewKey ELSE Generate(secret)
     IN  WrapKey(k, generation.provider, box, made) \/ WrapKeyFails(box, made)
  /\ KeyUnrelated

GenCleanup ==
  /\ generation # Free
  /\ generation' = Free
  /\ UNCHANGED <<key, keyBox, exchange, exchangeBox, history>>

-----------------------------------------------------------------------------
\* Key exchange.
NoHistory == [privateFrom |-> Free, peerFrom |-> Free, peer |-> Absent]

ExchangeUnrelated == UNCHANGED <<key, keyBox, generation>>

WrapExchange(x, provider, box, inner) ==
  /\ exchange[x] = Free /\ exchangeBox[box] = Free
  /\ exchange' = [exchange EXCEPT ![x] = [provider |-> provider, inner |-> box]]
  /\ exchangeBox' = [exchangeBox EXCEPT ![box] = inner]

WrapExchangeFails(box, inner) ==
  /\ exchangeBox[box] = Free
  /\ exchangeBox' = Freed([exchangeBox EXCEPT ![box] = inner], box)
  /\ UNCHANGED exchange

ExchangeNew(x, provider, box) ==
  /\ \/ /\ WrapExchange(x, provider, box, NewExchange)
        /\ history' = [history EXCEPT ![x] = NoHistory]
     \/ WrapExchangeFails(box, NewExchange) /\ UNCHANGED history
  /\ ExchangeUnrelated

ExchangeFree(x) ==
  /\ exchange[x] # Free
  /\ exchangeBox' = Freed(exchangeBox, exchange[x].inner)
  /\ exchange' = [exchange EXCEPT ![x] = Free]
  /\ history' = [history EXCEPT ![x] = NoHistory]
  /\ ExchangeUnrelated

ExchangeDuplicate(source, x, box) ==
  /\ exchange[source] # Free
  /\ \/ /\ WrapExchange(x, exchange[source].provider, box, ExchangeOf(source))
        /\ history' = [history EXCEPT ![x] = history[source]]
     \/ WrapExchangeFails(box, ExchangeOf(source)) /\ UNCHANGED history
  /\ ExchangeUnrelated

\* Fault: the providers are not compared.
SameProvider_Unchecked(x, k) == exchange[x] # Free /\ key[k] # Free

SameProvider(x, k) ==
  /\ exchange[x] # Free /\ key[k] # Free
  /\ exchange[x].provider = key[k].provider

\* x301_exchange_init, called with an empty parameter list.
InitExchange(x, k) ==
  /\ SameProvider(x, k)
  /\ exchangeBox' = [exchangeBox EXCEPT ![exchange[x].inner] = ExchangeInit(@, KeyOf(k))]
  /\ history' = IF KeyOf(k).private = Absent THEN history
                ELSE [history EXCEPT ![x] = [NoHistory EXCEPT !.privateFrom = key[k].provider]]
  /\ UNCHANGED exchange
  /\ ExchangeUnrelated

ExchangeSetPeer(x, k) ==
  /\ SameProvider(x, k)
  /\ exchangeBox' = [exchangeBox EXCEPT ![exchange[x].inner] = SetPeer(@, KeyOf(k))]
  /\ history' = IF ~PeerAccepted(ExchangeOf(x), KeyOf(k)) THEN history
                ELSE [history EXCEPT ![x].peerFrom = key[k].provider, ![x].peer = KeyOf(k).public]
  /\ UNCHANGED exchange
  /\ ExchangeUnrelated

-----------------------------------------------------------------------------
\* The queries: they change nothing, and the properties are stated with them.
KeyHas(k, selection) ==
  SelectionSupported(selection) /\ Has(KeyOf(k), WantsPrivate(selection), WantsPublic(selection))

KeyValidate(k, selection) ==
  SelectionSupported(selection) /\ Validate(KeyOf(k), WantsPrivate(selection), WantsPublic(selection))

\* Whether a key holding the object "other" of the same provider matches k.
KeyMatch(k, other, selection) ==
  /\ SelectionSupported(selection)
  /\ Match(KeyOf(k), other, WantsPrivate(selection), WantsPublic(selection))

\* The parameters x301_key_export passes to its callback: the selected
\* components that are present, and none is a failure.
Exported(k, selection) ==
  [private |-> Selected(WantsPrivate(selection), KeyOf(k).private),
   public |-> Selected(WantsPublic(selection), KeyOf(k).public)]
ExportAccepts(k, selection) ==
  /\ SelectionSupported(selection)
  /\ Exported(k, selection).private # Absent \/ Exported(k, selection).public # Absent

\* x301_key_get_params: every component that is asked for must be present.
GetParamsAccepts(k, private, public) == Has(KeyOf(k), private, public)

\* x301_exchange_derive on a buffer that holds "before": a null buffer asks for
\* the length; a short buffer is told the length and refused; otherwise the
\* length is cleared first and the secret is copied out only when Rust has
\* computed all of it.
Buffers == {"null", "short", "full"}

\* Fault: the result is copied out before its status is looked at.
Derive_CopiesFirst(x, buffer, before) ==
  LET secret == ExchangeDerive(ExchangeOf(x))
  IN  IF buffer = "full"
      THEN [ok |-> secret # Absent, secret |-> secret,
            length |-> IF secret = Absent THEN "zero" ELSE "full"]
      ELSE [ok |-> buffer = "null", secret |-> before, length |-> "full"]

Derive(x, buffer, before) ==
  LET secret == ExchangeDerive(ExchangeOf(x))
  IN  CASE buffer = "null" -> [ok |-> TRUE, secret |-> before, length |-> "full"]
        [] buffer = "short" -> [ok |-> FALSE, secret |-> before, length |-> "full"]
        [] buffer = "full" /\ secret = Absent -> [ok |-> FALSE, secret |-> before, length |-> "zero"]
        [] OTHER -> [ok |-> TRUE, secret |-> secret, length |-> "full"]

-----------------------------------------------------------------------------
Init ==
  /\ key = [k \in Keys |-> Free] /\ keyBox = [b \in KeyBoxes |-> Free]
  /\ exchange = [x \in Exchanges |-> Free]
  /\ exchangeBox = [b \in ExchangeBoxes |-> Free]
  /\ generation = Free
  /\ history = [x \in Exchanges |-> NoHistory]

\* What a caller may pass for a component; one that is not selected is not read.
Offers(wanted, values) == IF wanted THEN values \cup {Absent, Malformed} ELSE {Absent}

KeyStep ==
  \E k \in Keys :
    \/ \E p \in Providers, b \in KeyBoxes : KeyNew(k, p, b)
    \/ KeyFree(k)
    \/ \E selection \in Selections :
         \E private \in Offers(WantsPrivate(selection), RawSecrets),
            public \in Offers(WantsPublic(selection), RawPublics) :
           KeyImport(k, selection, private, public)
    \/ \E public \in RawPublics \cup {Absent, Malformed} : KeySetParams(k, public)
    \/ \E source \in Keys, selection \in Selections, b \in KeyBoxes :
          KeyDuplicate(source, k, selection, b)
    \/ \E b \in KeyBoxes, secret \in RawSecrets : KeyGen(k, b, secret)

GenerationStep ==
  \/ \E p \in Providers, selection \in Selections : GenInit(p, selection)
  \/ GenCleanup

ExchangeStep ==
  \E x \in Exchanges :
    \/ \E p \in Providers, b \in ExchangeBoxes : ExchangeNew(x, p, b)
    \/ ExchangeFree(x)
    \/ \E source \in Exchanges, b \in ExchangeBoxes : ExchangeDuplicate(source, x, b)
    \/ \E k \in Keys : InitExchange(x, k) \/ ExchangeSetPeer(x, k)

Next == KeyStep \/ GenerationStep \/ ExchangeStep

Spec == Init /\ [][Next]_vars
-----------------------------------------------------------------------------
Histories == [privateFrom : Providers \cup {Free}, peerFrom : Providers \cup {Free},
              peer : Publics \cup {Absent}]

TypeOK ==
  /\ key \in [Keys -> Wrapper(KeyBoxes) \cup {Free}]
  /\ keyBox \in [KeyBoxes -> Key \cup {Free}]
  /\ exchange \in [Exchanges -> Wrapper(ExchangeBoxes) \cup {Free}]
  /\ exchangeBox \in [ExchangeBoxes -> Exchange \cup {Free}]
  /\ generation \in GenContext \cup {Free}
  /\ history \in [Exchanges -> Histories]

\* Each live Rust box belongs to exactly one wrapper, no wrapper points at a
\* freed box and no box is freed twice, after any sequence of creations,
\* duplications, generations and frees in which any wrapper may fail to be
\* allocated after its box was: no leak, double free or dangling pointer across
\* the language boundary.
OwnedOnce(wrappers, w, boxes, heap) ==
  /\ \A i \in wrappers : w[i] # Free => heap[w[i].inner] # Free
  /\ \A i, j \in wrappers : w[i] # Free /\ w[j] # Free /\ w[i].inner = w[j].inner => i = j
  /\ \A b \in boxes : heap[b] # Broken
  /\ \A b \in boxes : heap[b] # Free => \E i \in wrappers : w[i] # Free /\ w[i].inner = b

BoxesOwnedOnce ==
  /\ OwnedOnce(Keys, key, KeyBoxes, keyBox)
  /\ OwnedOnce(Exchanges, exchange, ExchangeBoxes, exchangeBox)

\* A key that reports a component as present validates for it: whatever
\* imports, partial duplications, set_params and generations led to the key, a
\* public key that stands beside a private key is the one derived from it.
PresentComponentsValidate ==
  \A k \in Keys, selection \in Selections :
    key[k] # Free /\ KeyHas(k, selection) => KeyValidate(k, selection)

\* What export or get_params reports of a key is accepted by import under the
\* same selection, and the imported key matches in every reported component.
ReportedKeysAreAccepted ==
  \A k \in Keys, selection \in Selections :
    key[k] # Free /\ ExportAccepts(k, selection) =>
      LET e == Exported(k, selection)
          copy == Import(NewKey, e.private, e.public)
          reported == {c \in KEYPAIR : e[c] # Absent}
      IN  /\ ImportParamsAccepted(selection, e.private, e.public)
          /\ KeyMatch(k, copy, reported)
          /\ GetParamsAccepts(k, "private" \in reported, "public" \in reported)
          /\ e.public # Absent => SetEncodedPublic(KeyOf(k), e.public) = KeyOf(k)

Imported(k) ==
  \E selection \in Selections, private \in RawSecrets \cup {Absent, Malformed},
     public \in RawPublics \cup {Absent, Malformed} : KeyImport(k, selection, private, public)

Completed(k) == KeyOf(k).public = Absent /\ KeyOf(k)'.private = KeyOf(k).private

ReplacedOnlyByImport ==
  \A k \in Keys : key[k] # Free /\ key'[k] = key[k] /\ KeyOf(k)' # KeyOf(k) =>
    /\ Completed(k) \/ Imported(k)
    /\ (\E public \in RawPublics \cup {Absent, Malformed} : KeySetParams(k, public)) => Completed(k)

\* Only an import replaces what a key already holds: duplication, generation
\* and exchanges leave it alone, and a step of set_params, also on a key that
\* holds nothing but a public key, can at most add a missing public key.
OnlyImportReplaces == [][ReplacedOnlyByImport]_vars

\* The peer in force is the one accepted last since the exchange was last
\* initialised, and there is none if none was: a later peer replaces an
\* earlier one (X-M1) and re-initialisation clears it (X-M4), whatever failed
\* attempts, frees and duplications come between.
PeerIsLastAccepted ==
  \A x \in Exchanges : exchange[x] # Free =>
    /\ ExchangeOf(x).peer = history[x].peer
    /\ ExchangeOf(x).peer # Absent => ExchangeOf(x).private # Absent

\* No exchange uses key material that came from another provider instance.
ProvidersKeptApart ==
  \A x \in Exchanges : exchange[x] # Free =>
    history[x].privateFrom \in {Free, exchange[x].provider}
      /\ history[x].peerFrom \in {Free, exchange[x].provider}

\* Two exchanges whose last accepted peers are each other's public keys derive
\* one and the same secret, whichever routes keys and peers came by.
ExchangesAgree ==
  \A x, y \in Exchanges :
    /\ exchange[x] # Free /\ ExchangeOf(x).private # Absent
    /\ exchange[y] # Free /\ ExchangeOf(y).private # Absent
    /\ history[x].peer = PublicOf(ExchangeOf(y).private)
    /\ history[y].peer = PublicOf(ExchangeOf(x).private)
    => ExchangeDerive(ExchangeOf(x)) # Absent
         /\ ExchangeDerive(ExchangeOf(x)) = ExchangeDerive(ExchangeOf(y))

\* A derivation that fails leaves the caller's buffer alone; one that writes
\* it has met a peer set since the exchange was initialised, and reports the
\* length of what it wrote.
DeriveIsAllOrNothing ==
  \A x \in Exchanges, buffer \in Buffers : exchange[x] # Free =>
    LET r == Derive(x, buffer, Free)
    IN  /\ ~r.ok => r.secret = Free
        /\ r.secret # Free => buffer = "full" /\ history[x].peer # Absent
        /\ r.length = "zero" <=> buffer = "full" /\ r.secret = Free
=============================================================================
