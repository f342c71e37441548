--------------------------- MODULE HybridContract ---------------------------
(***************************************************************************)
(* provider_x301_hybrid_contract.c: the contract program of the hybrid KEM *)
(* run against HybridKem.  A check is a script of requests that EVP        *)
(* (external, modelled from its use) passes to the provider, each with the *)
(* outcome the program demands; an encapsulation or decapsulation runs     *)
(* through the steps of HybridKem before its outcome is looked at.  What   *)
(* the program keeps between requests (its share, ciphertext and secrets)  *)
(* is the variable kept.  The checks that load providers of their own are  *)
(* in PolicyContract; the one on thread exit is left out.                  *)
(***************************************************************************)
EXTENDS HybridKem, Sequences, SequencesExt

CONSTANTS
  Host,                       \* the provider instance
  Unset,                      \* no case
  FIELD_MODULUS, FIELD_TOP,   \* the modulus, and 2 to the field's bits
  AliasMasks,                 \* what the unused high bits can add to an encoding
  OurPair, OtherPair          \* the program's ML-KEM key, and that of a flipped share

VARIABLES
  section,    \* the check the program is at
  todo,       \* the requests still to make
  running,    \* whether the first of them is under way
  kept,       \* the program's share, ciphertext, original and last secrets
  countdown,  \* of the counting allocator: "off", "armed" or "spent"
  verdict     \* "running", "failed" or "passed"

program == <<section, todo, running, kept, countdown, verdict>>

-----------------------------------------------------------------------------
\* Shares and ciphertexts are what the program kept, with either half changed:
\* a bit of the ML-KEM half flipped, the X301 half replaced, or its unused
\* high bits set.  Malformed stands for every wrong length; Local is what the
\* program's first context has just made.
Valid == [flip |-> FALSE, x301 |-> Absent, mask |-> 0, local |-> FALSE]
Masked(mask) == [Valid EXCEPT !.mask = mask]
Replaced(e) == [Valid EXCEPT !.x301 = e]
Flipped == [Valid EXCEPT !.flip = TRUE]
Local == [Valid EXCEPT !.local = TRUE]

X301Half(change, e) == (IF change.x301 = Absent THEN e ELSE change.x301) + change.mask

Share(change) ==
  IF change = Malformed THEN Malformed
  ELSE <<IF change.flip THEN OtherPair ELSE kept.share[1], X301Half(change, kept.share[2])>>

\* A ciphertext nobody made: the nonces of real ones stay below MaxNonce.
Ciphertext(change) ==
  LET made == IF change.local THEN output["context"].ciphertext ELSE kept.ciphertext
  IN  <<IF change.flip THEN MlEncapsulated(made[1][1], MaxNonce) ELSE made[1],
        X301Half(change, made[2])>>

\* The program's own reduction of the X301 half: mask, then subtract once.
canonicalize_x301_oracle(e) ==
  LET masked == e % FIELD_TOP
  IN  IF masked >= FIELD_MODULUS THEN masked - FIELD_MODULUS ELSE masked
x301_encoding_is_canonical(e) == e < FIELD_TOP /\ e < FIELD_MODULUS

Canonical(share) == <<share[1], canonicalize_x301_oracle(share[2])>>

-----------------------------------------------------------------------------
\* The requests.
Request(op) == [op |-> op, demand |-> "success"]
OnKey(op, k, demand) == [op |-> op, key |-> k, demand |-> demand]
OnContext(op, c, demand) == [op |-> op, context |-> c, demand |-> demand]

GenerateWith(k, keypair) ==
  <<[op |-> "gen_init", keypair |-> keypair, demand |-> "success"], OnKey("gen", k, "success"),
    Request("gen_cleanup")>>
generate_hybrid(k) == GenerateWith(k, TRUE)
empty_hybrid(k) == GenerateWith(k, FALSE)

FreeKey(k) == <<OnKey("key_free", k, "success")>>
FreeContext(c) == <<OnContext("kem_free", c, "success")>>

SetPublic(k, change, demand) ==
  <<[op |-> "set_params", key |-> k, change |-> change, demand |-> demand, yes |-> <<>>, no |-> <<>>]>>
export_hybrid_public(k, change) ==
  <<[op |-> "export", key |-> k, change |-> change, demand |-> "success"]>>
NothingToExport(k) == <<OnKey("has", k, "refused")>>
KeepShare(k) == <<OnKey("keep_share", k, "success")>>
IsCanonical(what) == <<[op |-> "canonical", what |-> what, demand |-> "success"]>>

import_hybrid_public(k, change) == empty_hybrid(k) \o SetPublic(k, change, "success")

\* A share that is refused leaves a key that is still empty and can be set.
StillEmpty(k) == NothingToExport(k) \o SetPublic(k, Valid, "success") \o export_hybrid_public(k, Valid)
rejected_public_mutation_leaves_key_empty(change) ==
  empty_hybrid("temporary") \o SetPublic("temporary", change, "refused")
    \o StillEmpty("temporary") \o FreeKey("temporary")

KemInitWith(c, k, operation) ==
  <<OnContext("kem_new", c, "success"),
    [op |-> "kem_init", context |-> c, key |-> k, operation |-> operation, demand |-> "success"]>>
EncapsulateInto(c, demand) == <<OnContext("encapsulate", c, demand)>>
DecapsulateInto(c, change, demand) ==
  <<[op |-> "decapsulate", context |-> c, change |-> change, demand |-> demand]>>
ShortBuffer(c, operation) ==
  <<[op |-> "refuse", context |-> c, operation |-> operation, demand |-> "refused"]>>

encapsulate(k) ==
  KemInitWith("context", k, "encapsulate") \o EncapsulateInto("context", "keep") \o FreeContext("context")
decapsulate(k, change, demand) ==
  KemInitWith("context", k, "decapsulate") \o DecapsulateInto("context", change, demand)
    \o FreeContext("context")
decapsulation_failure_is_atomic(change) ==
  IF change = Malformed
  THEN KemInitWith("context", "private", "decapsulate") \o ShortBuffer("context", "decapsulate")
         \o FreeContext("context")
  ELSE decapsulate("private", change, "refused")

encapsulation_failure_is_atomic(k) ==
  KemInitWith("context", k, "encapsulate") \o EncapsulateInto("context", "refused")
    \o FreeContext("context")

-----------------------------------------------------------------------------
\* The checks.
hybrid_public_lengths_rejected ==
  empty_hybrid("temporary") \o SetPublic("temporary", Malformed, "refused") \o FreeKey("temporary")
    \o empty_hybrid("temporary") \o SetPublic("temporary", Malformed, "refused")
    \o FreeKey("temporary")

hybrid_public_boundary_mutations_are_atomic ==
  rejected_public_mutation_leaves_key_empty(Malformed)
    \o rejected_public_mutation_leaves_key_empty(Malformed)

LowOrder == <<0, 1, FIELD_MODULUS - 1>>
low_order_client_shares_are_rejected ==
  FlattenSeq([i \in 1 .. 3 |->
    import_hybrid_public("temporary", Replaced(LowOrder[i]))
      \o encapsulation_failure_is_atomic("temporary") \o FreeKey("temporary")])

ImportsAs(change, canonical) ==
  import_hybrid_public("temporary", change) \o export_hybrid_public("temporary", canonical)
    \o FreeKey("temporary")

hybrid_aliases_canonicalize_before_storage_and_decapsulation ==
  FlattenSeq([i \in DOMAIN AliasMasks |->
      ImportsAs(Masked(AliasMasks[i]), Valid)
        \o decapsulate("private", Masked(AliasMasks[i]), "original")])
    \o ImportsAs(Replaced(FIELD_MODULUS + 2), Replaced(2))
    \o decapsulate("private", Replaced(FIELD_MODULUS + 2), "whole")
    \o decapsulate("private", Replaced(2), "last")
    \o decapsulation_failure_is_atomic(Replaced(FIELD_MODULUS))

encapsulation_short_buffers_are_atomic ==
  KemInitWith("context", "public", "encapsulate") \o ShortBuffer("context", "encapsulate")
    \o ShortBuffer("context", "encapsulate") \o FreeContext("context")

hybrid_ciphertext_boundary_mutations_are_atomic ==
  decapsulation_failure_is_atomic(Malformed) \o decapsulation_failure_is_atomic(Malformed)

oversized_success_preserves_tail ==
  KemInitWith("context", "public", "encapsulate") \o EncapsulateInto("context", "whole")
    \o KemInitWith("second", "private", "decapsulate") \o DecapsulateInto("second", Local, "local")
    \o FreeContext("second") \o FreeContext("context")

implicit_rejection ==
  decapsulate("private", Flipped, "rejection") \o decapsulate("private", Flipped, "last")

Changes == {Malformed, Flipped} \cup {Replaced(e) : e \in RawPublics}

\* A swept share is accepted, and exported in canonical form, or refused, and
\* then the key is still empty; which, for a changed ML-KEM half, is OpenSSL's.
swept_hybrid_public_is_atomic(change) ==
  empty_hybrid("temporary")
    \o <<[op |-> "set_params", key |-> "temporary", change |-> change, demand |-> "either",
          yes |-> export_hybrid_public("temporary", change), no |-> StillEmpty("temporary")]>>
    \o FreeKey("temporary")

\* A flipped ML-KEM half must give an implicit rejection, a changed X301 half
\* may give a secret or a refusal, a wrong length is refused.
swept_hybrid_ciphertext_is_atomic(change) ==
  IF change = Malformed THEN decapsulation_failure_is_atomic(change)
  ELSE decapsulate("private", change, IF change.flip THEN "x301 half" ELSE "whole or refused")

structured_hybrid_parser_sweep(change) ==
  swept_hybrid_public_is_atomic(change) \o swept_hybrid_ciphertext_is_atomic(change)

full_hybrid_cycle ==
  generate_hybrid("private") \o KeepShare("private")
    \o import_hybrid_public("public", Valid) \o encapsulate("public")
    \o decapsulate("private", Valid, "original") \o FreeKey("public") \o FreeKey("private")

-----------------------------------------------------------------------------
Sections == <<"checks", "sweep", "done", "allocation", "recovery">>
Cases(s) == IF s = "sweep" THEN Changes ELSE {Unset}

Checks ==
  generate_hybrid("private") \o KeepShare("private") \o IsCanonical("share")
    \o hybrid_public_lengths_rejected \o hybrid_public_boundary_mutations_are_atomic
    \o import_hybrid_public("public", Valid)
    \o encapsulate("public") \o decapsulate("private", Valid, "original") \o IsCanonical("ciphertext")
    \o low_order_client_shares_are_rejected
    \o hybrid_aliases_canonicalize_before_storage_and_decapsulation
    \o encapsulation_short_buffers_are_atomic
    \o FlattenSeq([i \in 1 .. 3 |-> decapsulation_failure_is_atomic(Malformed)])
    \o hybrid_ciphertext_boundary_mutations_are_atomic \o oversized_success_preserves_tail
    \o decapsulation_failure_is_atomic(Replaced(0)) \o implicit_rejection

Script(s, case) ==
  CASE s = "checks" -> Checks
    [] s = "sweep" -> structured_hybrid_parser_sweep(case)
    [] s = "done" -> FreeKey("public") \o FreeKey("private")
    [] s \in {"allocation", "recovery"} -> full_hybrid_cycle

Begin ==
  /\ todo = <<>> /\ verdict = "running" /\ section < Len(Sections)
  /\ section' = section + 1
  /\ \E case \in Cases(Sections[section']) : todo' = Script(Sections[section'], case)
  /\ countdown' = IF Sections[section'] = "allocation" THEN "armed" ELSE "off"
  /\ UNCHANGED <<vars, running, kept, verdict>>

Return ==
  /\ todo = <<>> /\ verdict = "running" /\ section = Len(Sections)
  /\ verdict' = "passed"
  /\ UNCHANGED <<vars, section, todo, running, kept, countdown>>

-----------------------------------------------------------------------------
\* The counting allocator makes one allocation of the armed cycle fail, or none.
Allocated == IF countdown = "armed" THEN BOOLEAN ELSE {TRUE}

Releases(r) == r.op \in {"gen_cleanup", "kem_free", "key_free"}

\* The done label: what is left of the requests are the frees.
AfterFailure(rest) == SelectSeq(rest, Releases)

\* After a request: the program goes on, or, when an allocation failed, leaves
\* the cycle through its done label, or stops.
Proceed(met, failedAllocation) ==
  /\ countdown' = IF failedAllocation THEN "spent" ELSE countdown
  /\ todo' = IF met THEN Tail(todo) ELSE AfterFailure(Tail(todo))
  /\ verdict' = IF met \/ countdown' = "spent" THEN verdict ELSE "failed"

At1(op) == verdict = "running" /\ ~running /\ todo # <<>> /\ todo[1].op = op
Unkept == UNCHANGED <<section, running, kept>>

\* EVP_PKEY_keygen_init or EVP_PKEY_paramgen_init, EVP_PKEY_generate and the
\* free of their context.
RequestGenInit ==
  /\ At1("gen_init")
  /\ \E allocated \in Allocated :
       /\ IF allocated THEN GenInit(Host, todo[1].keypair) ELSE UNCHANGED vars
       /\ Proceed(generation' # Free, ~allocated)
  /\ Unkept

RequestGen ==
  /\ At1("gen")
  /\ \E secret \in RawSecrets, mlkem, x301 \in Allocated :
       /\ Gen(todo[1].key, OurPair, secret, mlkem, x301)
       /\ Proceed(key'[todo[1].key] # Free, ~(mlkem /\ x301))
  /\ Unkept

RequestGenCleanup ==
  /\ At1("gen_cleanup")
  /\ IF generation # Free THEN GenCleanup ELSE UNCHANGED vars
  /\ Proceed(TRUE, FALSE)
  /\ Unkept

RequestKeyFree ==
  /\ At1("key_free")
  /\ IF key[todo[1].key] # Free THEN KeyFree(todo[1].key) ELSE UNCHANGED vars
  /\ Proceed(TRUE, FALSE)
  /\ Unkept

\* EVP_PKEY_set1_encoded_public_key.  Whether a flipped ML-KEM half is a key is
\* OpenSSL's to say.
RequestSetParams ==
  /\ At1("set_params")
  /\ LET r == todo[1]
         share == Share(r.change)
         flipped == r.change # Malformed /\ r.change.flip
     IN  \E mlkem \in Allocated \cup (IF flipped THEN BOOLEAN ELSE {}), x301, encoded \in Allocated :
           /\ IF SetParamsAccepts(r.key, share) THEN SetParams(r.key, share, mlkem, x301, encoded)
              ELSE UNCHANGED vars
           /\ LET accepted == key'[r.key].state = "public"
              IN  IF r.demand = "either"
                  THEN /\ todo' = (IF accepted THEN r.yes ELSE r.no) \o Tail(todo)
                       /\ UNCHANGED <<countdown, verdict>>
                  ELSE Proceed(accepted = (r.demand = "success"), ~(mlkem /\ x301 /\ encoded))
  /\ Unkept

\* EVP_PKEY_get1_encoded_public_key, of a key that has one and of one that has not.
RequestExport ==
  /\ At1("export")
  /\ LET k == todo[1].key
     IN  Proceed(KeyHas(k, FALSE, TRUE) /\ EncodedPublic(k) = Canonical(Share(todo[1].change)), FALSE)
  /\ UNCHANGED vars /\ Unkept

RequestHas ==
  /\ At1("has")
  /\ Proceed(~KeyHas(todo[1].key, FALSE, TRUE), FALSE)
  /\ UNCHANGED vars /\ Unkept

RequestKeepShare ==
  /\ At1("keep_share")
  /\ \E allocated \in Allocated : Proceed(KeyHas(todo[1].key, FALSE, TRUE) /\ allocated, ~allocated)
  /\ kept' = [kept EXCEPT !.share = EncodedPublic(todo[1].key)]
  /\ UNCHANGED <<vars, section, running>>

RequestCanonical ==
  /\ At1("canonical")
  /\ Proceed(x301_encoding_is_canonical(kept[todo[1].what][2]), FALSE)
  /\ UNCHANGED vars /\ Unkept

\* EVP_PKEY_CTX_new_from_pkey, the two initialisations and EVP_PKEY_CTX_free.
RequestKemNew ==
  /\ At1("kem_new")
  /\ \E allocated \in Allocated :
       /\ IF allocated THEN KemNew(todo[1].context, Host) ELSE UNCHANGED vars
       /\ Proceed(allocated, ~allocated)
  /\ Unkept

RequestKemInit ==
  /\ At1("kem_init")
  /\ LET r == todo[1]
     IN  IF InitAccepts(r.context, r.key, r.operation)
         THEN KemInit(r.context, r.key, r.operation) /\ Proceed(TRUE, FALSE)
         ELSE UNCHANGED vars /\ Proceed(FALSE, FALSE)
  /\ Unkept

RequestKemFree ==
  /\ At1("kem_free")
  /\ IF context[todo[1].context] # Free THEN KemFree(todo[1].context) ELSE UNCHANGED vars
  /\ Proceed(TRUE, FALSE)
  /\ Unkept

\* A buffer or a ciphertext of the wrong length.
RequestRefuse ==
  /\ At1("refuse")
  /\ Refuse(todo[1].context, todo[1].operation, FALSE)
  /\ Proceed(output'[todo[1].context] = [NoOutput EXCEPT !.result = "failed"], FALSE)
  /\ Unkept

-----------------------------------------------------------------------------
\* EVP_PKEY_encapsulate and EVP_PKEY_decapsulate.
CallBegins ==
  /\ \/ At1("encapsulate") /\ EncapsulateStart(todo[1].context)
     \/ At1("decapsulate") /\ DecapsulateStart(todo[1].context, Ciphertext(todo[1].change))
  /\ running' = TRUE
  /\ UNCHANGED <<section, todo, kept, countdown, verdict>>

CallRuns ==
  /\ running
  /\ LET c == todo[1].context
     IN  \/ /\ \/ MlkemEncapsulates(c) \/ MlkemDecapsulates(c)
               \/ \E secret \in RawSecrets : EncapsulateObjects(c, secret, TRUE, TRUE)
               \/ DecapsulateObjects(c, TRUE, TRUE)
               \/ EncapsulateAgree(c) \/ DecapsulateAgree(c)
               \/ EncapsulateCopies(c) \/ DecapsulateCopies(c)
               \/ Cleanup(c)
            /\ UNCHANGED countdown
         \/ /\ countdown = "armed"
            /\ \/ MlkemFails(c)
               \/ \E secret \in RawSecrets, x301 \in BOOLEAN : EncapsulateObjects(c, secret, x301, ~x301)
               \/ \E x301 \in BOOLEAN : DecapsulateObjects(c, x301, ~x301)
            /\ countdown' = "spent"
  /\ UNCHANGED <<section, todo, running, kept, verdict>>

Whole(secret) == \A i \in 1 .. 2 : secret[i] # Zero

\* The outcomes demanded: a secret that is kept, the sender's, the first
\* context's, the one before, one that differs from the sender's in the ML-KEM
\* half alone, one with the sender's X301 half, any with both halves; or none,
\* with the buffers as they were.
Meets(demand, o) ==
  LET refused == o = [NoOutput EXCEPT !.result = "failed"]
      meets(success) == o.result = "ok" /\ success
  IN  CASE demand = "keep" -> meets(Whole(o.secret))
        [] demand = "whole" -> meets(Whole(o.secret))
        [] demand = "original" -> meets(o.secret = kept.original)
        [] demand = "local" -> meets(o.secret = output["context"].secret)
        [] demand = "last" -> meets(o.secret = kept.last)
        [] demand = "rejection" ->
             meets(o.secret[1] # kept.original[1] /\ o.secret[2] = kept.original[2])
        [] demand = "x301 half" -> meets(o.secret[2] = kept.original[2])
        [] demand = "whole or refused" -> refused \/ meets(Whole(o.secret))
        [] demand = "refused" -> refused

CallReturns ==
  /\ running
  /\ LET r == todo[1]
         o == output[r.context]
     IN  /\ call[r.context].pc = "idle"
         /\ Proceed(Meets(r.demand, o), FALSE)
         /\ kept' = IF r.demand = "keep" /\ o.result = "ok"
                    THEN [kept EXCEPT !.ciphertext = o.ciphertext, !.original = o.secret, !.last = o.secret]
                    ELSE [kept EXCEPT !.last = o.secret]
  /\ running' = FALSE
  /\ UNCHANGED <<vars, section>>

-----------------------------------------------------------------------------
ContractInit ==
  /\ Init
  /\ section = 0 /\ todo = <<>> /\ running = FALSE
  /\ kept = [share |-> Unset, ciphertext |-> Unset, original |-> Unset, last |-> Unset]
  /\ countdown = "off" /\ verdict = "running"

ContractNext ==
  \/ Begin \/ Return
  \/ RequestGenInit \/ RequestGen \/ RequestGenCleanup \/ RequestKeyFree
  \/ RequestSetParams \/ RequestExport \/ RequestHas \/ RequestKeepShare \/ RequestCanonical
  \/ RequestKemNew \/ RequestKemInit \/ RequestKemFree \/ RequestRefuse
  \/ CallBegins \/ CallRuns \/ CallReturns

\* The program is one thread.
ContractSpec == ContractInit /\ [][ContractNext]_<<vars, program>> /\ WF_<<vars, program>>(ContractNext)

-----------------------------------------------------------------------------
\* Whatever secrets are drawn, whatever OpenSSL makes of a changed ML-KEM key,
\* and whichever allocation fails, every outcome is the one the contract
\* program demands, the cycle after the failed one works, and in the end
\* nothing the provider allocated is left.
HybridContractHolds ==
  <>(/\ verdict = "passed"
     /\ \A k \in Keys : key[k] = Free
     /\ \A c \in Contexts : context[c] = Free
     /\ generation = Free
     /\ \A kind \in DOMAIN live : live[kind] = 0)
=============================================================================
