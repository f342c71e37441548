----------------------------- MODULE RawContract ----------------------------
(***************************************************************************)
(* provider_x301_contract.c: the contract program of the raw X301 provider *)
(* run against RawKeys.  A check of the program is a script of the calls   *)
(* that libcrypto's EVP layer (external, modelled from its use) makes into *)
(* the provider, each with the results the program accepts.  The main      *)
(* thread runs the checks in the program's order; the workers of           *)
(* parallel_derives_share_keys_safely run between its spawn and its join.  *)
(* A result that is not accepted fails the program, which then stops: the  *)
(* cleanup of a failed run is not modelled.                                *)
(***************************************************************************)
EXTENDS RawKeys, Sequences, SequencesExt, Integers

CONSTANTS
  Workers,            \* names of the worker threads and of their contexts
  Host, Peer,         \* the provider of the host context, and of another one
  Unset,              \* no failpoint, no parameter
  SECRET_A, SECRET_B, PUBLIC_A, PUBLIC_B, SHARED_AA, SHARED_AB,
  TEST_RAND_SEED, TEST_RAND_PUBLIC,
  SMALL_ORDER_U,      \* the small-order coordinates, as a sequence
  FIELD_MODULUS, FIELD_TOP,   \* the modulus, and 2 to the field's bits
  AliasMasks,         \* what the unused high bits can add to an encoding
  Vectors,            \* the adversarial corpus: [secret, public, output]
  Modes,              \* X301_PROVIDER_FAILPOINT_MODE
  ITERATIONS          \* derivations of each worker

VARIABLES
  mode,       \* the failpoint mode of the run; "active" has the hooks compiled in
  section,    \* the check the main thread is at
  todo,       \* the calls each thread still has to make
  verdict,    \* "running", "failed" or "passed"
  failpoint,  \* the environment: [kind, site], or Unset
  rand        \* the test RAND provider: calls, the calls noted, poisoned

program == <<mode, section, todo, verdict, failpoint, rand>>
Threads == {"main"} \cup Workers
ALL == KEYPAIR \cup ALL_PARAMETERS

-----------------------------------------------------------------------------
\* The results a call may have.
Success == {TRUE}
Refused == {FALSE}
Length == {[ok |-> TRUE, secret |-> Free, length |-> "full"]}
Output(secret) == {[ok |-> TRUE, secret |-> secret, length |-> "full"]}
Untouched == {[ok |-> FALSE, secret |-> Free, length |-> "zero"]}
TooShort == {[ok |-> FALSE, secret |-> Free, length |-> "full"]}

Call(op, accepts) == [op |-> op, accepts |-> accepts]
KeyCall(op, k, accepts) == [op |-> op, key |-> k, accepts |-> accepts]
ContextCall(op, x, accepts) == [op |-> op, exchange |-> x, accepts |-> accepts]

\* Calls on keys.
New(k, provider, accepts) ==
  [op |-> "key_new", key |-> k, provider |-> provider, accepts |-> accepts]
FromData(k, private, public, accepts) ==
  [op |-> "key_import", key |-> k, private |-> private, public |-> public, accepts |-> accepts]
FreeKey(k) == KeyCall("key_free", k, Success)
SetPublic(k, public, accepts) ==
  [op |-> "key_set_encoded_public", key |-> k, public |-> public, accepts |-> accepts]
Dup(source, k, accepts) ==
  [op |-> "key_duplicate", source |-> source, key |-> k, accepts |-> accepts]
Eq(k, other, accepts) == [op |-> "key_match", key |-> k, other |-> other, accepts |-> accepts]
Raw(k, component, value) ==
  [op |-> "key_export", key |-> k, component |-> component, accepts |-> {value}]
Check(k, selection, accepts) ==
  [op |-> "key_validate", key |-> k, selection |-> selection, accepts |-> accepts]

\* Calls on exchanges.  EVP_PKEY_derive_set_peer checks the peer first.
DeriveInit(x, k) ==
  <<ContextCall("exchange_new", x, Success),
    [op |-> "exchange_init", exchange |-> x, key |-> k, accepts |-> Success]>>
Reinit(x, k) == <<ContextCall("exchange_free", x, Success)>> \o DeriveInit(x, k)
SetPeerCall(x, k, accepts) ==
  [op |-> "exchange_set_peer", exchange |-> x, key |-> k, accepts |-> accepts]
DeriveSetPeer(x, k) == <<Check(k, {"public"}, Success), SetPeerCall(x, k, Success)>>
DeriveCall(x, buffer, accepts) ==
  [op |-> "exchange_derive", exchange |-> x, buffer |-> buffer, accepts |-> accepts]
DupContext(source, x, accepts) ==
  [op |-> "exchange_duplicate", source |-> source, exchange |-> x, accepts |-> accepts]
FreeContext(x) == <<ContextCall("exchange_free", x, Success)>>

\* Calls that are not the provider's.
Setenv(kind, site) ==
  <<[op |-> "setenv", point |-> [kind |-> kind, site |-> site], accepts |-> Success]>>
Unsetenv == <<[op |-> "setenv", point |-> Unset, accepts |-> Success]>>
NoteRandCalls == <<Call("rand_note", Success)>>
RandCallsSince(n) == <<Call("rand_since", {n})>>

-----------------------------------------------------------------------------
\* The program's helpers.
raw_private(k, secret) == <<New(k, Host, Success), FromData(k, secret, Absent, Success)>>
raw_public_of(k, provider, public) ==
  <<New(k, provider, Success), FromData(k, Absent, public, Success)>>
raw_public(k, public) == raw_public_of(k, Host, public)
keypair_fromdata(k, secret, public) ==
  <<New(k, Host, Success), FromData(k, secret, public, Success)>>

\* An import that fails frees the key that was made for it.
RawRefused(k, private, public) ==
  <<New(k, Host, Success), FromData(k, private, public, Refused), FreeKey(k)>>

\* Of the second key only the length is asked for.
raw_roundtrip(private, public, secret, encoding) ==
  <<Raw(private, "private", secret), Raw(private, "public", encoding),
    [Raw(public, "public", encoding) EXCEPT !.accepts = Publics]>>

derive_initialized(x, secret) ==
  <<DeriveCall(x, "null", Length), DeriveCall(x, "full", Output(secret))>>

derive_exact(x, private, peer, secret) ==
  DeriveInit(x, private) \o DeriveSetPeer(x, peer) \o derive_initialized(x, secret)
    \o FreeContext(x)

KeyGenCalls(k, accepts) ==
  <<Call("gen_init", Success), KeyCall("key_generate", k, accepts), Call("gen_cleanup", Success)>>
keygen(k) == KeyGenCalls(k, Success)
keygen_fails(k) == KeyGenCalls(k, Refused)

\* The program's own reduction of an encoding: mask, then subtract once.
canonicalize_public_oracle(e) ==
  LET masked == e % FIELD_TOP
  IN  IF masked >= FIELD_MODULUS THEN masked - FIELD_MODULUS ELSE masked
public_encoding_is_canonical(e) == e < FIELD_TOP /\ e < FIELD_MODULUS

-----------------------------------------------------------------------------
\* The checks.
invalid_lengths_rejected ==
  FlattenSeq([i \in 1 .. 3 |-> RawRefused("temporary", Malformed, Absent)
                                 \o RawRefused("temporary", Absent, Malformed)])

\* EVP exports the peer to the host's provider before it checks and sets it.
public_only_cross_libctx_export ==
  raw_public_of("peer", Peer, PUBLIC_B)
    \o <<Raw("peer", "keypair", [private |-> Absent, public |-> PUBLIC_B])>>
    \o DeriveInit("context", "private_a")
    \o <<New("exported", Host, Success), [op |-> "key_transfer", source |-> "peer",
                                          key |-> "exported", accepts |-> Success]>>
    \o DeriveSetPeer("context", "exported") \o derive_initialized("context", SHARED_AB)
    \o FreeContext("context") \o <<FreeKey("exported"), FreeKey("peer")>>

peer_replacement_and_repeated_derive ==
  DeriveInit("context", "private_a") \o DeriveSetPeer("context", "public_a")
    \o DeriveSetPeer("context", "public_b") \o derive_initialized("context", SHARED_AB)
    \o derive_initialized("context", SHARED_AB) \o FreeContext("context")

duplicated_context_is_independent ==
  DeriveInit("context", "private_a") \o DeriveSetPeer("context", "public_b")
    \o derive_initialized("context", SHARED_AB) \o derive_initialized("context", SHARED_AB)
    \o <<DupContext("context", "second", Success)>>
    \o derive_initialized("second", SHARED_AB) \o derive_initialized("context", SHARED_AB)
    \o FreeContext("second") \o FreeContext("context")

\* EVP_PKEY_derive_init on a context in use replaces its exchange.
reinitialization_clears_peer ==
  DeriveInit("context", "private_a") \o DeriveSetPeer("context", "public_a")
    \o derive_initialized("context", SHARED_AA)
    \o Reinit("context", "private_a") \o <<DeriveCall("context", "full", Untouched)>>
    \o DeriveSetPeer("context", "public_b") \o derive_initialized("context", SHARED_AB)
    \o DeriveInit("second", "private_b") \o <<DeriveCall("second", "full", Untouched)>>
    \o DeriveSetPeer("second", "public_a") \o derive_initialized("second", SHARED_AB)
    \o FreeContext("second") \o FreeContext("context")

no_peer_and_short_output_are_atomic ==
  DeriveInit("context", "private_a") \o <<DeriveCall("context", "full", Untouched)>>
    \o DeriveSetPeer("context", "public_b") \o <<DeriveCall("context", "short", TooShort)>>
    \o FreeContext("context")

small_order_derive_rejects_atomically(private, peer, queried) ==
  DeriveInit("context", private) \o DeriveSetPeer("context", peer)
    \o (IF queried THEN <<DeriveCall("context", "null", Length)>> ELSE <<>>)
    \o <<DeriveCall("context", "full", Untouched)>> \o FreeContext("context")

RejectsBothWays(private, peer) ==
  small_order_derive_rejects_atomically(private, peer, FALSE)
    \o small_order_derive_rejects_atomically(private, peer, TRUE)

all_small_order_peers_rejected ==
  FlattenSeq([i \in DOMAIN SMALL_ORDER_U |->
    raw_public("peer", SMALL_ORDER_U[i]) \o RejectsBothWays("private_a", "peer")
      \o RejectsBothWays("private_b", "peer") \o <<FreeKey("peer")>>])

\* A derivation from an alias and one from its canonical form agree.
AliasDerivesAs(alias, canonical, secret) ==
  raw_public("alias", alias) \o raw_public("canonical", canonical)
    \o <<Eq("alias", "canonical", Success)>>
    \o derive_exact("context", "private_a", "alias", secret)
    \o derive_exact("context", "private_a", "canonical", secret)
    \o <<FreeKey("alias"), FreeKey("canonical")>>

AliasIsRejected(alias, canonical) ==
  raw_public("alias", alias) \o <<Raw("alias", "public", canonical)>>
    \o small_order_derive_rejects_atomically("private_a", "alias", TRUE) \o <<FreeKey("alias")>>

SharedWithA(u) == (CHOOSE v \in Vectors : v.secret = SECRET_A /\ v.public = u).output

alias_inputs_canonicalize_before_keymgmt_and_derive ==
  FlattenSeq([i \in DOMAIN AliasMasks |->
      raw_public("alias", PUBLIC_B + AliasMasks[i])
        \o <<Raw("alias", "public", PUBLIC_B), Eq("alias", "public_b", Success)>>
        \o derive_exact("context", "private_a", "alias", SHARED_AB)
        \o (IF i > 1 THEN <<>> ELSE
            <<Dup("alias", "second", Success), Raw("second", "public", PUBLIC_B),
              SetPublic("second", PUBLIC_B + AliasMasks[i], Success)>>)
        \o <<FreeKey("alias")>>])
    \o keypair_fromdata("keypair", SECRET_A, PUBLIC_A + Last(AliasMasks))
    \o <<Eq("keypair", "public_a", Success), Raw("keypair", "public", PUBLIC_A)>>
    \o AliasIsRejected(FIELD_MODULUS, 0) \o AliasIsRejected(FIELD_MODULUS + 1, 1)
    \o AliasDerivesAs(FIELD_MODULUS + 2, 2, SharedWithA(2))
    \o AliasDerivesAs(FIELD_TOP - 1, canonicalize_public_oracle(FIELD_TOP - 1),
                      SharedWithA(canonicalize_public_oracle(FIELD_TOP - 1)))
    \o <<FreeKey("keypair"), FreeKey("second")>>

\* One vector of adversarial_corpus_matches.  An output of Absent is all zero,
\* and a public key of Absent asks for the public key of the secret.
adversarial_corpus_matches(v) ==
  CASE v.secret = Malformed -> RawRefused("temporary", v.secret, Absent)
    [] v.public = Absent ->
         raw_private("temporary", v.secret) \o <<Raw("temporary", "public", v.output)>>
           \o <<FreeKey("temporary")>>
    [] OTHER ->
         raw_private("temporary", v.secret)
           \o (CASE v.public = Malformed -> RawRefused("peer", Absent, v.public)
                 [] v.public # Malformed /\ v.output = Absent ->
                      raw_public("peer", v.public) \o RejectsBothWays("temporary", "peer")
                        \o <<FreeKey("peer")>>
                 [] OTHER -> raw_public("peer", v.public)
                        \o derive_exact("context", "temporary", "peer", v.output)
                        \o <<FreeKey("peer")>>)
           \o <<FreeKey("temporary")>>

\* One case of structured_raw_and_derive_sweep: an encoding of the right length
\* is imported, and derived from as a peer; it succeeds with some output that
\* is not zero, or leaves the buffer alone.  (The program would also let pass
\* an import that refuses; the provider's refuses no encoding of that length.)
swept_peer_is_atomic(e) ==
  raw_public("peer", e) \o DeriveInit("context", "private_a") \o DeriveSetPeer("context", "peer")
    \o <<DeriveCall("context", "null", Length),
         DeriveCall("context", "full", Untouched \cup UNION {Output(s) : s \in Publics \ {0}})>>
    \o FreeContext("context") \o <<FreeKey("peer")>>

swept_private(s) ==
  IF s = Malformed THEN RawRefused("temporary", s, Absent) \o RawRefused("temporary", Absent, s)
  ELSE raw_private("temporary", s) \o <<Raw("temporary", "private", s), FreeKey("temporary")>>

Sweep == [private : RawSecrets \cup {Malformed}, public : RawPublics]
structured_raw_and_derive_sweep(case) ==
  swept_private(case.private) \o swept_peer_is_atomic(case.public)

-----------------------------------------------------------------------------
\* The failpoint checks: an operation fails at the site and works again when
\* the environment is cleared.
raw_private_refused_at(site) ==
  IF site = "key_new" THEN <<New("temporary", Host, Refused)>>
  ELSE RawRefused("temporary", SECRET_A, Absent)

allocation_failpoints_are_atomic ==
  Setenv("alloc", "key_new") \o raw_private_refused_at("key_new") \o Unsetenv
    \o raw_private("temporary", SECRET_A) \o <<FreeKey("temporary")>>
    \o Setenv("alloc", "key_generate") \o keygen_fails("temporary") \o Unsetenv
    \o keygen("temporary") \o <<FreeKey("temporary")>>
    \o Setenv("alloc", "key_duplicate") \o <<Dup("private_a", "temporary", Refused)>> \o Unsetenv
    \o <<Dup("private_a", "temporary", Success), FreeKey("temporary")>>
    \o Setenv("alloc", "exchange_new") \o <<ContextCall("exchange_new", "context", Refused)>>
    \o Unsetenv \o derive_exact("context", "private_a", "public_b", SHARED_AB)
    \o DeriveInit("context", "private_a") \o DeriveSetPeer("context", "public_b")
    \o Setenv("alloc", "exchange_duplicate") \o <<DupContext("context", "second", Refused)>>
    \o Unsetenv \o <<DupContext("context", "second", Success)>>
    \o derive_initialized("second", SHARED_AB) \o FreeContext("second") \o FreeContext("context")

\* The calls before the failpoint is set, the ones that fail, and the cleanup.
one_panic_failpoint_fails_closed(site) ==
  LET inited == DeriveInit("context", "private_a")
      ready == inited \o DeriveSetPeer("context", "public_b")
      Around(before, failing, after) ==
        Unsetenv \o before \o Setenv("panic", site) \o failing \o Unsetenv \o after
  IN  CASE site \in {"key_new", "key_import"} -> Around(<<>>, raw_private_refused_at(site), <<>>)
        [] site = "key_set_encoded_public" ->
             Around(<<>>, <<SetPublic("public_b", PUBLIC_B, Refused)>>, <<>>)
        [] site = "key_generate" -> Around(<<>>, keygen_fails("temporary"), <<>>)
        [] site = "key_duplicate" -> Around(<<>>, <<Dup("private_a", "temporary", Refused)>>, <<>>)
        [] site = "key_validate" -> Around(<<>>, <<Check("private_a", KEYPAIR, Refused)>>, <<>>)
        [] site = "exchange_new" -> Around(<<>>, <<ContextCall("exchange_new", "context", Refused)>>, <<>>)
        [] site = "exchange_init" ->
             Around(<<>>, <<inited[1], [inited[2] EXCEPT !.accepts = Refused]>> \o FreeContext("context"), <<>>)
        [] site = "exchange_set_peer" ->
             Around(inited, <<Check("public_b", {"public"}, Success),
                              SetPeerCall("context", "public_b", Refused)>>, FreeContext("context"))
        [] site = "exchange_duplicate" ->
             Around(ready, <<DupContext("context", "second", Refused)>>, FreeContext("context"))
        [] site = "exchange_derive" ->
             Around(ready, <<DeriveCall("context", "full", Untouched)>>, FreeContext("context"))

PanicSites ==
  <<"key_new", "key_import", "key_set_encoded_public", "key_generate", "key_duplicate",
    "key_validate", "exchange_new", "exchange_duplicate", "exchange_init",
    "exchange_set_peer", "exchange_derive">>

panic_failpoints_are_atomic ==
  FlattenSeq([i \in DOMAIN PanicSites |-> one_panic_failpoint_fails_closed(PanicSites[i])
    \o derive_exact("context", "private_a", "public_b", SHARED_AB)])

FailpointSection ==
  [unset |-> <<>>,
   active |-> allocation_failpoints_are_atomic \o panic_failpoints_are_atomic,
   inert |-> Setenv("alloc", "exchange_derive") \o Setenv("panic", "exchange_derive")
               \o derive_exact("context", "private_a", "public_b", SHARED_AB) \o Unsetenv]

-----------------------------------------------------------------------------
\* The program.  The two T7 checks of key generation under a policy, in contexts
\* of their own, are in PolicyContract; the one on thread exit is left out.
parallel_derive_worker(w) ==
  DeriveInit(w, "private_a") \o DeriveSetPeer(w, "public_b")
    \o FlattenSeq([i \in 1 .. ITERATIONS |-> derive_initialized(w, SHARED_AB)]) \o FreeContext(w)

Setup ==
  raw_private("private_a", SECRET_A) \o raw_private("private_b", SECRET_B)
    \o raw_public("public_a", PUBLIC_A) \o raw_public("public_b", PUBLIC_B)
    \o raw_roundtrip("private_a", "public_a", SECRET_A, PUBLIC_A)
    \o raw_roundtrip("private_b", "public_b", SECRET_B, PUBLIC_B)

BeforeCorpus ==
  invalid_lengths_rejected
    \o <<Eq("private_a", "public_a", Success), Eq("private_a", "private_b", Refused)>>
    \o public_only_cross_libctx_export
    \o alias_inputs_canonicalize_before_keymgmt_and_derive
    \o NoteRandCalls \o keygen("generated") \o RandCallsSince(1)
    \o raw_roundtrip("generated", "generated", TEST_RAND_SEED, TEST_RAND_PUBLIC)
    \o <<Call("compare", {public_encoding_is_canonical(TEST_RAND_PUBLIC)}), FreeKey("generated"),
         Call("rand_poison", Success)>> \o NoteRandCalls
    \o derive_exact("context", "private_a", "public_b", SHARED_AB)
    \o derive_exact("context", "private_a", "public_b", SHARED_AB) \o RandCallsSince(0)
    \o derive_exact("context", "private_b", "public_a", SHARED_AB)
    \o all_small_order_peers_rejected \o no_peer_and_short_output_are_atomic
    \o peer_replacement_and_repeated_derive \o duplicated_context_is_independent
    \o reinitialization_clears_peer \o <<Call("spawn", Success), Call("join", Success)>>

AfterSweep ==
  NoteRandCalls \o keygen_fails("generated") \o RandCallsSince(1) \o Unsetenv
    \o <<FreeKey("public_b"), FreeKey("public_a"), FreeKey("private_b"), FreeKey("private_a")>>

Sections == <<"setup", "failpoints", "checks", "corpus", "sweep", "last">>

\* The corpus and the sweep are loops over independent cases: a behaviour runs
\* one case of each, and all behaviours together run them all.
Cases(s) == CASE s = "corpus" -> Vectors [] s = "sweep" -> Sweep [] OTHER -> {Unset}

Script(s, case) ==
  CASE s = "setup" -> Setup
    [] s = "failpoints" -> FailpointSection[mode]
    [] s = "checks" -> BeforeCorpus
    [] s = "corpus" -> adversarial_corpus_matches(case)
    [] s = "sweep" -> structured_raw_and_derive_sweep(case)
    [] s = "last" -> AfterSweep

-----------------------------------------------------------------------------
\* A site that is named in the environment makes the Rust call fail, by a
\* panic that is caught at the boundary or by a refused allocation.
Injected(call) == mode = "active" /\ failpoint # Unset /\ call.op = failpoint.site

\* The draw of a generation: a panic comes before it, an allocation after it.
Draws(call) == call.op = "key_generate" /\ ~(Injected(call) /\ failpoint.kind = "panic")

\* test_rand_generate.
Drawn == IF rand.poisoned THEN Absent ELSE TEST_RAND_SEED

Outcome(call) ==
  CASE call.op = "exchange_derive" ->
         IF Injected(call) THEN CHOOSE r \in Untouched : TRUE
         ELSE Derive(call.exchange, call.buffer, Free)
    [] call.op = "key_export" /\ call.component = "keypair" -> Exported(call.key, KEYPAIR)
    [] call.op = "key_export" /\ call.component # "keypair" ->
         Exported(call.key, {call.component})[call.component]
    [] call.op = "rand_since" -> rand.calls - rand.noted
    [] call.op = "join" -> \A w \in Workers : verdict[w] = "running"
    [] Injected(call) -> FALSE
    [] call.op = "key_import" ->
         /\ ImportParamsAccepted(ALL, call.private, call.public)
         /\ ImportAccepts(call.private, call.public)
    [] call.op = "key_set_encoded_public" ->
         SetEncodedPublic(KeyOf(call.key), call.public).public = ReadOptionalPublic(call.public)
    [] call.op = "key_match" -> KeyMatch(call.key, KeyOf(call.other), {"public", "domain"})
    [] call.op = "key_validate" -> KeyValidate(call.key, call.selection)
    [] call.op = "key_generate" -> Drawn # Absent /\ GenerateAccepts(Drawn)
    [] call.op = "exchange_init" ->
         SameProvider(call.exchange, call.key) /\ KeyOf(call.key).private # Absent
    [] call.op = "exchange_set_peer" ->
         /\ SameProvider(call.exchange, call.key)
         /\ PeerAccepted(ExchangeOf(call.exchange), KeyOf(call.key))
    [] OTHER -> TRUE

\* What a call that succeeds does to the provider's objects.  Each wrapper has
\* a box of its own name; no allocation fails but at a failpoint.
Effect(call) ==
  \/ /\ call.op = "key_new"
     /\ KeyNew(call.key, call.provider, call.key) /\ key'[call.key] # Free
  \/ call.op = "key_free" /\ KeyFree(call.key)
  \/ call.op = "key_import" /\ KeyImport(call.key, ALL, call.private, call.public)
  \/ /\ call.op = "key_transfer"
     /\ LET e == Exported(call.source, ALL) IN KeyImport(call.key, ALL, e.private, e.public)
  \/ call.op = "key_set_encoded_public" /\ KeySetParams(call.key, call.public)
  \/ /\ call.op = "key_duplicate"
     /\ KeyDuplicate(call.source, call.key, ALL, call.key) /\ key'[call.key] # Free
  \/ call.op = "gen_init" /\ GenInit(Host, ALL)
  \/ /\ call.op = "key_generate"
     /\ KeyGen(call.key, call.key, Drawn) /\ key'[call.key] # Free
  \/ call.op = "gen_cleanup" /\ GenCleanup
  \/ /\ call.op = "exchange_new"
     /\ ExchangeNew(call.exchange, Host, call.exchange) /\ exchange'[call.exchange] # Free
  \/ call.op = "exchange_free" /\ ExchangeFree(call.exchange)
  \/ /\ call.op = "exchange_duplicate"
     /\ ExchangeDuplicate(call.source, call.exchange, call.exchange)
     /\ exchange'[call.exchange] # Free
  \/ call.op = "exchange_init" /\ InitExchange(call.exchange, call.key)
  \/ call.op = "exchange_set_peer" /\ ExchangeSetPeer(call.exchange, call.key)

Queries ==
  {"key_export", "key_match", "key_validate", "exchange_derive", "setenv", "rand_note",
   "rand_since", "rand_poison", "compare", "spawn", "join"}

\* One call of one thread.
Step(t) ==
  LET call == Head(todo[t])
      outcome == Outcome(call)
  IN  /\ todo[t] # <<>> /\ verdict[t] = "running"
      /\ call.op = "join" => \A w \in Workers : todo[w] = <<>> \/ verdict[w] = "failed"
      /\ IF call.op \in Queries \/ outcome = FALSE THEN UNCHANGED vars ELSE Effect(call)
      /\ verdict' = IF outcome \in call.accepts THEN verdict ELSE [verdict EXCEPT ![t] = "failed"]
      /\ failpoint' = IF call.op = "setenv" THEN call.point ELSE failpoint
      /\ rand' = [calls |-> IF Draws(call) THEN rand.calls + 1 ELSE rand.calls,
                  noted |-> IF call.op = "rand_note" THEN rand.calls ELSE rand.noted,
                  poisoned |-> rand.poisoned \/ call.op = "rand_poison"]
      /\ todo' = [u \in Threads |-> CASE u = t -> Tail(todo[u])
                                      [] u # t /\ call.op = "spawn" -> parallel_derive_worker(u)
                                      [] OTHER -> todo[u]]
      /\ UNCHANGED <<mode, section>>

\* The main thread starts its next check.
Begin ==
  /\ todo["main"] = <<>> /\ verdict["main"] = "running" /\ section < Len(Sections)
  /\ section' = section + 1
  /\ \E case \in Cases(Sections[section']) :
       todo' = [todo EXCEPT !["main"] = Script(Sections[section'], case)]
  /\ UNCHANGED <<vars, mode, verdict, failpoint, rand>>

Return ==
  /\ section = Len(Sections) /\ todo["main"] = <<>> /\ verdict["main"] = "running"
  /\ verdict' = [verdict EXCEPT !["main"] = "passed"]
  /\ UNCHANGED <<vars, mode, section, todo, failpoint, rand>>

ContractInit ==
  /\ Init
  /\ mode \in Modes
  /\ section = 0
  /\ todo = [t \in Threads |-> <<>>]
  /\ verdict = [t \in Threads |-> "running"]
  /\ failpoint = Unset
  /\ rand = [calls |-> 0, noted |-> 0, poisoned |-> FALSE]

ContractNext == Begin \/ Return \/ \E t \in Threads : Step(t)

\* The threads run to their end: nothing they call waits for anything but the
\* join, which waits for the workers.
ContractSpec ==
  /\ ContractInit /\ [][ContractNext]_<<vars, program>>
  /\ WF_<<vars, program>>(Begin) /\ WF_<<vars, program>>(Return)
  /\ \A t \in Threads : WF_<<vars, program>>(Step(t))
-----------------------------------------------------------------------------
\* The provider passes its contract: in every failpoint mode, for every vector
\* and every swept encoding, and however the workers' derivations interleave,
\* each call has a result the program accepts and the program returns, with
\* every key, exchange and Rust box it caused to exist freed again.
ContractHolds ==
  <>(/\ verdict["main"] = "passed"
     /\ \A k \in Keys : key[k] = Free /\ keyBox[k] = Free
     /\ \A x \in Exchanges : exchange[x] = Free /\ exchangeBox[x] = Free
     /\ generation = Free)
=============================================================================
