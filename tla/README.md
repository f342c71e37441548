# A verification of the X301 OpenSSL provider

This directory models the X301 provider in TLA+, checks the models with TLC on
small instances and proves some of the results with TLAPS for every instance.
Source files are named relative to the root of the repository. Abbreviations
used below: *shim* is `provider/crates/x301-provider/c/provider_shim.c`,
*hybrid* is `hybrid_kem.c` beside it, *ffi* is
`provider/crates/x301-provider/src/x301_ffi.rs`, and *the curve crate* is
`crates/ed301-eddsa/src/`.

`PROJECT.json` maps every definition to the lines it stands for, lists the
runs, the hazards they are aimed at, and for each property at least one mutated
definition (an operator named `<Definition>_<Fault>` that stands just before
the definition it is a faulty version of) that must violate it.

## 1. The system

OpenSSL loads the provider as a shared object. Requests come in through
dispatch tables in C; key material lives in Rust objects behind a table of
`extern "C"` functions; the arithmetic is a Rust crate of its own.

```
 application threads
        |  EVP
     OpenSSL core ----------------------------------.
        |  OSSL_provider_init, dispatch tables      | fetches in the
        v                                           | child context
 provider_shim.c  <---- hybrid_kem.c ---------------+--> ML-KEM-1024
   load, DRBG, KEYMGMT, KEYEXCH   KEMs, hybrid keys |
        |        \                    |             '--> CTR-DRBG
        | RUST_API '---- x301_fill_random (callback from Rust)
        v
 x301_ffi.rs     boxes: X301Key, X301Exchange
        v
 curve crate     x301.rs (ladder)   edwards.rs (fixed base)   field_5x64.rs
```

### Components, their state and operations

| component | state | operations | what makes it correct |
|---|---|---|---|
| load and teardown (shim 1299-1390, 1116-1130) | the provider structure, its child library context, the DRBG lock | `x301_shim_init`, `x301_provider_teardown`, `x301_provider_get_capabilities` | a failed load leaves nothing; what is freed first does not depend on what is still there; the TLS group is announced only when the application offers ML-KEM-1024 |
| core version check (shim 1216-1269) | a cursor and an accumulator | `x301_parse_decimal_component`, `x301_core_version_is_supported` | the verdict is the version rule, for any string, without reading past it and without wrap-around |
| DRBG (shim 664-746) | `provider->drbg` under a read/write lock | `x301_drbg_get`, `x301_drbg_new`, `x301_fill_random`, `x301_drbg_free` | one instance per load, never leaked, never used half-made, no output given out twice; no caller waits for ever |
| raw keys and exchanges (shim 171-1000) | C wrappers (provider, box) | the KEYMGMT and KEYEXCH callbacks | boxes are owned once; components match; an exchange uses the last peer accepted and only objects of its own provider |
| Rust FFI (ffi) | `X301Key`, `X301Exchange` | import, set public, generate, duplicate, has, validate, match, exchange init/peer/derive | a refusal changes nothing; stored public keys are canonical |
| hybrid keys and KEM (hybrid) | `HYBRID_KEY`, `HYBRID_GEN_CTX`, `HYBRID_KEM_CTX`, the locals of a running call | generation, key shares, init, encapsulate, decapsulate | both halves or none; sides agree; everything freed once |
| X301 function (`x301.rs`) | ladder state, pending swap | clamp, decode, ladder, finalize | the u coordinate of the scalar multiple, on curve and twist |
| fixed base (`edwards.rs`) | digits, accumulator | recode, select, add, map to u | the same public key the ladder gives |
| field (`field_5x64.rs`, `field.rs`) | limbs | add, sub, mul, square, invert, decode | values modulo p; no carry lost, each lazy type below its bound |
| fetching (shim 1021-1113, 1167-1184, hybrid 340-370) | the application's providers and default properties, the child context that follows them | `x301_provider_query_operation`, the fetches of CTR-DRBG and ML-KEM-1024 | generation follows the policy of the first use and does not flap; the announcement and the generation agree |
| signatures (`signature.rs`, `scalar.rs`, `edwards.rs`) | the digits of two scalars, a table of odd multiples, an accumulator | verify; sign and reduce are not modelled (section 7) | the verdict is the cofactored equation, malformed and torsion inputs refused |
| contract programs (`provider-tests/x301/provider_x301_contract.c`, `_hybrid_contract.c`, `_nested_properties.c`) | their keys, contexts, expected bytes | the checks | each check passes on the models, for any interleaving and any single failure it injects |
| secret handling (`secret.rs`, `secret_taint.rs`) | - | wipe on drop, taint | not a property of values (section 7) |
| scripts, oracles, evidence, fuzzing, packaging, vendored crates | - | - | outside the running system (section 7) |

### How they interact, and what is hard about it

* Threads share the provider structure. The DRBG is created lazily by
  double-checked locking, its pointer leaves the lock, and generation runs
  outside it, relying on the lock inside the DRBG.
* Rust calls back into C for randomness (`key_generate` takes
  `x301_fill_random`), so a key generation holds a Rust frame over all of the
  DRBG's steps and failures.
* Nearly every operation can fail half-way: loading has four places, DRBG
  creation five, an encapsulation ten. Each has its own release code.
* Objects are long-lived and the caller orders the operations: a key can be
  imported into twice, an exchange initialised again after its peer was set, a
  KEM context turned from one key and operation to another.
* The same key has several encodings, the same scalar several secrets, and the
  same public key is computed in two ways.
* Several instances of the provider may be loaded at a time and OpenSSL may
  hand objects of one to another.
* What serves a request depends on providers and properties that the application
  may change at any time, while the DRBG and announcements it led to persist.

Timeouts, retries, messages, persistence and recovery do not occur in this code.

## 2. Modules

| module | stands for | extends |
|---|---|---|
| `ProviderLoad` | load, capability answer, teardown | |
| `ProviderDrbg` | the threads in `x301_fill_random`, the lock, the DRBG | `ProviderLoad` |
| `DrbgCell` | abstract specification of the random source | |
| `AtomicKem` | abstract specification of a key encapsulation mechanism | |
| `CoreVersion` | the version check | |
| `X301Ffi` | the operations of ffi as functions of a key or exchange | |
| `RawKeys` | KEYMGMT and KEYEXCH over a heap of boxes | `X301Ffi` |
| `HybridKem` | hybrid keys and the KEM, call by call | `X301Ffi` |
| `Field301` | values the field operations return | |
| `Edwards` | extended coordinates, table, recoding, map to u | `Field301` |
| `X301` | clamp, ladder, `shared_secret`, `public_from_secret` | `Edwards` |
| `LadderLoop`, `FixedBaseLoop` | the two loops as state machines | `X301` |
| `FieldLimbs` | the limb arithmetic of the three field types, word width a parameter | |
| `Ed301Verify` | `verify` one loop iteration at a time | `Edwards` |
| `ProviderPolicy` | which implementation serves a request | |
| `RawContract`, `HybridContract`, `PolicyContract` | the contract programs as clients | `RawKeys`, `HybridKem`, `ProviderPolicy` |
| `MontgomeryReference` | textbook affine arithmetic, the yardstick | `Field301` |
| `*Proofs` | theorems | the module and `TLAPS` |
| `MC*` | instances for TLC | the module |

**ProviderLoad / ProviderDrbg.** `phase` is how far a load or a teardown has
come, `live` the resources that exist. Every acquisition and every release in
the code is an action; the failing branches release exactly what the code
releases. `fallback` says whether a fetch in the child context may still
activate OpenSSL's fallback provider; loading and unloading the null provider
clears it. A thread is a program counter that walks through `x301_drbg_get`
and `EVP_RAND_generate`; `local` is the C variable `drbg` and lives on after the
unlock. `status`, `locking`, `busy`, `block` and `delivered` are the external
`EVP_RAND` contexts: a generation reads the block counter at its start and
advances it at its end, so two generations overlap unless the context has
locking on. The core does not tear a provider down while a call is inside it;
this is OpenSSL's reference counting and is the guard of `Teardown`.

**CoreVersion.** One action per test of the code, one iteration of the digit
loop a step. A character is a digit, a dot, the terminating NUL or something
else. `Overflows` is the code's test, and the sum is taken modulo
`UINT_MAX + 1`.

**X301Ffi / RawKeys.** The C wrapper and the Rust box are separate objects,
because between the two an allocation can fail: a wrapper that is not allocated
frees the box on the heap, and freeing a box that is not there breaks it
(`Broken`). Selections are sets of
`OSSL_KEYMGMT_SELECT_*` bits, with one more element for the bits the provider
does not support. A parameter is absent, malformed, or a value. An operation
that is refused has no effect, hence no action; what the query operations
answer is an operator and is judged by the properties. `history` records, for
the properties only, where the private key and the peer of an exchange came
from. The curve is a parameter: the runs instantiate it with `X301` on a
real small curve, the proofs use only `CurveAssumption` (an encoding has one
canonical form; public keys are computed in that form).

**HybridKem.** A KEM call is a sequence of steps (`mlkem`, `objects`, `agree`,
`copy`, `cleanup`), so that what happens to keys meanwhile interleaves with it at
every library call. A two-part buffer is a pair. ML-KEM is external: an
encapsulation is numbered, decapsulating with another key gives another
secret, and both may fail. `live` counts the objects allocated and not yet
freed: a generation or an import counts the halves it made, and its failure path,
a function of its own in the model as in the code, takes them off again. OpenSSL keeps a reference to a key while a context is initialised with
it, which is the guard of `KeyFree`.

**Field301 to FixedBaseLoop.** Values instead of limbs, an integer for a byte
string, and the exact formulas of the code: the scaled doubling with
`A24_DENOMINATOR`, the top bit replaced by a doubling, the swap deferred
to the next round, the two bottom bits replaced by doublings; the odd digits,
four doublings, the even digits. The base point table is computed by the code's
own construction.

**FieldLimbs.** A register has a type and five words; a `u64` wraps at
`RADIX` (2^64) and a `u128` at its square. The carries, borrows, the wide product
row by row, the two folds and the conditional subtractions are the
code's. `residue` is the integer arithmetic that the words are compared with and
nothing reads it; it multiplies in pieces below `RADIX` so that TLC's integers
suffice (`STEP_RADIX` is only the size of a piece, and `Reference` proves that the
result is the product modulo p).

**Ed301Verify.** Decoding, the subgroup test by a fixed signed schedule,
both recodings and the joint loop. The challenge is an input of the call instead of
a hash of the others: the equation does not depend on where it comes from.

**ProviderPolicy.** A provider offers algorithms; a fetch takes any of the
best matches of a query merged with the default properties. The child context
sees the application's providers except x301 itself. `served`, `admitted` and
`advertised` remember what the properties compare.

**RawContract, HybridContract, PolicyContract.** A check is a sequence of calls
each with the results the C program accepts; EVP between program and
provider is external and reduced to the provider calls it makes. `RawContract` has
the main thread and the workers of `parallel_derives_share_keys_safely`, the
failpoints of ffi (whose twelve sites, allocations and panics, are modelled as
refusals with their release code) and the test RAND provider. `HybridContract`
runs an encapsulation through the steps of `HybridKem`; the allocation sweep is
one nondeterministic failure per cycle. In `PolicyContract` the checks of three
programs run one after the other, and then an application without a script.
A vector stands for its class: the corpus has every pair of a secret and an
encoding of the small curve.

## 3. Runs

| run | instance | distinct states | shows |
|---|---|---|---|
| `drbg` | 3 threads, 3 DRBG contexts, 2 loads, 4 key generations, hybrid build | 278 092 | safety of load, DRBG and teardown, that they implement `DrbgCell`, that calls return and a started teardown completes |
| `core_version` | every string of up to 5 of the characters 0, 3, 4, 5, dot, other; `UINT_MAX` = 33; both builds | 78 944 | verdict, bounds of reading, exact accumulation |
| `core_version_documented` | the versions 3.4 and 3.5 | (violated) | section 6 |
| `ladder` | F_59: every clamped scalar, every coordinate and alias | 3 550 | the ladder against affine arithmetic |
| `fixed_base` | F_8171: 84 secrets on both sides of every carry | 924 | recoding, selection, accumulation, agreement with the ladder |
| `raw_keys` | 2 providers, 2 keys, 2 exchanges, 5 selections | 69 860 | ownership, matching components, peers, separation of providers, agreement |
| `hybrid` | 2 providers, 2 keys, 1 context, 2 ML-KEM pairs, 2 X301 secrets, an alias and a low-order point | 251 051 | whole keys, whole outputs, agreement, nothing leaked or freed twice, no secret left; that it implements `AtomicKem` |
| `raw_contract` | F_59, 2 workers with 2 derivations each, three failpoint modes | 19 480 | the contract program passes and frees everything |
| `hybrid_contract` | F_59, 2 ML-KEM pairs, up to 8 encapsulations | 62 099 | the hybrid contract program passes and frees everything |
| `policy` | 6 providers, the queries of the programs | 123 871 | nine checks pass in any order; then any requests |
| `field_limbs` | 6-bit words, 26-bit p, ten boundary operands, 2 operations | 7 467 | limbs against integers modulo p |
| `ed301_verify` | F_8171, order 4 * 2083, width 6; 138 calls | 7 900 | recodings and verdict |

Why the bounds are enough for the cases aimed at:

* *DRBG.* A creation race needs two threads; the third can arrive while one of
  them writes, and one thread can call again. Three contexts let a creation fail and be tried again within
  two loads, and two loads show what a teardown leaves to the next one. `MaxCalls`
  and `MaxLoads` only bound the counters.
* *Version.* 33 plays the role of `UINT_MAX`: two digits reach it, 33 is exactly
  representable, 34 and above overflow, and the rule "minor below 5" has its
  edge within one digit. Five characters hold two two-digit components and a
  separator.
* *Ladder.* The curve has order 4q and its twist order 4q', as X301's has; the
  twist's annihilator is a clamped scalar, so the all-zero result occurs, and
  p leaves room for aliases above it.
* *Fixed base.* Two rows and four digits are the fewest with an odd and an even
  digit in each row; the top digit receives a carry.
* *Raw keys.* Two secrets; a public key, its alias and a low-order point; the
  component selections, that of the parameters alone, which generates an empty key,
  and one with an unsupported bit. Two wrappers per
  kind are enough for ownership conflicts, since every operation names at
  most two. Secrets that clamp alike occur in `ladder`, the remaining
  selections in `raw_contract`.
* *Hybrid.* Two pairs and two X301 keys are needed for a ciphertext to reach the
  wrong key; the low-order share for an X301 half that fails after ML-KEM
  succeeded. One context is enough: calls keep what they compute in locals and
  share nothing but keys, which the steps of a call already interleave with;
  `hybrid_contract` has a second one.
* *Contract programs.* 2 derivations (`ITERATIONS`) let a worker reuse its context
  while the other is initialised; 8 (`MaxNonce`) does not stop the
  program, which would then not pass.
* *Limbs.* 5 limbs as in the code. The toy p = 2^26 - 2^8 + 3 has the shape of
  2^301 - 2^99 + 947, `LimbAssumption` states the room the code's comments claim,
  and the operands are 0, 1, a full word, the multiples of p up to 4p and
  what stands next to them. Two operations put the result of one, at its bound,
  into another. Values of 28 bits are what TLC's integers allow.
* *Verification.* Width 6 on 13-bit scalars gives recodings of up to three
  nonzero digits, with borrows into the position above the scalar; the calls
  have genuine signatures, each kind of mismatch, all four torsion
  components of the key, and four malformed encodings.

`CHECK_DEADLOCK FALSE` is used where the model stops: the bounded number of
loads and calls, and the computations that return.

Keys, contexts, boxes, threads and providers are interchangeable, which is what
the symmetry sets of `raw_keys` and `hybrid` say; neither checks liveness.

### Fairness

`FairSpec` assumes weak fairness of each thread's progress through
`x301_fill_random` (a running thread inside the provider keeps running
when the lock it waits for is available; failure outcomes of the lock calls are not
assumed) and of the remaining steps of a teardown already begun, which is
straight-line code. Nothing makes an application start a call or unload the
provider. With weak fairness a thread could be overtaken for ever at the
write lock if others kept taking it; that they do not is not an assumption: each
generation takes the lock a bounded number of times, and generations are
bounded in the instance.

The contract programs are assumed to go on: weak fairness of each thread of
`RawContract`, of the one thread of `HybridContract`, and of the scripted part
of `PolicyContract`. Nothing they call waits, except the join for the workers. The
application that follows in `PolicyContract` owes nothing.

## 4. Properties

The comments above the definitions say what each means; in short:

* `AllOrNothing`, `DrbgInsideChild`: resources nest in time.
* `NoLeakedDrbg`, `GeneratesOnPublished`, `NoRepeatedDraw`: the three things the
  double-checked creation could get wrong. `ImplementsCell` says that all of
  it together behaves like one cell that is filled once per load and hands out
  each block once.
* `HybridOnlyFromApplication`: the announcement follows the application's
  configuration and never a fallback.
* `NeverReadsPastEnd`, `NoWrapAround`, `VerdictIsTheVersionRule`: the last
  compares the character loop with a rule stated on the whole string.
* `BoxesOwnedOnce`: every box has one wrapper, every wrapper a box, and no box is
  freed twice.
* `PresentComponentsValidate`, `ReportedKeysAreAccepted`, `OnlyImportReplaces`:
  whichever operations led to a key, what it says it has is consistent, can be
  taken back by import, and was replaced only by import; set_params only completes
  a key.
* `PeerIsLastAccepted`, `ProvidersKeptApart`, `DeriveIsAllOrNothing`,
  `ExchangesAgree`: exchanges.
* `LadderInvariant` relates both points of the ladder state to multiples of the
  input, swap pending or not; `ResultIsTheMultiple` is about the result.
* `DigitsFitTable`, `AccumulatesMultiple`, `AgreesWithLadder`: the fixed-base
  loop, in the same manner.
* `KeysAreWhole`, `ContextFitsKey`, `OutputIsWhole`, `SecretsAgree`,
  `NothingIsLeft`: the hybrid. `ImplementsKem` says that two mechanisms, the
  steps of a call and a failure at each of them look to the caller like one
  mechanism whose calls are atomic: a call gives ciphertext and secret of both
  halves in one step, or fails; the secret is what every private key that goes
  with the share opens the ciphertext to; a key that a context is bound to never
  changes again.
* The type invariants of the components are proved (section 5), not run.
* `ContractHolds`, `HybridContractHolds`, `PolicyContractHolds`: every check gets a
  result its program accepts, the program comes to its end and, in the first
  two, nothing it caused to be allocated is left.
* `DrbgFollowsPolicy`: keys only where a DRBG was admitted, and no flapping
  afterwards. `CapabilityMatchesKeygen`: an announcement can be relied on
  after later changes. That the group is there stands while providers only
  come and requirements only go, that it is not there while the reverse
  holds; preferences never matter. Any other change may alter the answer, and the
  next one is asked for.
* `LimbsFollowTheField`: bounds and residues of all three types at once, since
  each is needed for the others.
* `RecodingIsNonAdjacent`, `RecodingKeepsScalar`, `VerdictIsTheEquation`: the form
  of the digits, what they spell, and the whole of `verify` against the cofactored
  equation on the affine points (`Accepts`). The MC module assumes, and TLC evaluates,
  that `Accepts` agrees with arithmetic on the multiples the inputs were made from
  (`AcceptedByArithmetic`).

## 5. Proofs

| module | proved | from |
|---|---|---|
| `ProviderDrbgProofs` | `TypeOK`, `AllOrNothing`, `NoLeakedDrbg`, `GeneratesOnPublished`, `DrbgInsideChild`, `NoRepeatedDraw`, `HybridOnlyFromApplication`, and `ImplementsCell`, the refinement of `DrbgCell` | `LoadAssumption`, `DrbgAssumption`: any sets of threads and contexts, any bounds, either build |
| `RawKeysProofs` | `TypeOK`, `BoxesOwnedOnce`, `PresentComponentsValidate`, `ReportedKeysAreAccepted`, `PeerIsLastAccepted`, `ProvidersKeptApart`, `OnlyImportReplaces`, `DeriveIsAllOrNothing`, `ExchangesAgree` | `CurveAssumption`, `HeapAssumption`, and for the last one `AgreementAssumption`: any curve, any numbers of objects |
| `HybridKemProofs` | `TypeOK`, `KeysAreWhole`, `ContextFitsKey`, `OutputIsWhole`, `SecretsAgree`, `NothingIsLeft`, and `ImplementsKem`, the refinement of `AtomicKem` | `CurveAssumption`, `AgreementAssumption`, `HybridAssumption`, and for the last one `KemAssumption`: any numbers of providers, keys, contexts, ML-KEM pairs and encapsulations |
| `CurveProofs` | the points are a commutative group (`PointsAreAGroup`); `Add`, `AddAffine`, `Double`, negation and the identity test compute in it (`FormulasFollowTheLaw`); the base point table holds the multiples it stands for | `FieldAssumption`, `PrimeAssumption`, `EdwardsAssumption`: any prime that fills its bit length, any square a, any nonsquare d, any base point on the curve |
| `ScalarLoopsProofs` | `DigitsFitTable`, `DigitsSpellSecret`, the range of `clamp_scalar`, `AccumulatesMultiple` and that the result is the multiple by the clamped secret; relative to `RoundLaws` and `CurveLaws`, `LadderInvariant` and `ResultIsTheMultiple`; relative to these, `MapLaws` and `NoneAnnihilates`, `AgreesWithLadder` | the same, `RadixAssumption`, `LadderAssumption`: any field size whose scalars leave the top digit room, any secret and encoding |
| `ProviderPolicyProofs` | of `CoreVersion`: `TypeOK`, `NeverReadsPastEnd`, `NoWrapAround`, `VerdictIsTheVersionRule`; of `ProviderPolicy`: `DrbgFollowsPolicy`, `CapabilityMatchesKeygen` | `VersionAssumption`: any strings, any `UINT_MAX` from 9 up; any sequence of requests (the set of providers is the modelled one) |
| `FieldLimbsProofs` | `LimbsFollowTheField` | `RadixAssumption`, `LimbAssumption`: any radix and p = `TOP_RADIX * RADIX^4 - FOLD_RADIX * RADIX + FOLD_SUBTRAHEND` with the room the reducers claim (2^64 and 2^301 - 2^99 + 947 among them), any multipliers, programs of any length |
| `Ed301VerifyProofs` | `RecodingIsNonAdjacent`, `RecodingKeepsScalar`, `VerdictIsTheEquation` | the same as `CurveProofs`, `WnafAssumption`, `RecodingAssumption`: any width from 2 to 8, any schedule that spells the order, any encodings and scalars |

*ProviderDrbg.* None of the properties is inductive alone. The invariant
`IInv` adds to the types: `PhaseInv`, which resources each phase has, and that a
DRBG is published and a call under way only in a loaded provider; `LockInv`, at
which program counters a thread holds the lock, and that a writer excludes
readers; `CtxInv`, that a live context is the published one or that of the
writer creating it; `CallInv`, what a thread's local pointer is at each program
counter; `DrawInv`, that blocks delivered lie below the counter and that at most
one generation is inside a context. `NoLeakedDrbg` needs
`LockInv` for the uniqueness of the creating thread, and `GeneratesOnPublished`
needs `CallInv` because nothing but teardown clears the pointer. One lemma per
action, one step per part of the invariant. The refinement maps publication to
`Fill`, the end of a generation to `Draw`, the first step of teardown to `Close`,
and everything else to a stutter.

*RawKeys.* `KeyInv` says of every key on the heap, not only of the keys
reachable from a wrapper, that its private half has a public key and that the public half is
it; `OwnedOnce` then carries it to the wrappers. `ExchangeInv` is ownership
together with the two history properties, and that an exchange's private key has a
public one. `ExchangesAgree` then follows from `AgreementAssumption`: a shared
secret exists between any two public keys and does not depend on whose
private key computes it. The code's reason is that both are multiples by clamped
scalars of points on the curve outside its small subgroup; that the ladder computes
those multiples is what `LadderReturnsMultiple` below shows and the run `ladder` checks,
and TLC evaluates the assumption on the curve of each instance.

*HybridKem.* `KeyInv` describes a hybrid key in each of its states: an empty key
has neither half; a public or private key both, the private bits in step, the
X301 public half derived from the private. `ContextInv` is what a context was
initialised with, strong enough for any later call: it survives because a key is
filled only while it is empty, an empty key fits no context, and a referenced
key is not freed. `CallInv` has, for each program counter of a call, what its
temporary buffers and objects hold: after the ML-KEM step the secret that belongs
to the key and the ciphertext, before copying the whole of both; and
that the caller's buffers hold either nothing or the result that belongs to the
key and the operation of the context. `SentInv` says the same of what has been
sent. `KeysAreWhole`, `ContextFitsKey`, `OutputIsWhole` and `SecretsAgree` follow
from the conjunction; none of them is inductive. The frame lemmas
`KeyChange`, `ContextChange` and `CallChange` show that a change of one key, context
or call leaves the rest of the invariant alone, and each action has a lemma that
uses one of them. `NothingIsLeft` counts: a second invariant `LiveInv`,
relative to the first, equates each count with the cardinalities of the sets of
holders, and `HoldersChange` and `UsersChange` say by how much these move when
one key or one call does; `MadeThenFreed` is the failure paths of generation
and import. That a count stays a natural number, which is the last
conjunct of `TypeOK`, is a consequence: nothing is freed that was not
allocated. `HybridAssumption` says that the markers (`Free`, `Absent`, `Zero`,
`Untouched`) are no values, and that there are finitely many keys and contexts.

`ImplementsKem` needs nothing further of the state. The mapping shows of a key
its share and its private key, of a context the key and operation it is bound
to, of the buffers what is written; `BoxMoves`, `UseMoves` and `OutcomeMoves` say
which of the three a step can touch, and each action of `HybridKem` is then one
action of `AtomicKem` (generation and `KeyNew` make a key, a successful `SetParams`
fills it, the start of a call begins it, copying out is the encapsulation or
decapsulation, cleaning up after a failure is its failure) or a stutter (every
failure before that, and every step in between). That copying out gives what the
owner opens is the invariant's clause for the program counter `copy`, with
`AgreementAssumption` for the X301 half. `KemAssumption` says that `Absent` is no
share, private key or record.

*Ed301Verify.* The digits say nothing about the ones to come; the rest of the scalar
does: after a nonzero digit it is a multiple of `2^(WNAF_WIDTH - 1)`, and every
halving takes one factor of two, so the invariant carries `Divisible`: what
is left at position n, with a nonzero digit at i, is a multiple of
`2^(WNAF_WIDTH - (n - i))`. `RecodingAssumption` states the powers of two as powers of
two, because the provers know no exponentiation. What the digits spell
(`RecodingKeepsScalar`) needs that the positions do not run out: `Room` bounds what
is left of the scalar by the positions left, so that index and carry stay inside
the array. A digit that is written changes one term of the sum; `DigitsSpellScalar`
then moves that term between the sum and what is left of the scalar.

`VerdictIsTheEquation` compares loops of additions in extended coordinates with one
equation between affine points. `PointInvariant` says what the accumulator stands for:
in the subgroup test, `[n]A` where `n * 2^bit` is what the schedule spells so far
(`Scheduling`), so that at the end n is the order; in the joint loop `[m]B - [n]A` where m and n
are what the digits from the current position up spell (`Summing`, `High`), so that
at the end they are the scalars, by `RecodingKeepsScalar`; between the two, that the key
has passed. Around it stand `DecodeFindsThePoint` (the two roots of x^2 have opposite
parities, so the sign bit leaves one point or none), `OddTableHolds` (the
table holds the odd multiples, normalised together) and `SignedAdditionHolds`, which
needs the digits to be odd and in range: this is where `RecodingIsNonAdjacent` is used. A
refusal is right because it contradicts a conjunct of `Accepts` for the only point
the key can mean. No law of the group is assumed: `CurveProofs` supplies them all.

*Sums of any length.* The library's induction theorems take a predicate as
a parameter, which the installed provers cannot instantiate. Its theorem on well-founded
relations does not: every nonempty set of naturals has a minimum. `SetInduction`
derives induction over a set from it, and with that two things follow for
a recursive function over 0..n: that it exists, and what it has
as its value. Four of the proof modules use it: for the sum of the radix-16 digits,
of the non-adjacent digits and of the subgroup schedule, for the number that a run of decimal characters denotes, and for
the multiples of a point.

*FieldLimbs.* A register `Represents` an element when its words are digits, the
number they spell is below the bound of its type, and that number modulo p is the
element; that all registers do is the invariant, and each operation has a lemma. Below these is the
number that the first n words of a sequence spell, `Sum`. Every loop of the
code is a carry chain, and `CarryChain` says that as long as no column exceeds
`RADIX^2 - RADIX` no `u128` wraps, each word fits and the carries connect neighbouring
columns; `ExactSum` concludes that words and last carry spell the sum of the
columns. From it follow additions, subtractions with their borrow, the rows of a
product, and the square, whose cross products are doubled after the sum. `Split`
separates a product at bit 301 and `Fold` multiplies what is above by
2^99 - 947; `WideReduction` shows that two folds, and
`SmallReduction` that one shift and subtraction, reach the same residue below 2p from any
operands below 4p. Nothing here is an induction of arbitrary length: no number has
more than ten words, which is what `TenSteps` goes through, and the recursive
functions are shown to exist as far as that. Multiplication of variables is
beyond the solvers' reach, so each step where two of them meet is an identity of its own.

*Fixed base.* During the recoding, digits below the index are final (-8 to 7),
the digit at the index may be one more than a nibble, and those above are
nibbles; that the top digit does not overflow needs the clamp. `SpellingInvariant`
adds that the digits spell the clamped secret: the nibbles do by repeated
division, and a carry takes 16 times its weight from one digit to give it once to the next.
`AccumulationInvariant` follows the additions: while the odd digits
are added, at row weights that are a sixteenth of theirs, the accumulator
stands for a sixteenth of what they spell, the four doublings make it the whole, and
the even digits complete it. That a doubling and the addition of a table entry do to the
accumulator what the sum needs is proved in `CurveProofs`.

*CurveProofs.* Nothing is assumed of the curve but its header: p is a prime, a is
a square and d is none. A number below p has an inverse because its multiples below p
are all different (`SetInduction` on the residues); so a product vanishes only with a factor, and
the denominators of the addition law, 1 + e and 1 - e, vanish nowhere on the curve: otherwise d
would be a square. Closure and associativity are identities of polynomials: `SumOf`
states the law without division, each identity is split into pieces that Z3 decides over
the integers, and residues are passed through them (`Names`). Multiples by doubling, as
`PointMultiple` computes them, are those by repeated addition (`ChainsExist`,
`MultipleSteps`), whence `MultiplesAdd`. `Holds(v, q)` says that extended coordinates are
those of the point q in some scaling; the formulas keep it, with no case apart for equal
or opposite operands. `BatchNormalizes` follows the one inversion through the products before
and after each point, and `TableHolds` the construction of the rows: eight doublings from one to the next,
seven additions along each. The table is needed for every secret, so a single
wrong entry would be a public key that differs from the ladder's.

*Ladder.* `LadderReached` says of the registers, put back in order, that they
hold [m]Q and [m + 1]Q where m is the scalar above the current bit, for the
clamped scalar and the reduced coordinate. That those are the ones the encodings mean
(`MeantScalar`, `MeantU`) is arithmetic: clamping keeps the bits between
(`ClampKeepsBits`), and the bits determine the scalar (`BitsDetermineScalar`,
from the top bit down). A round of bit b takes m to 2m + b whether or not the pending
swap and the new one cancel (`Ordered`). What a doubling and a differential addition
compute is `RoundLaws`; that no multiple by four lands on the point above zero is `CurveLaws`
(that the field has inverses is `CurveProofs`'); TLC evaluates both on the curve over F_59 and its twist
(`RoundsFollowTheLaw`, `ResultsFollowTheLaw`: every coordinate, the multiples of a scalar
of six bits, three scalings). At u = 0 there is no law to rely on: there the
registers are `Degenerate`, each of them without an affine point other than
zero, every round keeps that, and the final denominator is zero. `RoutesAgree` joins the two
loops: the same induction over the rounds for the operator `SharedSecret`, the
accumulator of the other loop, and `MapLaws` for the map to u.

*CoreVersion.* `NoWrapAround` rests on the arithmetic fact that
`accumulator > (UINT_MAX - digit) / 10` in integers is the exact negation of
`10 * accumulator + digit <= UINT_MAX`. `VerdictIsTheVersionRule` compares the loop with
a rule about the whole string. Its invariant says where the component under way began,
that what has been read since are digits and the accumulator the number they denote, and, of a
minor, that the major before it ended at a dot; a refusal is right because the
component of a string can end in one place only, and because a number that has once
exceeded `UINT_MAX` does so with every further digit.

*ProviderPolicy.* `PolicyInvariant` adds that the child context has no fallback of
its own, that a warm DRBG was admitted, and that keys were generated from a warm
one. The lemma `ChildPermits` carries an admission by the child to the application:
x301, the one provider the child does not see, offers no DRBG.
`AnnouncementInvariant` says that an announcement that should stand is what would be
announced now. Across a change this rests on two lemmas: a fetch gives something
exactly when some provider fits, whatever is preferred (`FetchGives`), and what
fits grows with the providers and shrinks with the requirements
(`FittingGrows`); the child has no fallback of its own that a first
provider of the application would displace. Within one configuration the nested generation looks with the same query
in the same context.

Only model-checked:

* the liveness properties and the contracts, fairness being out of the prover's
  reach;
* the laws of the ladder (`RoundLaws`, `CurveLaws`), of the map between the two
  curves (`MapLaws`) and that no clamped secret annihilates the base point, a fact about its
  order: TLC evaluates them on a small curve, and the theorems about the
  ladder name them as hypotheses.

## 6. Finding

`docs/X301_DRAFT.md:40-41` says that provider modules "do not impose a minor- or
patch-version runtime check". In a build with `X301_ENABLE_HYBRID_MLKEM1024` the
shim (line 1263) refuses a core of major 3 whose minor is below 5, so the whole
module, raw X301 included, does not load there. The code's rule is deliberate
(ML-KEM arrived in 3.5); the sentence is what needs the exception. The run
`core_version_documented` tries the two minors around the bound and exhibits a core
that reports 3.4 being refused.

Two observations that contradict no statement of the repository:

* The announcement looks for an ML-KEM-1024 key management only. Where the policy
  admits that and no DRBG, the group is announced and its generation fails,
  closed; `CapabilityMatchesKeygen` therefore speaks of a warm DRBG.
* In `child_libctx_survives_teardown_before_worker_exit` of the contract program, a
  thread that cannot be created skips the unloading of the provider; the test
  fails then anyway.

## 7. Not modelled

* `field.rs`, the oracle of the tests; the addition chains of inversion and
  square root, which are modelled by their values; byte packing of limbs.
* Signing: key expansion, SHAKE256 (`signature_hash.rs`), reduction and
  multiplication of scalars (vendored big integers), the constant-time generic
  multiplication and point encoding in `edwards.rs`. The provider does not enable
  the `signature` feature.
* Wiping of secrets in Rust, constant-time selection, valgrind taint: no effect
  on values. In `HybridKem` the cleansing of the temporary secret is modelled,
  because it is code of the handler.
* The error queue, gettable and settable lists, static tables.
* In the contract programs: printing, the cleanup of a run that has already
  failed, the checks on thread exit (what they exercise is OpenSSL's thread-stop
  handlers) with the condition variables they meet at, and checks of error text
  and byte layouts.
* The fuzz, timing, taint and benchmark programs: random inputs and measured
  times, with no claim a model could hold. The generated vectors header is data.
* Scripts, oracles, evidence, packaging and vendored code.

## 8. Plan

Done, in this order: load and DRBG; field values, ladder and fixed base; ffi, raw
keys and exchanges; version check; hybrid KEM; the contract programs as clients;
fetching and policy; limbs; signature verification; then the theorems of section
5, those of the limbs, the refinement of `AtomicKem`, the sums of any length and
the ladder, the group law, and the whole of `verify` last. Next:

1. `RoundLaws` and `MapLaws` from the curve equation: the map carries the addition law of one
   curve to the other's, and the ladder's formulas are identities modulo p once more.
