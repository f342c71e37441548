--------------------------- MODULE PolicyContract ---------------------------
(***************************************************************************)
(* The checks of the test programs that load providers and set properties, *)
(* run against ProviderPolicy: two of provider_x301_contract.c, those of   *)
(* provider_x301_hybrid_contract.c and provider_x301_nested_properties.c.  *)
(* A check is a script of requests in a library context of its own, each   *)
(* with the answer the program demands.  After the last check come the     *)
(* requests of an application that knows no script.                        *)
(***************************************************************************)
EXTENDS ProviderPolicy, Sequences, SequencesExt

VARIABLES
  checks,   \* the checks still to run
  todo,     \* the requests left of the current one
  verdict   \* "running", "failed" or "passed"

program == <<checks, todo, verdict>>

-----------------------------------------------------------------------------
\* A request and what it must give: success or not, and from which provider
\* (Absent when the program does not look).
Ask(op, arguments, ok, by) == <<[op |-> op, arguments |-> arguments, ok |-> ok, by |-> by]>>

Loads(provider) == Ask("load", <<provider>>, TRUE, Absent)
Unloads(provider) == Ask("unload", <<provider>>, TRUE, Absent)
Properties(query) == Ask("properties", <<query>>, TRUE, Absent)
Done == Ask("free", <<>>, TRUE, Absent)
Fetches(operation, name, query, provider) ==
  Ask("fetch", <<operation, name, query>>, provider # Absent, provider)
Group(count) == Ask("capabilities", <<>>, count = 1, Absent)
Rand == Ask("rand", <<>>, TRUE, Absent)
Available(provider, is) == Ask("available", <<provider>>, is, Absent)

\* keygen and generate; the last names the ML-KEM generator that was called.
Generates1(name, query, ok, by) == Ask("keygen", <<name, query>>, ok, by)
keygen(ok) == Generates1("X301", Requires("x301"), ok, Absent)
generate_hybrid(ok) == Generates1("X301MLKEM1024", Requires("x301"), ok, Absent)
raw_import_works == Ask("import", <<Requires("x301")>>, TRUE, Absent)

-----------------------------------------------------------------------------
keygen_fails_closed_without_permitted_drbg ==
  Loads("default") \o Loads("x301") \o Properties(Requires("x301")) \o keygen(FALSE)
    \o Properties({}) \o keygen(TRUE) \o keygen(TRUE)
    \o Unloads("x301") \o Properties(Requires("x301")) \o Loads("x301") \o keygen(TRUE) \o Done

warm_drbg_survives_later_policy_restriction ==
  Loads("default") \o Loads("x301") \o keygen(TRUE) \o Rand
    \o Properties(Requires("x301")) \o Rand \o keygen(TRUE) \o Done

hybrid_x301_first_load_is_raw_only ==
  Loads("x301") \o Fetches("KEYMGMT", "X301", Requires("x301"), "x301") \o Group(0)
    \o Available("default", FALSE) \o Loads("default") \o Group(1) \o Done

hybrid_fails_cleanly_without_mlkem ==
  Loads("null") \o Available("default", FALSE) \o Loads("x301") \o Group(0)
    \o generate_hybrid(FALSE) \o Available("default", FALSE) \o Done

hybrid_honors_child_default_properties ==
  Loads("default") \o Loads("null") \o Loads("x301") \o Properties(Requires("null"))
    \o Fetches("KEYMGMT", "X301MLKEM1024", Requires("x301"), "x301") \o Available("default", TRUE)
    \o generate_hybrid(FALSE) \o Done

\* ML-KEM is OpenSSL's, the hybrid is the provider's, its former name is gone.
fetches_of_main ==
  Loads("default") \o Loads("x301")
    \o FlattenSeq([i \in 1 .. 2 |->
         LET operation == <<"KEYMGMT", "KEM">>[i]
         IN  Fetches(operation, "ML-KEM-1024", Requires("default"), "default")
               \o Fetches(operation, "ML-KEM-1024", Requires("x301"), Absent)
               \o Fetches(operation, "X301MLKEM1024", Requires("x301"), "x301")
               \o Fetches(operation, "MLKEM1024X301", Requires("x301"), Absent)])
    \o Done

Probe(value) == IF value = "a" THEN "mlkem_a" ELSE "mlkem_b"

\* A direct generation follows the query, the nested one the defaults.
run_selection(inner, outer) ==
  Loads("default") \o Loads("mlkem_a") \o Loads("mlkem_b") \o Properties(Prefers(inner))
    \o Loads("x301") \o Generates1("ML-KEM-1024", Prefers(outer), TRUE, Probe(outer))
    \o Generates1("X301MLKEM1024", Prefers(outer), TRUE, Probe(inner)) \o Done

run_failure ==
  Loads("default") \o Loads("mlkem_fail") \o Properties(Prefers("fail")) \o Loads("x301")
    \o Generates1("X301MLKEM1024", Requires("x301"), FALSE, "mlkem_fail") \o raw_import_works \o Done

Checks ==
  {keygen_fails_closed_without_permitted_drbg, warm_drbg_survives_later_policy_restriction,
   hybrid_x301_first_load_is_raw_only, hybrid_fails_cleanly_without_mlkem,
   hybrid_honors_child_default_properties, fetches_of_main,
   run_selection("a", "b"), run_selection("b", "a"), run_failure}

-----------------------------------------------------------------------------
\* OSSL_PROVIDER_available.
IsAvailable(provider) ==
  /\ answer' = Answer("available", TRUE, provider \in loaded, Absent)
  /\ UNCHANGED <<instance, rand>> /\ Unchanged
  /\ Witness

Serve(r) ==
  LET a == r.arguments
  IN  \/ r.op = "load" /\ Load(a[1])
      \/ r.op = "unload" /\ Unload(a[1])
      \/ r.op = "properties" /\ set_default_properties(a[1])
      \/ r.op = "free" /\ FreeLibctx
      \/ r.op = "fetch" /\ Fetch(a[1], a[2], a[3])
      \/ r.op = "capabilities" /\ GetCapabilities
      \/ r.op = "rand" /\ RandBytes
      \/ r.op = "available" /\ IsAvailable(a[1])
      \/ r.op = "keygen" /\ Keygen(a[1], a[2])
      \/ r.op = "import" /\ ImportRaw(a[1])

Met(r) == answer'.ok = r.ok /\ (r.by # Absent => answer'.by = r.by)

\* The programs run their checks in turn; the order is not part of what they
\* check.
Begin ==
  /\ verdict = "running" /\ todo = <<>>
  /\ \E c \in checks : todo' = c /\ checks' = checks \ {c}
  /\ UNCHANGED <<vars, verdict>>

Step ==
  /\ verdict = "running" /\ todo # <<>>
  /\ Serve(todo[1])
  /\ todo' = Tail(todo)
  /\ verdict' = IF Met(todo[1]) THEN verdict ELSE "failed"
  /\ UNCHANGED checks

Return ==
  /\ verdict = "running" /\ todo = <<>> /\ checks = {}
  /\ verdict' = "passed"
  /\ UNCHANGED <<vars, checks, todo>>

ContractInit == Init /\ checks = Checks /\ todo = <<>> /\ verdict = "running"
Program == Begin \/ Step \/ Return

\* Any requests in any order, once the programs are over.
Application == verdict # "running" /\ Next /\ UNCHANGED program

ContractNext == Program \/ Application

\* The programs run to their end; no application need do anything.
ContractSpec ==
  ContractInit /\ [][ContractNext]_<<vars, program>> /\ WF_<<vars, program>>(Program)

\* Every answer is the one the test programs demand, whichever of several
\* equally good implementations a fetch gives and in whatever order the checks
\* run: generation fails closed and recovers, a warm DRBG outlives its policy,
\* no fallback appears in the child, the nested ML-KEM is the child defaults'
\* choice and not the outer query's, and a failed half leaves nothing behind.
PolicyContractHolds == <>(verdict = "passed")
=============================================================================
