--------------------------- MODULE ProviderPolicy ---------------------------
(***************************************************************************)
(* Which implementation serves a request.  An application loads providers  *)
(* into its library context and sets default properties; the x301 provider *)
(* answers algorithm queries from its tables and fetches what it needs,    *)
(* CTR-DRBG and ML-KEM-1024, in a child context that OpenSSL keeps in step *)
(* with the application's.  OpenSSL's fetching is external, modelled from  *)
(* its use; ProviderLoad and ProviderDrbg have the detail of loading and   *)
(* of drawing that this module leaves out.                                 *)
(***************************************************************************)
EXTENDS Integers, FiniteSets

CONSTANT Absent   \* no implementation

Names == {"default", "null", "x301", "mlkem_a", "mlkem_b", "mlkem_fail"}
ASSUME AbsentAssumption == Absent \notin Names /\ Absent \notin BOOLEAN

VARIABLES
  loaded,      \* the providers active in the application's context
  policy,      \* its default properties, and so the child's
  instance,    \* the x301 provider: whether it exists, its child's fallback, its DRBG
  rand,        \* the application context's own private DRBG: "cold" or "warm"
  answer,      \* what the last request gave
  served,      \* whether X301 keys were generated in this context (not code)
  admitted,    \* whether the policy ever admitted a DRBG here (not code)
  advertised   \* the last capability answer, while it should stand (not code)

vars == <<loaded, policy, instance, rand, answer, served, admitted, advertised>>

-----------------------------------------------------------------------------
Probes == {"mlkem_a", "mlkem_b", "mlkem_fail"}

X301_KEYMGMT_ALGORITHMS == {"X301", "X301MLKEM1024"}
X301_KEYEXCH_ALGORITHMS == {"X301"}
X301_KEM_ALGORITHMS == {"X301MLKEM1024"}

x301_provider_query_operation(operation) ==
  CASE operation = "KEYMGMT" -> X301_KEYMGMT_ALGORITHMS
    [] operation = "KEYEXCH" -> X301_KEYEXCH_ALGORITHMS
    [] operation = "KEM" -> X301_KEM_ALGORITHMS
    [] OTHER -> {}

probe_query(operation) == IF operation = "KEYMGMT" THEN {"ML-KEM-1024"} ELSE {}

default_query(operation) ==
  CASE operation = "KEYMGMT" -> {"ML-KEM-1024"}
    [] operation = "KEM" -> {"ML-KEM-1024"}
    [] operation = "RAND" -> {"CTR-DRBG"}
    [] OTHER -> {}

Offered(provider, operation) ==
  CASE provider = "x301" -> x301_provider_query_operation(operation)
    [] provider \in Probes -> probe_query(operation)
    [] provider = "default" -> default_query(operation)
    [] OTHER -> {}

\* Every implementation has its provider's name as a property; the probes have
\* one more.
Property(provider, name) ==
  CASE name = "provider" -> provider
    [] provider = "mlkem_a" -> "a"
    [] provider = "mlkem_b" -> "b"
    [] provider = "mlkem_fail" -> "fail"
    [] OTHER -> "none"

\* A property query: at most one clause for each property, which an
\* implementation must or, when optional, should have.
Requires(provider) == {[name |-> "provider", value |-> provider, optional |-> FALSE]}
Prefers(probe) == {[name |-> "probe", value |-> probe, optional |-> TRUE]}
Queries ==
  {{}} \cup {Requires(p) : p \in {"default", "null", "x301"}} \cup {Prefers(v) : v \in {"a", "b", "fail"}}

Merge(query, defaults) ==
  query \cup {d \in defaults : \A c \in query : c.name # d.name}

Has(provider, clause) == Property(provider, clause.name) = clause.value
Score(provider, query) == Cardinality({c \in query : c.optional /\ Has(provider, c)})

\* Those of the active providers that a fetch may give; none of two equally
\* good ones is preferred.
Best(active, operation, name, query) ==
  LET fitting == {p \in active : /\ name \in Offered(p, operation)
                                 /\ \A c \in query : c.optional \/ Has(p, c)}
  IN  {p \in fitting : \A o \in fitting : Score(o, query) <= Score(p, query)}

\* A child context mirrors the application's providers.  Left alone it would
\* activate the default provider when there is none.
Child ==
  (loaded \ {"x301"}) \cup (IF instance.fallback /\ loaded \subseteq {"x301"} THEN {"default"} ELSE {})

-----------------------------------------------------------------------------
Answer(op, reached, ok, by) == [op |-> op, reached |-> reached, ok |-> ok, by |-> by]

\* A DRBG that the application's providers offer and its properties permit.
Permits(active, defaults) == Best(active, "RAND", "CTR-DRBG", defaults) # {}
Witness ==
  /\ served' = (served \/ (answer'.op = "X301" /\ answer'.ok))
  /\ admitted' = (admitted \/ ("x301" \in loaded' /\ Permits(loaded', policy')))

\* How long an announcement should stand (not code).  That the group is there
\* stands while providers only come and requirements only go, that it is not
\* there while requirements only come and providers only go.
Required(query) == {c \in query : ~c.optional}
Announced ==
  advertised' =
    IF \/ /\ advertised = TRUE
          /\ loaded \subseteq loaded' /\ Required(policy') \subseteq Required(policy)
       \/ /\ advertised = FALSE
          /\ loaded' \subseteq loaded /\ Required(policy) \subseteq Required(policy')
    THEN advertised ELSE Absent

NoInstance == [exists |-> FALSE, fallback |-> FALSE, drbg |-> "cold"]

\* Fault: the null provider is not loaded into the child.
x301_shim_init_NoNull == [exists |-> TRUE, fallback |-> TRUE, drbg |-> "cold"]

\* Loading null and unloading it leaves the child without its fallback.
x301_shim_init == [exists |-> TRUE, fallback |-> FALSE, drbg |-> "cold"]

\* A provider that was unloaded is still there; it is only activated again.
Load(provider) ==
  /\ loaded' = loaded \cup {provider}
  /\ instance' = IF provider = "x301" /\ ~instance.exists THEN x301_shim_init ELSE instance
  /\ answer' = Answer("load", TRUE, TRUE, provider)
  /\ UNCHANGED <<policy, rand>>
  /\ Announced
  /\ Witness

Unload(provider) ==
  /\ provider \in loaded
  /\ loaded' = loaded \ {provider}
  /\ answer' = Answer("unload", TRUE, TRUE, provider)
  /\ UNCHANGED <<policy, instance, rand>>
  /\ Announced
  /\ Witness

set_default_properties(query) ==
  /\ policy' = query
  /\ answer' = Answer("properties", TRUE, TRUE, Absent)
  /\ UNCHANGED <<loaded, instance, rand>>
  /\ Announced
  /\ Witness

\* The last references go: x301_provider_teardown runs, and the next request
\* is made in a new context.
FreeLibctx ==
  /\ loaded' = {} /\ policy' = {} /\ instance' = NoInstance /\ rand' = "cold"
  /\ answer' = Answer("free", TRUE, TRUE, Absent)
  /\ advertised' = Absent /\ served' = FALSE /\ admitted' = FALSE

-----------------------------------------------------------------------------
Unchanged == UNCHANGED <<loaded, policy, advertised>>

OrNone(set) == IF set = {} THEN {Absent} ELSE set

Fetch(operation, name, query) ==
  /\ \E p \in OrNone(Best(loaded, operation, name, Merge(query, policy))) :
       answer' = Answer("fetch", TRUE, p # Absent, p)
  /\ UNCHANGED <<instance, rand>> /\ Unchanged
  /\ Witness

\* RAND_priv_bytes_ex in the application's context.
RandBytes ==
  /\ rand' = IF rand = "warm" \/ Permits(loaded, policy) THEN "warm" ELSE "cold"
  /\ answer' = Answer("rand", TRUE, rand' = "warm", Absent)
  /\ UNCHANGED instance /\ Unchanged
  /\ Witness

\* Fault: the policy is looked at for every key.
x301_drbg_get_Refetches == IF Permits(Child, policy) THEN "warm" ELSE "cold"

\* The DRBG is made under the policy of its first use and then kept.
x301_drbg_get == IF instance.drbg = "warm" \/ Permits(Child, policy) THEN "warm" ELSE "cold"

\* x301_key_gen; a probe generates nothing but a key object, or fails.
KeygenRaw ==
  /\ instance' = [instance EXCEPT !.drbg = x301_drbg_get]
  /\ answer' = Answer("X301", TRUE, instance'.drbg = "warm", "x301")

Generates(provider) == provider \notin {Absent, "mlkem_fail"}

\* Fault: the properties of the outer fetch are passed on.
NestedQuery_Outer(outer) == Merge(outer, policy)

\* The nested generation names no properties: the child's defaults decide.
NestedQuery(outer) == policy

\* hybrid_gen: both halves are asked for, whatever became of the first.
KeygenHybrid(outer) ==
  \E mlkem \in OrNone(Best(Child, "KEYMGMT", "ML-KEM-1024", NestedQuery(outer))) :
    /\ instance' = [instance EXCEPT !.drbg = x301_drbg_get]
    /\ answer' = Answer("X301MLKEM1024", TRUE, instance'.drbg = "warm" /\ Generates(mlkem), mlkem)

\* EVP_PKEY_CTX_new_from_name, EVP_PKEY_keygen_init, EVP_PKEY_generate.
Keygen(name, query) ==
  /\ \E p \in OrNone(Best(loaded, "KEYMGMT", name, Merge(query, policy))) :
       IF p = "x301"
       THEN IF name = "X301" THEN KeygenRaw ELSE KeygenHybrid(query)
       ELSE answer' = Answer(name, p # Absent, Generates(p), p) /\ UNCHANGED instance
  /\ UNCHANGED rand /\ Unchanged
  /\ Witness

\* EVP_PKEY_new_raw_private_key_ex: no randomness, nothing from the child.
ImportRaw(query) ==
  /\ \E p \in OrNone(Best(loaded, "KEYMGMT", "X301", Merge(query, policy))) :
       answer' = Answer("import", p # Absent, p # Absent, p)
  /\ UNCHANGED <<instance, rand>> /\ Unchanged
  /\ Witness

Advertises == Best(Child, "KEYMGMT", "ML-KEM-1024", policy) # {}

\* x301_provider_get_capabilities for TLS-GROUP; ok is whether the callback ran.
GetCapabilities ==
  /\ "x301" \in loaded
  /\ answer' = Answer("capabilities", TRUE, Advertises, "x301")
  /\ advertised' = Advertises
  /\ UNCHANGED <<loaded, policy, instance, rand>>
  /\ Witness

-----------------------------------------------------------------------------
Init ==
  /\ loaded = {} /\ policy = {} /\ instance = NoInstance /\ rand = "cold"
  /\ answer = Answer("free", TRUE, TRUE, Absent)
  /\ served = FALSE /\ admitted = FALSE /\ advertised = Absent

\* An application that fetches before it loads anything would activate
\* OpenSSL's fallback in its own context; here it loads first.
Next ==
  \/ \E p \in Names : Load(p) \/ Unload(p)
  \/ /\ loaded # {}
     /\ \/ \E query \in Queries :
             \/ set_default_properties(query) \/ ImportRaw(query)
             \/ \E name \in {"X301", "X301MLKEM1024", "ML-KEM-1024"} : Keygen(name, query)
             \/ \E operation \in {"KEYMGMT", "KEYEXCH", "KEM"}, name \in {"X301", "ML-KEM-1024"} :
                  Fetch(operation, name, query)
        \/ RandBytes \/ GetCapabilities \/ FreeLibctx

Spec == Init /\ [][Next]_vars

-----------------------------------------------------------------------------
\* Key generation fails closed and does not flap: keys are generated only in a
\* context whose providers and properties admitted a DRBG at some time since
\* x301 was there, and once they were, every generation that reaches the
\* provider succeeds, through any unloading, reloading and tightening of the
\* properties, until the context is freed.
DrbgFollowsPolicy ==
  [][/\ served' => admitted'
     /\ served /\ answer'.op = "X301" /\ answer'.reached => answer'.ok]_vars

\* An announcement of the TLS group can be relied on: a group that was not
\* advertised cannot be generated by way of some other provider, whatever is
\* then unloaded or required, and one that was advertised fails only when a
\* generator does, whatever is then loaded, preferred or no longer required.
CapabilityMatchesKeygen ==
  [][answer'.op = "X301MLKEM1024" /\ answer'.reached =>
       /\ advertised = FALSE => ~answer'.ok
       /\ advertised = TRUE =>
            /\ answer'.by # Absent
            /\ instance'.drbg = "warm" /\ answer'.by # "mlkem_fail" => answer'.ok]_vars
=============================================================================
