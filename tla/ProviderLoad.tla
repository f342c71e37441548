---------------------------- MODULE ProviderLoad ----------------------------
(***************************************************************************)
(* Loading, capability query and teardown of the X301 provider, from       *)
(* x301_shim_init, x301_provider_get_capabilities and                      *)
(* x301_provider_teardown in provider_shim.c.                              *)
(*                                                                         *)
(* x301_shim_init acquires up to three resources one after the other (the  *)
(* provider structure, the child library context, the DRBG lock) and every *)
(* failing step has its own hand-written release of what came before.      *)
(* Teardown releases them in four steps.  Each acquisition or release is   *)
(* an action here, so that the states in between are visible.              *)
(***************************************************************************)
EXTENDS Naturals

CONSTANTS
  Hybrid,    \* the module is built with X301_ENABLE_HYBRID_MLKEM1024
  MaxLoads   \* bound: how often the application loads the provider

ASSUME LoadAssumption == Hybrid \in BOOLEAN /\ MaxLoads \in Nat

VARIABLES
  phase,       \* where the provider is between load and teardown
  live,        \* the provider's live resources, other than the DRBG
  fallback,    \* the child context may still activate a fallback provider
  loads,       \* number of x301_shim_init calls so far
  mlkem,       \* the application context exposes ML-KEM-1024
  advertised   \* latest TLS-GROUP answer of this load

loadVars == <<phase, live, fallback, loads, mlkem, advertised>>

Phases == {"absent", "zalloced", "child", "null_loaded", "isolated", "loaded",
           "drbg_freed", "lock_freed", "child_freed"}
Resources == {"provider", "libctx", "lock"}

LoadTypeOK ==
  /\ phase \in Phases
  /\ live \subseteq Resources
  /\ fallback \in BOOLEAN
  /\ loads \in 0..MaxLoads
  /\ mlkem \in BOOLEAN
  /\ advertised \in {"unasked", "none", "hybrid"}

LoadInit ==
  /\ phase = "absent"
  /\ live = {}
  /\ fallback = FALSE
  /\ loads = 0
  /\ mlkem \in BOOLEAN
  /\ advertised = "unasked"

-----------------------------------------------------------------------------
(* x301_shim_init                                                          *)

(* The early returns: a NULL argument, an invalid Rust table, a missing    *)
(* core callback, an unsupported core version, or a failing zalloc.        *)
InitRejected ==
  /\ phase = "absent"
  /\ loads < MaxLoads
  /\ loads' = loads + 1
  /\ UNCHANGED <<phase, live, fallback, mlkem, advertised>>

(* zalloc returned the provider structure, with drbg = NULL and            *)
(* drbg_lock = NULL.                                                       *)
InitAllocates ==
  /\ phase = "absent"
  /\ loads < MaxLoads
  /\ loads' = loads + 1
  /\ phase' = "zalloced"
  /\ live' = live \cup {"provider"}
  /\ UNCHANGED <<fallback, mlkem, advertised>>

(* OSSL_LIB_CTX_new_child succeeded: a new context starts with fallback    *)
(* activation allowed.                                                     *)
InitNewChild ==
  /\ phase = "zalloced"
  /\ phase' = "child"
  /\ live' = live \cup {"libctx"}
  /\ fallback' = TRUE
  /\ UNCHANGED <<loads, mlkem, advertised>>

(* A failing step gives back what the earlier ones acquired, and           *)
(* x301_shim_init returns 0.                                               *)
GiveUp(released) ==
  /\ phase' = "absent"
  /\ live' = live \ released
  /\ fallback' = FALSE
  /\ UNCHANGED <<loads, mlkem, advertised>>

InitNewChildFails ==
  /\ phase = "zalloced"
  /\ GiveUp({"provider"})

(* Fault: the null provider is not loaded before the context is used.      *)
InitLoadNull_Skipped ==
  /\ phase = "child"
  /\ Hybrid
  /\ phase' = "null_loaded"
  /\ UNCHANGED <<live, fallback, loads, mlkem, advertised>>

(* Hybrid build: OSSL_PROVIDER_load(child, "null") turns fallback          *)
(* activation off for the life of the child context.                       *)
InitLoadNull ==
  /\ phase = "child"
  /\ Hybrid
  /\ phase' = "null_loaded"
  /\ fallback' = FALSE
  /\ UNCHANGED <<live, loads, mlkem, advertised>>

InitUnloadNull ==
  /\ phase = "null_loaded"
  /\ phase' = "isolated"
  /\ UNCHANGED <<live, fallback, loads, mlkem, advertised>>

(* Either the load or the unload of the null provider failed.              *)
InitNullFails ==
  /\ phase \in {"child", "null_loaded"}
  /\ Hybrid
  /\ GiveUp({"libctx", "provider"})

BeforeLockNew == IF Hybrid THEN "isolated" ELSE "child"

(* CRYPTO_THREAD_lock_new succeeded; the outputs are published.            *)
InitNewLock ==
  /\ phase = BeforeLockNew
  /\ phase' = "loaded"
  /\ live' = live \cup {"lock"}
  /\ advertised' = "unasked"
  /\ UNCHANGED <<fallback, loads, mlkem>>

(* Fault: the error path forgets the child context.                        *)
InitNewLockFails_LeaksChild ==
  /\ phase = BeforeLockNew
  /\ GiveUp({"provider"})

InitNewLockFails ==
  /\ phase = BeforeLockNew
  /\ GiveUp({"libctx", "provider"})

-----------------------------------------------------------------------------
(* Environment: the application loads or unloads a provider with           *)
(* ML-KEM-1024 in its own library context; the child context follows it.   *)
AppTogglesMlkem ==
  /\ Hybrid
  /\ mlkem' = ~mlkem
  /\ UNCHANGED <<phase, live, fallback, loads, advertised>>

(* External: EVP_KEYMGMT_fetch(child, "ML-KEM-1024") finds a provider that *)
(* the application made visible or, if it may, a fallback one.             *)
FetchesMlkem == mlkem \/ fallback

(* x301_provider_get_capabilities("TLS-GROUP"): no callback, and success,  *)
(* when ML-KEM-1024 cannot be fetched; one callback otherwise.             *)
GetCapabilities ==
  /\ phase = "loaded"
  /\ Hybrid
  /\ advertised' = IF FetchesMlkem THEN "hybrid" ELSE "none"
  /\ UNCHANGED <<phase, live, fallback, loads, mlkem>>

-----------------------------------------------------------------------------
(* x301_provider_teardown.  Its first step, x301_drbg_free, belongs to the *)
(* module that owns the DRBG and is conjoined there.                       *)
TeardownDrbg ==
  /\ phase = "loaded"
  /\ phase' = "drbg_freed"
  /\ UNCHANGED <<live, fallback, loads, mlkem, advertised>>

TeardownLock ==
  /\ phase = "drbg_freed"
  /\ phase' = "lock_freed"
  /\ live' = live \ {"lock"}
  /\ UNCHANGED <<fallback, loads, mlkem, advertised>>

(* Fault: the child context is never freed.                                *)
TeardownChild_Forgotten ==
  /\ phase = "lock_freed"
  /\ phase' = "child_freed"
  /\ UNCHANGED <<live, fallback, loads, mlkem, advertised>>

TeardownChild ==
  /\ phase = "lock_freed"
  /\ phase' = "child_freed"
  /\ live' = live \ {"libctx"}
  /\ fallback' = FALSE
  /\ UNCHANGED <<loads, mlkem, advertised>>

TeardownProvider ==
  /\ phase = "child_freed"
  /\ phase' = "absent"
  /\ live' = live \ {"provider"}
  /\ UNCHANGED <<fallback, loads, mlkem, advertised>>

InitStep ==
  \/ InitNewChild \/ InitNewChildFails
  \/ InitLoadNull \/ InitUnloadNull \/ InitNullFails
  \/ InitNewLock \/ InitNewLockFails

TeardownRest == TeardownLock \/ TeardownChild \/ TeardownProvider

LoadStep ==
  \/ InitRejected \/ InitAllocates \/ InitStep
  \/ AppTogglesMlkem \/ GetCapabilities
  \/ TeardownRest

-----------------------------------------------------------------------------
(* Whenever x301_shim_init has returned and no teardown is under way, the  *)
(* provider holds everything or nothing: a failure of any stage released   *)
(* exactly what the earlier stages had acquired.  In between, a resource   *)
(* is live only while the one it hangs on is.                              *)
AllOrNothing ==
  /\ phase = "absent" => live = {}
  /\ phase = "loaded" => live = Resources
  /\ "lock" \in live => "libctx" \in live
  /\ "libctx" \in live => "provider" \in live

(* The hybrid TLS group is announced only while the application itself     *)
(* exposes ML-KEM-1024: a loaded child context never satisfies the fetch   *)
(* from a fallback provider of its own (docs/X301_DRAFT.md, section 6).    *)
HybridOnlyFromApplication ==
  [][advertised' = "hybrid" /\ advertised # "hybrid" => mlkem]_loadVars

=============================================================================
