---------------------------- MODULE ProviderDrbg ----------------------------
(***************************************************************************)
(* The provider-owned DRBG and the threads that generate X301 keys with    *)
(* it: x301_drbg_get, x301_drbg_new, x301_drbg_free and x301_fill_random   *)
(* in provider_shim.c, on top of the load and teardown of ProviderLoad.    *)
(*                                                                         *)
(* x301_drbg_get is a double-checked lazy initialisation under a read/     *)
(* write lock.  Every lock call, every read and every write of             *)
(* provider->drbg is a step of its own; lock calls, DRBG creation and      *)
(* generation may fail at every point where the code tests for failure.    *)
(***************************************************************************)
EXTENDS ProviderLoad

CONSTANTS
  Threads,   \* application threads that generate keys
  Ctxs,      \* EVP_RAND_CTX objects; an address is not reused
  NullCtx,   \* the NULL EVP_RAND_CTX pointer
  NoThread,  \* nobody holds the write lock
  MaxCalls   \* bound: how many key generations are started

ASSUME DrbgAssumption ==
  /\ NullCtx \notin Ctxs
  /\ NoThread \notin Threads
  /\ MaxCalls \in Nat

VARIABLES
  drbg,       \* provider->drbg
  readers,    \* threads that hold drbg_lock for reading
  writer,     \* thread that holds drbg_lock for writing, or NoThread
  status,     \* life of each EVP_RAND_CTX
  locking,    \* contexts with EVP_RAND_enable_locking done
  busy,       \* threads inside EVP_RAND_generate, per context
  block,      \* number of the next block each context hands out
  pc,         \* control point of each thread's call
  local,      \* the thread's C variable "drbg"
  seen,       \* the block number a thread in EVP_RAND_generate works on
  delivered,  \* blocks that became private keys, as <<context, number>>
  calls       \* key generations started so far

drbgVars == <<drbg, readers, writer, status, locking, busy, block, pc, local,
              seen, delivered, calls>>
lockVars == <<readers, writer>>
randVars == <<status, locking, busy, block, seen, delivered>>
vars == <<loadVars, drbgVars>>

Steps == {"idle", "read_lock", "read", "read_unlock", "write_lock", "recheck",
          "new", "instantiate", "write_unlock", "generate", "generating"}
Statuses == {"unborn", "allocated", "ready", "aborted", "retired"}

(* The last conjunct: past the NULL tests a thread holds a context.        *)
DrbgTypeOK ==
  /\ drbg \in Ctxs \cup {NullCtx}
  /\ readers \subseteq Threads
  /\ writer \in Threads \cup {NoThread}
  /\ status \in [Ctxs -> Statuses]
  /\ locking \subseteq Ctxs
  /\ busy \in [Ctxs -> SUBSET Threads]
  /\ block \in [Ctxs -> Nat]
  /\ pc \in [Threads -> Steps]
  /\ local \in [Threads -> Ctxs \cup {NullCtx}]
  /\ seen \in [Threads -> Nat]
  /\ delivered \subseteq Ctxs \X Nat
  /\ calls \in 0..MaxCalls
  /\ \A t \in Threads :
       pc[t] \in {"instantiate", "generate", "generating"} => local[t] \in Ctxs

TypeOK == LoadTypeOK /\ DrbgTypeOK

DrbgInit ==
  /\ drbg = NullCtx
  /\ readers = {}
  /\ writer = NoThread
  /\ status = [d \in Ctxs |-> "unborn"]
  /\ locking = {}
  /\ busy = [d \in Ctxs |-> {}]
  /\ block = [d \in Ctxs |-> 0]
  /\ pc = [t \in Threads |-> "idle"]
  /\ local = [t \in Threads |-> NullCtx]
  /\ seen = [t \in Threads |-> 0]
  /\ delivered = {}
  /\ calls = 0

Init == LoadInit /\ DrbgInit

-----------------------------------------------------------------------------
Goto(t, from, to) ==
  /\ pc[t] = from
  /\ pc' = [pc EXCEPT ![t] = to]

(* The call returns, and its C variables are gone.                         *)
Return(t, from) ==
  /\ Goto(t, from, "idle")
  /\ local' = [local EXCEPT ![t] = NullCtx]

(* A thread enters x301_fill_random.  External: the core hands the         *)
(* provider context to a call only between load and teardown.              *)
StartKeyGen(t) ==
  /\ phase = "loaded"
  /\ calls < MaxCalls
  /\ Goto(t, "idle", "read_lock")
  /\ calls' = calls + 1
  /\ UNCHANGED <<loadVars, drbg, lockVars, randVars, local>>

ReadLock(t) ==
  /\ Goto(t, "read_lock", "read")
  /\ writer = NoThread
  /\ readers' = readers \cup {t}
  /\ UNCHANGED <<loadVars, drbg, writer, randVars, local, calls>>

ReadLockFails(t) ==
  /\ Return(t, "read_lock")
  /\ UNCHANGED <<loadVars, drbg, lockVars, randVars, calls>>

ReadDrbg(t) ==
  /\ Goto(t, "read", "read_unlock")
  /\ local' = [local EXCEPT ![t] = drbg]
  /\ UNCHANGED <<loadVars, drbg, lockVars, randVars, calls>>

ReadUnlock(t) ==
  /\ Goto(t, "read_unlock",
          IF local[t] # NullCtx THEN "generate" ELSE "write_lock")
  /\ readers' = readers \ {t}
  /\ UNCHANGED <<loadVars, drbg, writer, randVars, local, calls>>

WriteLock(t) ==
  /\ Goto(t, "write_lock", "recheck")
  /\ writer = NoThread
  /\ readers = {}
  /\ writer' = t
  /\ UNCHANGED <<loadVars, drbg, readers, randVars, local, calls>>

WriteLockFails(t) ==
  /\ Return(t, "write_lock")
  /\ UNCHANGED <<loadVars, drbg, lockVars, randVars, calls>>

(* Fault: the pointer is not tested again under the write lock.            *)
Recheck_Skipped(t) ==
  /\ Goto(t, "recheck", "new")
  /\ UNCHANGED <<loadVars, drbg, lockVars, randVars, local, calls>>

(* The second test of provider->drbg, under the write lock.                *)
Recheck(t) ==
  /\ Goto(t, "recheck", IF drbg = NullCtx THEN "new" ELSE "write_unlock")
  /\ local' = [local EXCEPT ![t] = drbg]
  /\ UNCHANGED <<loadVars, drbg, lockVars, randVars, calls>>

-----------------------------------------------------------------------------
(* x301_drbg_new                                                           *)

(* No primary DRBG, no CTR-DRBG, or no memory for the context: NULL is     *)
(* stored and a later call tries again.                                    *)
DrbgNewFails(t) ==
  /\ Goto(t, "new", "write_unlock")
  /\ local' = [local EXCEPT ![t] = NullCtx]
  /\ drbg' = NullCtx
  /\ UNCHANGED <<loadVars, lockVars, randVars, calls>>

(* Fault: the context is stored before it is instantiated.                 *)
DrbgCtxNew_PublishesEarly(t) ==
  /\ Goto(t, "new", "instantiate")
  /\ \E d \in Ctxs :
       /\ status[d] = "unborn"
       /\ status' = [status EXCEPT ![d] = "allocated"]
       /\ local' = [local EXCEPT ![t] = d]
       /\ drbg' = d
  /\ UNCHANGED <<loadVars, lockVars, locking, busy, block, seen, delivered,
                 calls>>

DrbgCtxNew(t) ==
  /\ Goto(t, "new", "instantiate")
  /\ \E d \in Ctxs :
       /\ status[d] = "unborn"
       /\ status' = [status EXCEPT ![d] = "allocated"]
       /\ local' = [local EXCEPT ![t] = d]
  /\ UNCHANGED <<loadVars, drbg, lockVars, locking, busy, block, seen,
                 delivered, calls>>

(* Fault: EVP_RAND_enable_locking is not called.                           *)
DrbgInstantiated_Unlocked(t) ==
  /\ Goto(t, "instantiate", "write_unlock")
  /\ status' = [status EXCEPT ![local[t]] = "ready"]
  /\ drbg' = local[t]
  /\ UNCHANGED <<loadVars, lockVars, locking, busy, block, seen, delivered,
                 local, calls>>

(* EVP_RAND_enable_locking and EVP_RAND_instantiate both succeeded; the    *)
(* context is stored in provider->drbg.                                    *)
DrbgInstantiated(t) ==
  /\ Goto(t, "instantiate", "write_unlock")
  /\ status' = [status EXCEPT ![local[t]] = "ready"]
  /\ locking' = locking \cup {local[t]}
  /\ drbg' = local[t]
  /\ UNCHANGED <<loadVars, lockVars, busy, block, seen, delivered, local,
                 calls>>

(* Fault: the freed context is returned and stored.                        *)
DrbgInstantiateFails_KeepsPointer(t) ==
  /\ Goto(t, "instantiate", "write_unlock")
  /\ status' = [status EXCEPT ![local[t]] = "aborted"]
  /\ drbg' = local[t]
  /\ UNCHANGED <<loadVars, lockVars, locking, busy, block, seen, delivered,
                 local, calls>>

(* One of the two failed: the context is freed and NULL is stored.         *)
DrbgInstantiateFails(t) ==
  /\ Goto(t, "instantiate", "write_unlock")
  /\ status' = [status EXCEPT ![local[t]] = "aborted"]
  /\ local' = [local EXCEPT ![t] = NullCtx]
  /\ drbg' = NullCtx
  /\ UNCHANGED <<loadVars, lockVars, locking, busy, block, seen, delivered,
                 calls>>

(* Fault: the path on which creation failed returns without unlocking.     *)
WriteUnlock_OnSuccessOnly(t) ==
  /\ Goto(t, "write_unlock",
          IF local[t] # NullCtx THEN "generate" ELSE "idle")
  /\ writer' = IF local[t] # NullCtx THEN NoThread ELSE writer
  /\ UNCHANGED <<loadVars, drbg, readers, randVars, local, calls>>

WriteUnlock(t) ==
  /\ Goto(t, "write_unlock",
          IF local[t] # NullCtx THEN "generate" ELSE "idle")
  /\ writer' = NoThread
  /\ UNCHANGED <<loadVars, drbg, readers, randVars, local, calls>>

-----------------------------------------------------------------------------
(* External: EVP_RAND_generate.  The generator's state is read, then       *)
(* advanced; a context with locking enabled lets one thread in at a time.  *)
GenerateBegin(t) ==
  /\ Goto(t, "generate", "generating")
  /\ local[t] \in locking => busy[local[t]] = {}
  /\ busy' = [busy EXCEPT ![local[t]] = @ \cup {t}]
  /\ seen' = [seen EXCEPT ![t] = block[local[t]]]
  /\ UNCHANGED <<loadVars, drbg, lockVars, status, locking, block, local,
                 delivered, calls>>

GenerateSucceeds(t) ==
  /\ Return(t, "generating")
  /\ block' = [block EXCEPT ![local[t]] = seen[t] + 1]
  /\ busy' = [busy EXCEPT ![local[t]] = @ \ {t}]
  /\ seen' = [seen EXCEPT ![t] = 0]
  /\ delivered' = delivered \cup {<<local[t], seen[t]>>}
  /\ UNCHANGED <<loadVars, drbg, lockVars, status, locking, calls>>

GenerateFails(t) ==
  /\ Return(t, "generating")
  /\ busy' = [busy EXCEPT ![local[t]] = @ \ {t}]
  /\ seen' = [seen EXCEPT ![t] = 0]
  /\ UNCHANGED <<loadVars, drbg, lockVars, status, locking, block,
                 delivered, calls>>

-----------------------------------------------------------------------------
(* The provider's own steps, with the DRBG's part of each.                 *)
LoadAlone == LoadStep /\ UNCHANGED drbgVars

(* Fault: teardown does not free the DRBG.                                 *)
Teardown_ForgetsDrbg ==
  /\ TeardownDrbg
  /\ \A t \in Threads : pc[t] = "idle"
  /\ drbg' = NullCtx
  /\ UNCHANGED <<lockVars, randVars, pc, local, calls>>

(* x301_provider_teardown starts with x301_drbg_free and drbg = NULL.      *)
(* External: the core tears a provider down when its last reference is     *)
(* gone, so no call is inside it.                                          *)
Teardown ==
  /\ TeardownDrbg
  /\ \A t \in Threads : pc[t] = "idle"
  /\ drbg' = NullCtx
  /\ status' = IF drbg = NullCtx THEN status
               ELSE [status EXCEPT ![drbg] = "retired"]
  /\ UNCHANGED <<lockVars, locking, busy, block, pc, local, seen, delivered,
                 calls>>

(* The steps of a call that waits for every lock it asks for.              *)
DrbgGet(t) ==
  \/ ReadLock(t) \/ ReadDrbg(t) \/ ReadUnlock(t)
  \/ WriteLock(t) \/ Recheck(t)
  \/ DrbgNewFails(t) \/ DrbgCtxNew(t)
  \/ DrbgInstantiated(t) \/ DrbgInstantiateFails(t) \/ WriteUnlock(t)

FillRandom(t) ==
  DrbgGet(t) \/ GenerateBegin(t) \/ GenerateSucceeds(t) \/ GenerateFails(t)

LockFails(t) == ReadLockFails(t) \/ WriteLockFails(t)

Next ==
  \/ LoadAlone
  \/ Teardown
  \/ \E t \in Threads : StartKeyGen(t) \/ FillRandom(t) \/ LockFails(t)

Spec == Init /\ [][Next]_vars

(* A thread inside the provider keeps running whenever the lock it waits   *)
(* for is free, and a teardown the core has started runs to its end.  No   *)
(* lock call is assumed to fail, and no call or unload to happen.          *)
FairSpec ==
  /\ Spec
  /\ \A t \in Threads : WF_vars(FillRandom(t))
  /\ WF_vars(TeardownRest /\ UNCHANGED drbgVars)

-----------------------------------------------------------------------------
Live(d) == status[d] \in {"allocated", "ready"}

(* However threads interleave in x301_drbg_get, and whichever lock,        *)
(* allocation or instantiation fails, at most one EVP_RAND_CTX exists, and *)
(* it is either the published one or the one the writing thread is still   *)
(* building: none is leaked and none is created twice.                     *)
NoLeakedDrbg ==
  \A d \in Ctxs : Live(d) =>
    \/ d = drbg
    \/ writer # NoThread /\ pc[writer] = "instantiate" /\ local[writer] = d

(* A thread that reaches EVP_RAND_generate does so on the published        *)
(* context, fully instantiated and with locking on, though it read the     *)
(* pointer earlier and has dropped the lock since.                         *)
GeneratesOnPublished ==
  \A t \in Threads : pc[t] \in {"generate", "generating"} =>
    /\ local[t] = drbg
    /\ status[local[t]] = "ready"
    /\ local[t] \in locking

(* The DRBG, whose seed parent is the child context's primary DRBG, never  *)
(* outlives the child context, the lock, or the provider structure.        *)
DrbgInsideChild == (\E d \in Ctxs : Live(d)) => live = Resources

(* Two key generations never receive the same DRBG output.                 *)
NoRepeatedDraw ==
  [][\A t \in Threads :
       GenerateSucceeds(t) => <<local[t], seen[t]>> \notin delivered]_vars

(* Every key generation that enters the provider returns.                  *)
EveryCallReturns == \A t \in Threads : pc[t] # "idle" ~> pc[t] = "idle"

(* A teardown that has started releases everything.                        *)
TeardownCompletes == phase = "drbg_freed" ~> live = {}

(* The threads implement the lock-free cell of DrbgCell.                   *)
Cell == INSTANCE DrbgCell WITH
  cell <- drbg,
  retired <- {d \in Ctxs : status[d] = "retired"},
  drawn <- delivered

ImplementsCell == Cell!CellSpec

=============================================================================
