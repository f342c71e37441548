------------------------- MODULE ProviderDrbgProofs -------------------------
(***************************************************************************)
(* Theorems about ProviderDrbg, for any number of threads, contexts, loads *)
(* and calls.                                                              *)
(***************************************************************************)
EXTENDS ProviderDrbg, TLAPS

(* What is live at each point of load and teardown.                        *)
LiveAt(p) ==
  CASE p = "absent" -> {}
    [] p \in {"zalloced", "child_freed"} -> {"provider"}
    [] p \in {"child", "null_loaded", "isolated", "lock_freed"}
         -> {"provider", "libctx"}
    [] OTHER -> Resources

PhaseInv ==
  /\ live = LiveAt(phase)
  /\ Hybrid /\ phase \in {"null_loaded", "isolated", "loaded"} => ~fallback
  /\ drbg # NullCtx => phase = "loaded"
  /\ \A t \in Threads : pc[t] # "idle" => phase = "loaded"

LockInv ==
  /\ \A t \in Threads : t \in readers <=> pc[t] \in {"read", "read_unlock"}
  /\ \A t \in Threads : writer = t <=>
       pc[t] \in {"recheck", "new", "instantiate", "write_unlock"}
  /\ writer # NoThread => readers = {}

CtxInv ==
  /\ drbg # NullCtx => status[drbg] = "ready"
  /\ \A d \in Ctxs : status[d] = "ready" => d = drbg /\ d \in locking
  /\ \A d \in Ctxs : status[d] = "allocated" =>
       /\ writer # NoThread
       /\ pc[writer] = "instantiate"
       /\ local[writer] = d

CallInv ==
  \A t \in Threads :
    /\ pc[t] \in {"new", "instantiate"} => drbg = NullCtx
    /\ pc[t] = "instantiate" =>
         local[t] # NullCtx /\ status[local[t]] = "allocated"
    /\ pc[t] \in {"read_unlock", "write_unlock"} =>
         local[t] \in {drbg, NullCtx}
    /\ pc[t] \in {"generate", "generating"} =>
         local[t] = drbg /\ drbg # NullCtx

DrawInv ==
  /\ \A x \in delivered : x[2] < block[x[1]]
  /\ \A t \in Threads : pc[t] = "generating" =>
       seen[t] = block[local[t]] /\ t \in busy[local[t]]
  /\ \A d \in Ctxs : \A t, u \in busy[d] :
       t = u /\ pc[t] = "generating" /\ local[t] = d

IInv == TypeOK /\ PhaseInv /\ LockInv /\ CtxInv /\ CallInv /\ DrawInv

-----------------------------------------------------------------------------
(* A call starts only in a loaded provider, holding no lock.               *)
LEMMA StartKeyGenStep ==
  ASSUME NEW t \in Threads, IInv, StartKeyGen(t)
  PROVE  IInv'
<1> USE DrbgAssumption DEF IInv, TypeOK, DrbgTypeOK, StartKeyGen, Goto,
            loadVars, lockVars, randVars
<1>1. TypeOK'
  BY DEF LoadTypeOK, CallInv, Steps, Statuses
<1>2. PhaseInv'
  BY DEF PhaseInv
<1>3. LockInv'
  BY DEF LockInv
<1>4. CtxInv'
  BY DEF CtxInv, CallInv, LockInv
<1>5. CallInv'
  BY DEF CallInv, LockInv, CtxInv
<1>6. DrawInv'
  BY DEF DrawInv, CallInv, CtxInv
<1> QED
  BY <1>1, <1>2, <1>3, <1>4, <1>5, <1>6

(* A reader enters only when no writer is inside.                          *)
LEMMA ReadLockStep ==
  ASSUME NEW t \in Threads, IInv, ReadLock(t)
  PROVE  IInv'
<1> USE DrbgAssumption DEF IInv, TypeOK, DrbgTypeOK, ReadLock, Goto,
            loadVars, lockVars, randVars
<1>1. TypeOK'
  BY DEF LoadTypeOK, CallInv, Steps, Statuses
<1>2. PhaseInv'
  BY DEF PhaseInv
<1>3. LockInv'
  BY DEF LockInv
<1>4. CtxInv'
  BY DEF CtxInv, CallInv, LockInv
<1>5. CallInv'
  BY DEF CallInv, LockInv, CtxInv
<1>6. DrawInv'
  BY DEF DrawInv, CallInv, CtxInv
<1> QED
  BY <1>1, <1>2, <1>3, <1>4, <1>5, <1>6

(* A failing read lock ends the call without a trace.                      *)
LEMMA ReadLockFailsStep ==
  ASSUME NEW t \in Threads, IInv, ReadLockFails(t)
  PROVE  IInv'
<1> USE DrbgAssumption DEF IInv, TypeOK, DrbgTypeOK, ReadLockFails, Goto, Return,
            loadVars, lockVars, randVars
<1>1. TypeOK'
  BY DEF LoadTypeOK, CallInv, Steps, Statuses
<1>2. PhaseInv'
  BY DEF PhaseInv
<1>3. LockInv'
  BY DEF LockInv
<1>4. CtxInv'
  BY DEF CtxInv, CallInv, LockInv
<1>5. CallInv'
  BY DEF CallInv, LockInv, CtxInv
<1>6. DrawInv'
  BY DEF DrawInv, CallInv, CtxInv
<1> QED
  BY <1>1, <1>2, <1>3, <1>4, <1>5, <1>6

(* A reader's copy is NULL or the published DRBG.                          *)
LEMMA ReadDrbgStep ==
  ASSUME NEW t \in Threads, IInv, ReadDrbg(t)
  PROVE  IInv'
<1> USE DrbgAssumption DEF IInv, TypeOK, DrbgTypeOK, ReadDrbg, Goto,
            loadVars, lockVars, randVars
<1>1. TypeOK'
  BY DEF LoadTypeOK, CallInv, Steps, Statuses
<1>2. PhaseInv'
  BY DEF PhaseInv
<1>3. LockInv'
  BY DEF LockInv
<1>4. CtxInv'
  BY DEF CtxInv, CallInv, LockInv
<1>5. CallInv'
  BY DEF CallInv, LockInv, CtxInv
<1>6. DrawInv'
  BY DEF DrawInv, CallInv, CtxInv
<1> QED
  BY <1>1, <1>2, <1>3, <1>4, <1>5, <1>6

(* A reader leaves with the published DRBG, or goes on to write.           *)
LEMMA ReadUnlockStep ==
  ASSUME NEW t \in Threads, IInv, ReadUnlock(t)
  PROVE  IInv'
<1> USE DrbgAssumption DEF IInv, TypeOK, DrbgTypeOK, ReadUnlock, Goto,
            loadVars, lockVars, randVars
<1>1. TypeOK'
  BY DEF LoadTypeOK, CallInv, Steps, Statuses
<1>2. PhaseInv'
  BY DEF PhaseInv
<1>3. LockInv'
  BY DEF LockInv
<1>4. CtxInv'
  BY DEF CtxInv, CallInv, LockInv
<1>5. CallInv'
  BY DEF CallInv, LockInv, CtxInv
<1>6. DrawInv'
  BY DEF DrawInv, CallInv, CtxInv
<1> QED
  BY <1>1, <1>2, <1>3, <1>4, <1>5, <1>6

(* The writer enters alone.                                                *)
LEMMA WriteLockStep ==
  ASSUME NEW t \in Threads, IInv, WriteLock(t)
  PROVE  IInv'
<1> USE DrbgAssumption DEF IInv, TypeOK, DrbgTypeOK, WriteLock, Goto,
            loadVars, lockVars, randVars
<1>1. TypeOK'
  BY DEF LoadTypeOK, CallInv, Steps, Statuses
<1>2. PhaseInv'
  BY DEF PhaseInv
<1>3. LockInv'
  BY DEF LockInv
<1>4. CtxInv'
  BY DEF CtxInv, CallInv, LockInv
<1>5. CallInv'
  BY DEF CallInv, LockInv, CtxInv
<1>6. DrawInv'
  BY DEF DrawInv, CallInv, CtxInv
<1> QED
  BY <1>1, <1>2, <1>3, <1>4, <1>5, <1>6

(* A failing write lock ends the call without a trace.                     *)
LEMMA WriteLockFailsStep ==
  ASSUME NEW t \in Threads, IInv, WriteLockFails(t)
  PROVE  IInv'
<1> USE DrbgAssumption DEF IInv, TypeOK, DrbgTypeOK, WriteLockFails, Goto, Return,
            loadVars, lockVars, randVars
<1>1. TypeOK'
  BY DEF LoadTypeOK, CallInv, Steps, Statuses
<1>2. PhaseInv'
  BY DEF PhaseInv
<1>3. LockInv'
  BY DEF LockInv
<1>4. CtxInv'
  BY DEF CtxInv, CallInv, LockInv
<1>5. CallInv'
  BY DEF CallInv, LockInv, CtxInv
<1>6. DrawInv'
  BY DEF DrawInv, CallInv, CtxInv
<1> QED
  BY <1>1, <1>2, <1>3, <1>4, <1>5, <1>6

(* Under the write lock only a NULL pointer leads to a creation.           *)
LEMMA RecheckStep ==
  ASSUME NEW t \in Threads, IInv, Recheck(t)
  PROVE  IInv'
<1> USE DrbgAssumption DEF IInv, TypeOK, DrbgTypeOK, Recheck, Goto,
            loadVars, lockVars, randVars
<1>1. TypeOK'
  BY DEF LoadTypeOK, CallInv, Steps, Statuses
<1>2. PhaseInv'
  BY DEF PhaseInv
<1>3. LockInv'
  BY DEF LockInv
<1>4. CtxInv'
  BY DEF CtxInv, CallInv, LockInv
<1>5. CallInv'
  BY DEF CallInv, LockInv, CtxInv
<1>6. DrawInv'
  BY DEF DrawInv, CallInv, CtxInv
<1> QED
  BY <1>1, <1>2, <1>3, <1>4, <1>5, <1>6

(* A failed creation stores the NULL that was already there.               *)
LEMMA DrbgNewFailsStep ==
  ASSUME NEW t \in Threads, IInv, DrbgNewFails(t)
  PROVE  IInv'
<1> USE DrbgAssumption DEF IInv, TypeOK, DrbgTypeOK, DrbgNewFails, Goto,
            loadVars, lockVars, randVars
<1>1. TypeOK'
  BY DEF LoadTypeOK, CallInv, Steps, Statuses
<1>2. PhaseInv'
  BY DEF PhaseInv
<1>3. LockInv'
  BY DEF LockInv
<1>4. CtxInv'
  BY DEF CtxInv, CallInv, LockInv
<1>5. CallInv'
  BY DEF CallInv, LockInv, CtxInv
<1>6. DrawInv'
  BY DEF DrawInv, CallInv, CtxInv
<1> QED
  BY <1>1, <1>2, <1>3, <1>4, <1>5, <1>6

(* The one allocated context belongs to the writer.                        *)
LEMMA DrbgCtxNewStep ==
  ASSUME NEW t \in Threads, IInv, DrbgCtxNew(t)
  PROVE  IInv'
<1> USE DrbgAssumption DEF IInv, TypeOK, DrbgTypeOK, DrbgCtxNew, Goto,
            loadVars, lockVars, randVars
<1>1. TypeOK'
  BY DEF LoadTypeOK, CallInv, Steps, Statuses
<1>2. PhaseInv'
  BY DEF PhaseInv
<1>3. LockInv'
  BY DEF LockInv
<1>4. CtxInv'
  BY DEF CtxInv, CallInv, LockInv
<1>5. CallInv'
  BY DEF CallInv, LockInv, CtxInv
<1>6. DrawInv'
  BY DEF DrawInv, CallInv, CtxInv
<1> QED
  BY <1>1, <1>2, <1>3, <1>4, <1>5, <1>6

(* The context is published when ready and locking, over NULL.             *)
LEMMA DrbgInstantiatedStep ==
  ASSUME NEW t \in Threads, IInv, DrbgInstantiated(t)
  PROVE  IInv'
<1> USE DrbgAssumption DEF IInv, TypeOK, DrbgTypeOK, DrbgInstantiated, Goto,
            loadVars, lockVars, randVars
<1>1. TypeOK'
  BY DEF LoadTypeOK, CallInv, Steps, Statuses
<1>2. PhaseInv'
  BY DEF PhaseInv
<1>3. LockInv'
  BY DEF LockInv
<1>4. CtxInv'
  BY DEF CtxInv, CallInv, LockInv
<1>5. CallInv'
  BY DEF CallInv, LockInv, CtxInv
<1>6. DrawInv'
  BY DEF DrawInv, CallInv, CtxInv
<1> QED
  BY <1>1, <1>2, <1>3, <1>4, <1>5, <1>6

(* A context that cannot be instantiated is freed by its writer.           *)
LEMMA DrbgInstantiateFailsStep ==
  ASSUME NEW t \in Threads, IInv, DrbgInstantiateFails(t)
  PROVE  IInv'
<1> USE DrbgAssumption DEF IInv, TypeOK, DrbgTypeOK, DrbgInstantiateFails, Goto,
            loadVars, lockVars, randVars
<1>1. TypeOK'
  BY DEF LoadTypeOK, CallInv, Steps, Statuses
<1>2. PhaseInv'
  BY DEF PhaseInv
<1>3. LockInv'
  BY DEF LockInv
<1>4. CtxInv'
  BY DEF CtxInv, CallInv, LockInv
<1>5. CallInv'
  BY DEF CallInv, LockInv, CtxInv
<1>6. DrawInv'
  BY DEF DrawInv, CallInv, CtxInv
<1> QED
  BY <1>1, <1>2, <1>3, <1>4, <1>5, <1>6

(* The writer leaves with the published DRBG, or fails.                    *)
LEMMA WriteUnlockStep ==
  ASSUME NEW t \in Threads, IInv, WriteUnlock(t)
  PROVE  IInv'
<1> USE DrbgAssumption DEF IInv, TypeOK, DrbgTypeOK, WriteUnlock, Goto,
            loadVars, lockVars, randVars
<1>1. TypeOK'
  BY DEF LoadTypeOK, CallInv, Steps, Statuses
<1>2. PhaseInv'
  BY DEF PhaseInv
<1>3. LockInv'
  BY DEF LockInv
<1>4. CtxInv'
  BY DEF CtxInv, CallInv, LockInv
<1>5. CallInv'
  BY DEF CallInv, LockInv, CtxInv
<1>6. DrawInv'
  BY DEF DrawInv, CallInv, CtxInv
<1> QED
  BY <1>1, <1>2, <1>3, <1>4, <1>5, <1>6

(* The context's own lock admits one generating thread.                    *)
LEMMA GenerateBeginStep ==
  ASSUME NEW t \in Threads, IInv, GenerateBegin(t)
  PROVE  IInv'
<1> USE DrbgAssumption DEF IInv, TypeOK, DrbgTypeOK, GenerateBegin, Goto,
            loadVars, lockVars, randVars
<1>1. TypeOK'
  BY DEF LoadTypeOK, CallInv, Steps, Statuses
<1>2. PhaseInv'
  BY DEF PhaseInv
<1>3. LockInv'
  BY DEF LockInv
<1>4. CtxInv'
  BY DEF CtxInv, CallInv, LockInv
<1>5. CallInv'
  BY DEF CallInv, LockInv, CtxInv
<1>6. DrawInv'
  BY DEF DrawInv, CallInv, CtxInv
<1> QED
  BY <1>1, <1>2, <1>3, <1>4, <1>5, <1>6

(* The only generating thread advances the block it has read.              *)
LEMMA GenerateSucceedsStep ==
  ASSUME NEW t \in Threads, IInv, GenerateSucceeds(t)
  PROVE  IInv'
<1> USE DrbgAssumption DEF IInv, TypeOK, DrbgTypeOK, GenerateSucceeds, Goto, Return,
            loadVars, lockVars, randVars
<1>1. TypeOK'
  BY DEF LoadTypeOK, CallInv, Steps, Statuses
<1>2. PhaseInv'
  BY DEF PhaseInv
<1>3. LockInv'
  BY DEF LockInv
<1>4. CtxInv'
  BY DEF CtxInv, CallInv, LockInv
<1>5. CallInv'
  BY DEF CallInv, LockInv, CtxInv
<1>6. DrawInv'
  <2> DEFINE d == local[t]
  <2>1. /\ d \in Ctxs /\ d = drbg /\ seen[t] \in Nat
        /\ seen[t] = block[d] /\ busy[d] = {t}
    BY DEF DrawInv, CallInv
  <2>2. \A u \in Threads : u # t => pc[u] # "generating"
    BY <2>1 DEF DrawInv, CallInv
  <2>3. \A x \in delivered' : x[2] < block'[x[1]]
    BY <2>1 DEF DrawInv
  <2>4. \A u \in Threads : pc'[u] # "generating"
    BY <2>2
  <2>5. \A c \in Ctxs : busy'[c] = {}
    BY <2>1, <2>2 DEF DrawInv
  <2> QED
    BY <2>3, <2>4, <2>5 DEF DrawInv
<1> QED
  BY <1>1, <1>2, <1>3, <1>4, <1>5, <1>6

(* A failed generation leaves the block for the next thread.               *)
LEMMA GenerateFailsStep ==
  ASSUME NEW t \in Threads, IInv, GenerateFails(t)
  PROVE  IInv'
<1> USE DrbgAssumption DEF IInv, TypeOK, DrbgTypeOK, GenerateFails, Goto, Return,
            loadVars, lockVars, randVars
<1>1. TypeOK'
  BY DEF LoadTypeOK, CallInv, Steps, Statuses
<1>2. PhaseInv'
  BY DEF PhaseInv
<1>3. LockInv'
  BY DEF LockInv
<1>4. CtxInv'
  BY DEF CtxInv, CallInv, LockInv
<1>5. CallInv'
  BY DEF CallInv, LockInv, CtxInv
<1>6. DrawInv'
  <2> DEFINE d == local[t]
  <2>1. /\ d \in Ctxs /\ d = drbg /\ seen[t] \in Nat
        /\ seen[t] = block[d] /\ busy[d] = {t}
    BY DEF DrawInv, CallInv
  <2>2. \A u \in Threads : u # t => pc[u] # "generating"
    BY <2>1 DEF DrawInv, CallInv
  <2>3. \A x \in delivered' : x[2] < block'[x[1]]
    BY <2>1 DEF DrawInv
  <2>4. \A u \in Threads : pc'[u] # "generating"
    BY <2>2
  <2>5. \A c \in Ctxs : busy'[c] = {}
    BY <2>1, <2>2 DEF DrawInv
  <2> QED
    BY <2>3, <2>4, <2>5 DEF DrawInv
<1> QED
  BY <1>1, <1>2, <1>3, <1>4, <1>5, <1>6

(* A step of load, capability query or teardown moves the live resources   *)
(* from one row of LiveAt to the next.                                     *)
LEMMA LoadAloneStep == ASSUME IInv, LoadAlone PROVE IInv'
<1>1. LoadTypeOK' /\ PhaseInv'
  <2> USE LoadAssumption, DrbgAssumption DEF IInv, LoadAlone, TypeOK, LoadTypeOK, DrbgTypeOK,
          PhaseInv, LiveAt, Phases, Resources, drbgVars
  <2>1. CASE InitRejected
    BY <2>1 DEF InitRejected
  <2>2. CASE InitAllocates
    BY <2>2 DEF InitAllocates
  <2>3. CASE InitNewChild
    BY <2>3 DEF InitNewChild
  <2>4. CASE InitNewChildFails
    BY <2>4 DEF InitNewChildFails, GiveUp
  <2>5. CASE InitLoadNull
    BY <2>5 DEF InitLoadNull
  <2>6. CASE InitUnloadNull
    BY <2>6 DEF InitUnloadNull
  <2>7. CASE InitNullFails
    BY <2>7 DEF InitNullFails, GiveUp
  <2>8. CASE InitNewLock
    BY <2>8 DEF InitNewLock, BeforeLockNew
  <2>9. CASE InitNewLockFails
    BY <2>9 DEF InitNewLockFails, GiveUp, BeforeLockNew
  <2>10. CASE AppTogglesMlkem
    BY <2>10 DEF AppTogglesMlkem
  <2>11. CASE GetCapabilities
    BY <2>11 DEF GetCapabilities
  <2>12. CASE TeardownLock
    BY <2>12 DEF TeardownLock
  <2>13. CASE TeardownChild
    BY <2>13 DEF TeardownChild
  <2>14. CASE TeardownProvider
    BY <2>14 DEF TeardownProvider
  <2> QED
    BY <2>1, <2>2, <2>3, <2>4, <2>5, <2>6, <2>7,
       <2>8, <2>9, <2>10, <2>11, <2>12, <2>13, <2>14
       DEF LoadStep, InitStep, TeardownRest
<1>2. DrbgTypeOK' /\ LockInv' /\ CtxInv' /\ CallInv' /\ DrawInv'
  BY DEF IInv, LoadAlone, drbgVars, TypeOK, DrbgTypeOK, LockInv, CtxInv, CallInv, DrawInv
<1> QED
  BY <1>1, <1>2 DEF IInv, TypeOK

(* Teardown finds no call under way and retires the published DRBG.        *)
LEMMA TeardownStep == ASSUME IInv, Teardown PROVE IInv'
<1> USE DrbgAssumption DEF IInv, TypeOK, DrbgTypeOK, Teardown, TeardownDrbg, lockVars
<1>1. TypeOK'
  BY DEF LoadTypeOK, Phases, Statuses
<1>2. PhaseInv'
  BY DEF PhaseInv, LiveAt, LoadTypeOK
<1>3. LockInv'
  BY DEF LockInv
<1>4. CtxInv'
  BY DEF CtxInv, Statuses
<1>5. CallInv'
  BY DEF CallInv
<1>6. DrawInv'
  BY DEF DrawInv
<1> QED
  BY <1>1, <1>2, <1>3, <1>4, <1>5, <1>6

(* IInv holds before the first load.                                       *)
LEMMA InitIInv == Init => IInv
<1> USE DrbgAssumption, LoadAssumption DEF Init, LoadInit, DrbgInit
<1>1. Init => TypeOK
  <2>1. Init => LoadTypeOK
    <3>1. Init => loads \in 0..MaxLoads
      OBVIOUS
    <3>2. Init => mlkem \in BOOLEAN
      BY Zenon
    <3> QED
      BY <3>1, <3>2, Zenon DEF LoadTypeOK, Phases
  <2>2. Init => DrbgTypeOK
    BY DEF DrbgTypeOK, Steps, Statuses
  <2> QED
    BY <2>1, <2>2 DEF TypeOK
<1>2. Init => PhaseInv
  BY DEF PhaseInv, LiveAt
<1>3. Init => LockInv /\ CtxInv /\ CallInv /\ DrawInv
  BY DEF LockInv, CtxInv, CallInv, DrawInv
<1> QED
  BY <1>1, <1>2, <1>3 DEF IInv

(* Every step of the provider or of a thread keeps IInv.                   *)
LEMMA NextIInv == IInv /\ [Next]_vars => IInv'
<1> SUFFICES ASSUME IInv, [Next]_vars PROVE IInv'
  OBVIOUS
<1>1. CASE LoadAlone
  BY <1>1, LoadAloneStep
<1>2. CASE Teardown
  BY <1>2, TeardownStep
<1>3. ASSUME NEW t \in Threads,
             StartKeyGen(t) \/ FillRandom(t) \/ LockFails(t)
      PROVE  IInv'
  BY <1>3, StartKeyGenStep, ReadLockStep, ReadLockFailsStep,
     ReadDrbgStep, ReadUnlockStep, WriteLockStep,
     WriteLockFailsStep, RecheckStep, DrbgNewFailsStep,
     DrbgCtxNewStep, DrbgInstantiatedStep, DrbgInstantiateFailsStep,
     WriteUnlockStep, GenerateBeginStep, GenerateSucceedsStep,
     GenerateFailsStep
     DEF FillRandom, DrbgGet, LockFails
<1>4. CASE UNCHANGED vars
  BY <1>4 DEF IInv, TypeOK, LoadTypeOK, DrbgTypeOK, PhaseInv, LockInv, CtxInv, CallInv,
      DrawInv, vars, loadVars, drbgVars
<1> QED
  BY <1>1, <1>2, <1>3, <1>4 DEF Next

(* The inductive invariant holds in every state.                           *)
THEOREM Inductive == Spec => []IInv
BY InitIInv, NextIInv, PTL DEF Spec

-----------------------------------------------------------------------------
(* The variables of the provider and of every thread keep their types.     *)
THEOREM TypeCorrect == Spec => []TypeOK
<1>1. IInv => TypeOK
  BY DEF IInv
<1> QED
  BY <1>1, Inductive, PTL

(* A failed load and a finished teardown leave no resource behind, and the *)
(* lock, the child context and the provider structure end in that order.   *)
THEOREM LoadIsAllOrNothing == Spec => []AllOrNothing
<1>1. IInv => AllOrNothing
  BY DEF IInv, TypeOK, LoadTypeOK, Phases, PhaseInv, LiveAt, Resources, AllOrNothing
<1> QED
  BY <1>1, Inductive, PTL

(* Double-checked creation under failure leaks and duplicates no DRBG.     *)
THEOREM NoDrbgLeaks == Spec => []NoLeakedDrbg
<1>1. IInv => NoLeakedDrbg
  BY DEF IInv, CtxInv, NoLeakedDrbg, Live
<1> QED
  BY <1>1, Inductive, PTL

(* The pointer a thread kept after unlocking is still the published,       *)
(* instantiated, locking DRBG when the thread generates with it.           *)
THEOREM GenerationIsOnPublished == Spec => []GeneratesOnPublished
<1>1. IInv => GeneratesOnPublished
  BY DrbgAssumption DEF IInv, TypeOK, DrbgTypeOK, CtxInv, CallInv, GeneratesOnPublished
<1> QED
  BY <1>1, Inductive, PTL

(* No DRBG is alive when the child context it is seeded from is not.       *)
THEOREM DrbgEndsBeforeChild == Spec => []DrbgInsideChild
<1>1. IInv => DrbgInsideChild
  <2> SUFFICES ASSUME IInv, NEW d \in Ctxs, Live(d)
               PROVE  live = Resources
    BY DEF DrbgInsideChild
  <2>1. phase = "loaded"
    BY DrbgAssumption DEF IInv, TypeOK, DrbgTypeOK, PhaseInv, CtxInv, Live
  <2> QED
    BY <2>1 DEF IInv, PhaseInv, LiveAt
<1> QED
  BY <1>1, Inductive, PTL

(* No two key generations receive the same DRBG output.                    *)
THEOREM DrawsAreFresh == Spec => NoRepeatedDraw
<1>1. IInv /\ [Next]_vars =>
        [\A t \in Threads : GenerateSucceeds(t) =>
            <<local[t], seen[t]>> \notin delivered]_vars
  <2> SUFFICES ASSUME IInv, NEW t \in Threads, GenerateSucceeds(t),
                      <<local[t], seen[t]>> \in delivered
               PROVE  FALSE
    OBVIOUS
  <2>1. seen[t] < block[local[t]]
    BY DEF IInv, DrawInv
  <2>2. seen[t] = block[local[t]] /\ seen[t] \in Nat
    BY DEF IInv, DrawInv, TypeOK, DrbgTypeOK, GenerateSucceeds, Return, Goto
  <2> QED
    BY <2>1, <2>2
<1> QED
  BY <1>1, Inductive, PTL DEF Spec, NoRepeatedDraw

(* The hybrid group is announced only when the application shows ML-KEM.   *)
THEOREM HybridNeedsApplication == Spec => HybridOnlyFromApplication
<1>1. IInv /\ [Next]_vars =>
        [advertised' = "hybrid" /\ advertised # "hybrid" => mlkem]_loadVars
  <2> SUFFICES ASSUME IInv, [Next]_vars,
                      advertised' = "hybrid", advertised # "hybrid"
               PROVE  mlkem
    OBVIOUS
  <2>1. CASE GetCapabilities
    BY <2>1 DEF IInv, PhaseInv, GetCapabilities, FetchesMlkem
  <2>2. CASE ~GetCapabilities
    BY <2>2 DEF Next, vars, loadVars, LoadAlone, LoadStep, InitStep,
        TeardownRest, InitRejected, InitAllocates, InitNewChild,
        InitNewChildFails, InitLoadNull, InitUnloadNull, InitNullFails,
        InitNewLock, InitNewLockFails, GiveUp, AppTogglesMlkem, TeardownLock,
        TeardownChild, TeardownProvider, Teardown, TeardownDrbg, FillRandom,
        DrbgGet, LockFails, StartKeyGen, ReadLock, ReadLockFails, ReadDrbg,
        ReadUnlock, WriteLock, WriteLockFails, Recheck, DrbgNewFails,
        DrbgCtxNew, DrbgInstantiated, DrbgInstantiateFails, WriteUnlock,
        GenerateBegin, GenerateSucceeds, GenerateFails
  <2> QED
    BY <2>1, <2>2
<1> QED
  BY <1>1, Inductive, PTL DEF Spec, HybridOnlyFromApplication

-----------------------------------------------------------------------------
(* The threads, the read/write lock and the failures implement DrbgCell:   *)
(* publishing is Fill, a successful generation is Draw, teardown is Close, *)
(* and every other step leaves the cell alone.                             *)
THEOREM Refinement == Spec => ImplementsCell
<1> DEFINE Retired == {d \in Ctxs : status[d] = "retired"}
<1>1. Init => Cell!CellInit
  BY DEF Init, DrbgInit, Cell!CellInit
<1>2. IInv /\ [Next]_vars => [Cell!CellNext]_(Cell!cellVars)
  <2> SUFFICES ASSUME IInv, [Next]_vars
               PROVE  Cell!CellNext \/ UNCHANGED <<drbg, Retired, delivered>>
    BY DEF Cell!cellVars
  <2>1. ASSUME NEW t \in Threads, DrbgInstantiated(t) PROVE Cell!Fill
    BY <2>1, DrbgAssumption DEF IInv, TypeOK, DrbgTypeOK, CallInv, Cell!Fill,
        DrbgInstantiated, Goto
  <2>2. ASSUME NEW t \in Threads, GenerateSucceeds(t) PROVE Cell!Draw
    <3>1. drbg # NullCtx /\ local[t] = drbg
      BY <2>2 DEF IInv, CallInv, GenerateSucceeds, Return, Goto
    <3>2. <<local[t], seen[t]>> \notin delivered
      BY <2>2 DEF IInv, DrawInv, TypeOK, DrbgTypeOK, GenerateSucceeds, Return, Goto
    <3> QED
      BY <2>2, <3>1, <3>2 DEF Cell!Draw, GenerateSucceeds, lockVars
  <2>3. CASE Teardown
    <3>1. CASE drbg = NullCtx
      BY <2>3, <3>1 DEF Teardown
    <3>2. CASE drbg # NullCtx
      BY <2>3, <3>2 DEF Teardown, Cell!CellNext, Cell!Close, IInv, TypeOK,
          DrbgTypeOK
    <3> QED
      BY <3>1, <3>2
  <2>4. CASE LoadAlone \/ UNCHANGED vars
    BY <2>4 DEF LoadAlone, vars, drbgVars
  <2>5. ASSUME NEW t \in Threads,
               StartKeyGen(t) \/ FillRandom(t) \/ LockFails(t),
               ~DrbgInstantiated(t), ~GenerateSucceeds(t)
        PROVE  UNCHANGED <<drbg, Retired, delivered>>
    BY <2>5 DEF IInv, TypeOK, DrbgTypeOK, CallInv, FillRandom, DrbgGet,
        LockFails, Goto, Return, lockVars, randVars, StartKeyGen, ReadLock,
        ReadLockFails, ReadDrbg, ReadUnlock, WriteLock, WriteLockFails,
        Recheck, DrbgNewFails, DrbgCtxNew, DrbgInstantiateFails, WriteUnlock,
        GenerateBegin, GenerateFails
  <2> QED
    BY <2>1, <2>2, <2>3, <2>4, <2>5 DEF Next, Cell!CellNext
<1> QED
  BY <1>1, <1>2, Inductive, PTL DEF Spec, ImplementsCell, Cell!CellSpec
=============================================================================
