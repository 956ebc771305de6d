-------------------------- MODULE NNExecutorProofs --------------------------
(* Proofs, for any number of service threads, that IInv is an invariant of    *)
(* NNExecutor, that the safety properties follow from it, and that NNExecutor *)
(* implements ModelLease.                                                     *)
(*                                                                            *)
(* A step leaf that mixes Booleans with sets or arithmetic is split: Zenon    *)
(* takes the Booleans, SMT the rest.                                          *)
EXTENDS NNExecutor, TLAPS

-----------------------------------------------------------------------------
(* Types.                                                                    *)

\* What the helpers of DeinitModel and SetDeinitModelCallBack return: a cache
\* state, and sets of callbacks.
LEMMA HelperTypes ==
  ASSUME TypeOK, NEW m
  PROVE  /\ AfterHasCache \in CacheStates
         /\ Registrations(m) \subseteq SUBSET Callbacks
  BY DEF TypeOK, AfterHasCache, CacheStates, Registrations, Callbacks

\* The executor is constructed with every variable in its type.
LEMMA TypeInit == Init => TypeOK
<1> SUFFICES ASSUME Init PROVE TypeOK
  OBVIOUS
<1>1. pc \in ClientLabels /\ mutex \in Threads \union {Nobody} /\ model \in Models /\ using \in Models
  BY DEF Init, ClientLabels, Models
<1>2. dpc \in [DeinitThreads -> {"off", "called", "locking", "locked", "deinit"}]
  BY DEF Init
<1>3. tasks \in Nat /\ reporters \in 0..MaxReporters /\ registered \in SUBSET Callbacks
  BY ThreadsAssumption DEF Init
<1>4. /\ compilerRef \in BOOLEAN /\ handler \in BOOLEAN /\ needLatency \in BOOLEAN
      /\ dims \in BOOLEAN /\ cachePath \in BOOLEAN /\ alive \in BOOLEAN
  BY Zenon DEF Init
<1>5. cache \in CacheStates
  BY DEF Init, CacheStates
<1>6. /\ config \in {"null", "live", "freed"}
      /\ timer \in {"posted", "failed", "declined"}
      /\ fault \in {"none", "nullModel", "modelFreed", "configFreed", "afterFree"}
  BY DEF Init
<1> QED BY <1>1, <1>2, <1>3, <1>4, <1>5, <1>6 DEF TypeOK

\* A step of the client, a callback, a timer or the cache keeps the types.
LEMMA TypeStep == TypeOK /\ [Next]_vars => TypeOK'
<1> SUFFICES ASSUME TypeOK, [Next]_vars PROVE TypeOK'
  OBVIOUS
<1>1. CASE CompilationDestroy
  <2>1. /\ compilerRef' = FALSE
        /\ UNCHANGED <<pc, dpc, mutex, model, using, tasks, handler, registered, config, needLatency,
                       reporters, dims, cachePath, cache, timer, alive, fault>>
    BY <1>1 DEF CompilationDestroy
  <2> QED BY <2>1, ZenonT(60) DEF TypeOK
<1>2. CASE RunReport
  <2>1. needLatency' \in BOOLEAN /\ pc' \in ClientLabels
    BY <1>2, Zenon DEF RunReport, ClientLabels
  <2>2. reporters' \in 0..MaxReporters
    BY <1>2, ThreadsAssumption DEF RunReport, TypeOK
  <2> QED BY <1>2, <2>1, <2>2, ZenonT(60) DEF TypeOK, RunReport
<1>3. CASE Free
  <2>1. alive' \in BOOLEAN /\ pc' \in ClientLabels
    BY <1>3, Zenon DEF Free, ClientLabels, TornDown
  <2> QED BY <1>3, <2>1, ZenonT(60) DEF TypeOK, Free
<1> USE HelperTypes, ThreadsAssumption
    DEF TypeOK, ClientAt, DeinitAt, UnlockedCalls, LockedRun, TornDown, ClientLabels, Models,
        Threads, DeinitThreads, MutexFree, RemoveTask, PostTask
<1>4. CASE Prepare
  BY <1>4 DEF Prepare
<1>5. CASE PrepareFail
  BY <1>5 DEF PrepareFail
<1>6. CASE RunCall
  BY <1>6 DEF RunCall
<1>7. CASE RunEnter
  BY <1>7 DEF RunEnter
<1>8. CASE RunReload
  BY <1>8 DEF RunReload
<1>9. CASE ReloadFail
  BY <1>9 DEF ReloadFail, RunAbort
<1>10. CASE RunOk
  BY <1>10 DEF RunOk
<1>11. CASE RunFail
  BY <1>11 DEF RunFail, RunAbort
<1>12. CASE UnlockedReturn
  BY <1>12 DEF UnlockedReturn
<1>13. CASE DestroyCall
  BY <1>13 DEF DestroyCall
<1>14. CASE DestroyPreparedModel
  <2>1. tasks' \in Nat
    BY <1>14 DEF DestroyPreparedModel
  <2>2. handler' = FALSE /\ model' = "null" /\ pc' = "delete"
    BY <1>14 DEF DestroyPreparedModel
  <2>3. UNCHANGED <<dpc, mutex, using, compilerRef, registered, config, needLatency,
                    reporters, dims, cachePath, cache, timer, alive, fault>>
    BY <1>14 DEF DestroyPreparedModel
  <2>4. handler' \in BOOLEAN /\ model' \in Models /\ pc' \in ClientLabels
    BY <2>2
  <2> QED BY <2>1, <2>3, <2>4
<1>15. CASE DtorConfig
  BY <1>15 DEF DtorConfig
<1>16. CASE UnSetDeinitModelCallBack
  BY <1>16 DEF UnSetDeinitModelCallBack
<1>17. CASE UnSetHiaiModelCallBack
  BY <1>17 DEF UnSetHiaiModelCallBack
<1>18. ASSUME NEW call \in UnlockedCalls, UnlockedCall(call) PROVE TypeOK'
  BY <1>18 DEF UnlockedCall
<1>19. CASE ReportLatency
  BY <1>19 DEF ReportLatency
<1>20. CASE TimerFires
  BY <1>20 DEF TimerFires
<1>21. ASSUME NEW s \in ServiceThreads, ServiceCalls(s) PROVE TypeOK'
  BY <1>21 DEF ServiceCalls
<1>22. ASSUME NEW d \in DeinitThreads, DeinitPeek(d) PROVE TypeOK'
  BY <1>22 DEF DeinitPeek
<1>23. ASSUME NEW d \in DeinitThreads, DeinitLock(d) PROVE TypeOK'
  BY <1>23 DEF DeinitLock
<1>24. ASSUME NEW d \in DeinitThreads, DeinitDecline(d) PROVE TypeOK'
  BY <1>24 DEF DeinitDecline
<1>25. ASSUME NEW d \in DeinitThreads, DeinitDecide(d) PROVE TypeOK'
  BY <1>25 DEF DeinitDecide
<1>26. ASSUME NEW d \in DeinitThreads, DeinitReset(d) PROVE TypeOK'
  BY <1>26 DEF DeinitReset
<1>27. CASE CacheChanges
  BY <1>27 DEF CacheChanges
<1>28. CASE UNCHANGED vars
  BY <1>28 DEF vars
<1> QED
  BY <1>1, <1>2, <1>3, <1>4, <1>5, <1>6, <1>7, <1>8, <1>9, <1>10, <1>11, <1>12, <1>13, <1>14,
     <1>15, <1>16, <1>17, <1>18, <1>19, <1>20, <1>21, <1>22, <1>23, <1>24, <1>25, <1>26, <1>27, <1>28
  DEF Next, ClientStep, DeinitStep

\* Every variable stays in its type, whatever the client, the timer, the service
\* and the cache do.
THEOREM TypeCorrect == Spec => []TypeOK
  BY TypeInit, TypeStep, PTL DEF Spec

-----------------------------------------------------------------------------
(* The inductive invariant.                                                  *)

\* It holds of an executor that has just been constructed: one task posted, no
\* lock taken, no callback registered.
LEMMA IInvInit == Init => IInv
<1> SUFFICES ASSUME Init PROVE IInv
  OBVIOUS
<1>1. Exclusive
  BY ThreadsAssumption DEF Init, Exclusive, LockedRun, DeinitThreads
<1>2. RunUsesLoadedModel /\ Tasks /\ TimerLostOnlyByFailure
  BY DEF Init, RunUsesLoadedModel, Tasks, TimerLostOnlyByFailure, LockedRun
<1>3. Teardown
  BY DEF Init, Teardown, TornDown
<1>4. Uncached
  BY DEF Init, Uncached
<1> QED BY <1>1, <1>2, <1>3, <1>4, TypeInit DEF IInv

\* Every step keeps it.  The actions that move a lock, a task or a callback are
\* proved part by part.
LEMMA IInvStep == IInv /\ [Next]_vars => IInv'
<1> SUFFICES ASSUME IInv, [Next]_vars PROVE IInv'
  OBVIOUS
<1>t. TypeOK /\ TypeOK'
  BY TypeStep DEF IInv
<1> USE <1>t, ThreadsAssumption
    DEF IInv, ClientAt, DeinitAt, UnlockedCalls, LockedRun, TornDown,
        Threads, DeinitThreads, MutexFree, RemoveTask, PostTask
<1>1. CASE Prepare
  BY <1>1 DEF Exclusive, RunUsesLoadedModel, Tasks, Teardown, Uncached,
         TimerLostOnlyByFailure, Prepare
<1>2. CASE PrepareFail
  BY <1>2 DEF Exclusive, RunUsesLoadedModel, Tasks, Teardown, Uncached,
         TimerLostOnlyByFailure, PrepareFail
<1>3. CASE CompilationDestroy
  BY <1>3 DEF Exclusive, RunUsesLoadedModel, Tasks, Teardown, Uncached,
         TimerLostOnlyByFailure, CompilationDestroy
<1>4. CASE RunCall
  BY <1>4 DEF Exclusive, RunUsesLoadedModel, Tasks, Teardown, Uncached,
         TimerLostOnlyByFailure, RunCall
<1>5. CASE RunEnter
  BY <1>5 DEF Exclusive, RunUsesLoadedModel, Tasks, Teardown, Uncached,
         TimerLostOnlyByFailure, RunEnter
<1>6. CASE RunReload
  BY <1>6 DEF Exclusive, RunUsesLoadedModel, Tasks, Teardown, Uncached,
         TimerLostOnlyByFailure, RunReload
<1>7. CASE ReloadFail
  BY <1>7 DEF Exclusive, RunUsesLoadedModel, Tasks, Teardown, Uncached,
         TimerLostOnlyByFailure, ReloadFail, RunAbort
<1>8. CASE RunOk
  BY <1>8 DEF Exclusive, RunUsesLoadedModel, Tasks, Teardown, Uncached,
         TimerLostOnlyByFailure, RunOk
<1>9. CASE RunFail
  BY <1>9 DEF Exclusive, RunUsesLoadedModel, Tasks, Teardown, Uncached,
         TimerLostOnlyByFailure, RunFail, RunAbort
<1>10. CASE RunReport
  BY <1>10 DEF Exclusive, RunUsesLoadedModel, Tasks, Teardown, Uncached,
         TimerLostOnlyByFailure, RunReport
<1>11. CASE UnlockedReturn
  BY <1>11 DEF Exclusive, RunUsesLoadedModel, Tasks, Teardown, Uncached,
         TimerLostOnlyByFailure, UnlockedReturn
<1>12. CASE DestroyCall
  BY <1>12 DEF Exclusive, RunUsesLoadedModel, Tasks, Teardown, Uncached,
         TimerLostOnlyByFailure, DestroyCall
<1>13. CASE DestroyPreparedModel
  BY <1>13 DEF Exclusive, RunUsesLoadedModel, Tasks, Teardown, Uncached,
         TimerLostOnlyByFailure, DestroyPreparedModel
<1>14. CASE DtorConfig
  BY <1>14 DEF Exclusive, RunUsesLoadedModel, Tasks, Teardown, Uncached,
         TimerLostOnlyByFailure, DtorConfig
<1>15. CASE UnSetDeinitModelCallBack
  <2>1. Exclusive'
    BY <1>15 DEF UnSetDeinitModelCallBack, Exclusive
  <2>2. RunUsesLoadedModel'
    BY <1>15 DEF UnSetDeinitModelCallBack, RunUsesLoadedModel
  <2>3. Tasks'
    BY <1>15 DEF UnSetDeinitModelCallBack, Tasks
  <2>4. Teardown'
    <3>1. pc \in TornDown /\ pc' \in TornDown
      BY <1>15 DEF UnSetDeinitModelCallBack
    <3>2. "deinit" \notin registered' /\ (pc' = "free" => registered' = {})
      BY <1>15 DEF UnSetDeinitModelCallBack, TypeOK, Callbacks, isHiaiModel
    <3>3. tasks' = 0 /\ model' = "null" /\ alive' = alive /\ handler' = handler
      BY <1>15, <3>1 DEF UnSetDeinitModelCallBack, Teardown
    <3> QED BY <1>15, <3>1, <3>2, <3>3 DEF UnSetDeinitModelCallBack, Teardown
  <2>5. Uncached'
    BY <1>15 DEF UnSetDeinitModelCallBack, Uncached
  <2>6. TimerLostOnlyByFailure'
    BY <1>15 DEF UnSetDeinitModelCallBack, TimerLostOnlyByFailure
  <2> QED BY <1>t, <2>1, <2>2, <2>3, <2>4, <2>5, <2>6 DEF IInv
<1>16. CASE UnSetHiaiModelCallBack
  <2>1. Exclusive'
    BY <1>16 DEF UnSetHiaiModelCallBack, Exclusive
  <2>2. RunUsesLoadedModel'
    BY <1>16 DEF UnSetHiaiModelCallBack, RunUsesLoadedModel
  <2>3. Tasks'
    BY <1>16 DEF UnSetHiaiModelCallBack, Tasks
  <2>4. Teardown'
    <3>1. registered' = {}
      BY <1>16 DEF UnSetHiaiModelCallBack, TypeOK, Callbacks, Teardown
    <3> QED BY <1>16, <3>1 DEF UnSetHiaiModelCallBack, Teardown
  <2>5. Uncached'
    BY <1>16 DEF UnSetHiaiModelCallBack, Uncached
  <2>6. TimerLostOnlyByFailure'
    BY <1>16 DEF UnSetHiaiModelCallBack, TimerLostOnlyByFailure
  <2> QED BY <1>t, <2>1, <2>2, <2>3, <2>4, <2>5, <2>6 DEF IInv
<1>17. CASE Free
  BY <1>17 DEF Exclusive, RunUsesLoadedModel, Tasks, Teardown, Uncached,
         TimerLostOnlyByFailure, Free
<1>18. ASSUME NEW call \in UnlockedCalls, UnlockedCall(call) PROVE IInv'
  BY <1>18 DEF Exclusive, RunUsesLoadedModel, Tasks, Teardown, Uncached,
         TimerLostOnlyByFailure, UnlockedCall
<1>19. CASE ReportLatency
  BY <1>19 DEF Exclusive, RunUsesLoadedModel, Tasks, Teardown, Uncached,
         TimerLostOnlyByFailure, ReportLatency
<1>20. CASE TimerFires
  <2>1. Exclusive'
    BY <1>20 DEF TimerFires, Exclusive, TypeOK
  <2>2. RunUsesLoadedModel'
    BY <1>20 DEF TimerFires, RunUsesLoadedModel
  <2>3. Tasks'
    BY <1>20 DEF TimerFires, Tasks, TypeOK
  <2>4. Teardown'
    BY <1>20 DEF TimerFires, Teardown, TypeOK
  <2>5. Uncached'
    BY <1>20 DEF TimerFires, Uncached, TypeOK
  <2>6. TimerLostOnlyByFailure'
    BY <1>20 DEF TimerFires, TimerLostOnlyByFailure, TypeOK
  <2> QED BY <1>t, <2>1, <2>2, <2>3, <2>4, <2>5, <2>6 DEF IInv
<1>21. ASSUME NEW s \in ServiceThreads, ServiceCalls(s) PROVE IInv'
  BY <1>21 DEF Exclusive, RunUsesLoadedModel, Tasks, Teardown, Uncached,
         TimerLostOnlyByFailure, ServiceCalls
<1>22. ASSUME NEW d \in DeinitThreads, DeinitPeek(d) PROVE IInv'
  BY <1>22 DEF Exclusive, RunUsesLoadedModel, Tasks, Teardown, Uncached,
         TimerLostOnlyByFailure, DeinitPeek
<1>23. ASSUME NEW d \in DeinitThreads, DeinitLock(d) PROVE IInv'
  <2>1. Exclusive'
    BY <1>23 DEF DeinitLock, Exclusive, TypeOK
  <2>2. RunUsesLoadedModel'
    BY <1>23 DEF DeinitLock, RunUsesLoadedModel
  <2>3. Tasks'
    BY <1>23 DEF DeinitLock, Tasks, TypeOK
  <2>4. Teardown'
    BY <1>23 DEF DeinitLock, Teardown
  <2>5. Uncached'
    BY <1>23 DEF DeinitLock, Uncached, TypeOK
  <2>6. TimerLostOnlyByFailure'
    BY <1>23 DEF DeinitLock, TimerLostOnlyByFailure, TypeOK
  <2> QED BY <1>t, <2>1, <2>2, <2>3, <2>4, <2>5, <2>6 DEF IInv
<1>24. ASSUME NEW d \in DeinitThreads, DeinitDecline(d) PROVE IInv'
  <2>1. Exclusive'
    BY <1>24 DEF DeinitDecline, Exclusive, TypeOK
  <2>2. RunUsesLoadedModel'
    BY <1>24 DEF DeinitDecline, RunUsesLoadedModel
  <2>3. Tasks'
    BY <1>24 DEF DeinitDecline, Tasks, TypeOK
  <2>4. Teardown'
    BY <1>24 DEF DeinitDecline, Teardown
  <2>5. Uncached'
    BY <1>24 DEF DeinitDecline, Uncached, TypeOK, AfterHasCache
  <2>6. TimerLostOnlyByFailure'
    BY <1>24 DEF DeinitDecline, TimerLostOnlyByFailure, TypeOK
  <2> QED BY <1>t, <2>1, <2>2, <2>3, <2>4, <2>5, <2>6 DEF IInv
<1>25. ASSUME NEW d \in DeinitThreads, DeinitDecide(d) PROVE IInv'
  <2>1. Exclusive'
    BY <1>25 DEF DeinitDecide, Exclusive, TypeOK
  <2>2. RunUsesLoadedModel'
    BY <1>25 DEF DeinitDecide, RunUsesLoadedModel
  <2>3. Tasks'
    BY <1>25 DEF DeinitDecide, Tasks, TypeOK
  <2>4. Teardown'
    BY <1>25 DEF DeinitDecide, Teardown
  <2>5. Uncached'
    BY <1>25 DEF DeinitDecide, Uncached, TypeOK, HasCache
  <2>6. TimerLostOnlyByFailure'
    BY <1>25 DEF DeinitDecide, TimerLostOnlyByFailure, TypeOK
  <2> QED BY <1>t, <2>1, <2>2, <2>3, <2>4, <2>5, <2>6 DEF IInv
<1>26. ASSUME NEW d \in DeinitThreads, DeinitReset(d) PROVE IInv'
  <2>1. Exclusive'
    BY <1>26 DEF DeinitReset, Exclusive, TypeOK
  <2>2. RunUsesLoadedModel'
    BY <1>26 DEF DeinitReset, RunUsesLoadedModel, Exclusive
  <2>3. Tasks'
    BY <1>26 DEF DeinitReset, Tasks, TypeOK
  <2>4. Teardown'
    BY <1>26 DEF DeinitReset, Teardown, TypeOK
  <2>5. Uncached'
    BY <1>26 DEF DeinitReset, Uncached, TypeOK
  <2>6. TimerLostOnlyByFailure'
    BY <1>26 DEF DeinitReset, TimerLostOnlyByFailure, TypeOK
  <2> QED BY <1>t, <2>1, <2>2, <2>3, <2>4, <2>5, <2>6 DEF IInv
<1>27. CASE CacheChanges
  BY <1>27 DEF Exclusive, RunUsesLoadedModel, Tasks, Teardown, Uncached,
         TimerLostOnlyByFailure, CacheChanges
<1>28. CASE UNCHANGED vars
  BY <1>28 DEF Exclusive, RunUsesLoadedModel, Tasks, Teardown, Uncached,
         TimerLostOnlyByFailure, vars
<1> QED
  BY <1>1, <1>2, <1>3, <1>4, <1>5, <1>6, <1>7, <1>8, <1>9, <1>10, <1>11, <1>12, <1>13, <1>14,
     <1>15, <1>16, <1>17, <1>18, <1>19, <1>20, <1>21, <1>22, <1>23, <1>24, <1>25, <1>26, <1>27, <1>28
  DEF Next, ClientStep, DeinitStep

\* In every reachable state the lock, the tasks, the stages of the destruction and
\* the cache stand in the relation IInv states.
THEOREM Invariant == Spec => []IInv
  BY IInvInit, IInvStep, PTL DEF Spec

-----------------------------------------------------------------------------
(* What follows from it.                                                     *)

\* The model RunSync works on is there until the run is over, however the timer,
\* the service and the other runs interleave.
THEOREM RunsAreSafe == Spec => []RunUsesLoadedModel
<1>1. IInv => RunUsesLoadedModel
  BY DEF IInv
<1> QED BY <1>1, Invariant, PTL

\* RunSync leaves at most one auto-unload task behind.
THEOREM OneTask == Spec => []SingleAutoUnloadTask
<1>1. IInv => SingleAutoUnloadTask
  BY DEF IInv, Tasks, SingleAutoUnloadTask
<1> QED BY <1>1, Invariant, PTL

\* An executor without a cache path keeps the built model until it is destroyed.
THEOREM UncachedStays == Spec => []UncachedModelStaysLoaded
<1>1. IInv => UncachedModelStaysLoaded
  BY DEF IInv, Uncached, UncachedModelStaysLoaded
<1> QED BY <1>1, Invariant, PTL

\* The unload timer of a loaded model is lost only to a failed run or a cache that
\* was missing when it fired.
THEOREM TimerKept == Spec => []TimerLostOnlyByFailure
<1>1. IInv => TimerLostOnlyByFailure
  BY DEF IInv
<1> QED BY <1>1, Invariant, PTL

\* Neither the event queue nor the service starts DeinitModel on a freed executor.
THEOREM NoLateDeinit == Spec => DeinitEntersLiveExecutor
<1> DEFINE Entry == \A d \in DeinitThreads : dpc[d] = "off" /\ dpc'[d] = "called" => alive
<1>1. IInv /\ [Next]_vars => [Entry]_vars
  <2> SUFFICES ASSUME IInv, Next, NEW d \in DeinitThreads, dpc[d] = "off", dpc'[d] = "called"
               PROVE alive
    OBVIOUS
  <2>1. TypeOK /\ Teardown
    BY DEF IInv
  <2>2. (TimerFires \/ \E s \in ServiceThreads : ServiceCalls(s)) => alive
    BY <2>1 DEF TypeOK, Teardown, TornDown, TimerFires, ServiceCalls
  <2>3. ~ClientStep
    BY DEF ClientStep, Prepare, PrepareFail, CompilationDestroy, RunCall, RunEnter, RunReload,
           ReloadFail, RunOk, RunFail, RunAbort, RunReport, UnlockedCall, UnlockedReturn,
           DestroyCall, DestroyPreparedModel, DtorConfig, UnSetDeinitModelCallBack,
           UnSetHiaiModelCallBack, Free
  <2>4. ~ReportLatency /\ ~CacheChanges
    BY DEF ReportLatency, CacheChanges
  <2>5. ASSUME NEW e \in DeinitThreads, DeinitStep(e) PROVE FALSE
    BY <2>1, <2>5 DEF TypeOK, DeinitStep, DeinitAt, DeinitPeek, DeinitLock, DeinitDecline,
                      DeinitDecide, DeinitReset
  <2> QED BY <2>2, <2>3, <2>4, <2>5 DEF Next
<1> QED BY <1>1, Invariant, PTL DEF Spec, DeinitEntersLiveExecutor

-----------------------------------------------------------------------------
(* The refinement.                                                           *)

\* A constructed executor has a loaded model that nobody runs.
LEMMA LeaseInit == Init => Lease!Init
  BY DEF Init, Lease!Init, TornDown

\* Every step acquires, releases, unloads or destroys the lease, or leaves it alone.
LEMMA LeaseStep == IInv /\ [Next]_vars => [Lease!Next]_(Lease!vars)
<1> SUFFICES ASSUME IInv, [Next]_vars PROVE [Lease!Next]_(Lease!vars)
  OBVIOUS
<1>inv. TypeOK /\ Exclusive /\ Teardown /\ RunUsesLoadedModel
  BY DEF IInv
<1> DEFINE lease == IF pc \in TornDown THEN "gone" ELSE IF model = "null" THEN "unloaded" ELSE "loaded"
<1> USE DEF Lease!vars
<1>1. CASE RunEnter
  <2>1. lease' = lease /\ pc # "exec" /\ pc \notin TornDown /\ (pc' = "exec" => model # "null")
    BY <1>1 DEF RunEnter, ClientAt, TornDown
  <2> QED BY <1>1, <2>1 DEF Lease!Next, Lease!Acquire, TornDown
<1>2. CASE RunReload
  BY <1>2 DEF RunReload, ClientAt, TornDown, Lease!Next, Lease!Acquire
<1>3. CASE RunOk
  BY <1>3 DEF RunOk, ClientAt, TornDown, Lease!Next, Lease!Release
<1>4. CASE RunFail
  BY <1>4 DEF RunFail, RunAbort, ClientAt, TornDown, Lease!Next, Lease!Release
<1>5. CASE DestroyPreparedModel
  BY <1>5 DEF DestroyPreparedModel, ClientAt, TornDown, Lease!Next, Lease!Destroy
<1>6. ASSUME NEW d \in DeinitThreads, DeinitReset(d) PROVE [Lease!Next]_(Lease!vars)
  <2>1. mutex = d /\ pc # "exec"
    BY <1>6, <1>inv, ThreadsAssumption DEF DeinitReset, DeinitAt, Exclusive, LockedRun, DeinitThreads
  <2> QED BY <1>6, <2>1 DEF DeinitReset, TornDown, Lease!Next, Lease!Unload
<1>7. CASE UNCHANGED vars
  BY <1>7 DEF vars
<1>8. ASSUME ClientStep, ~RunEnter, ~RunReload, ~RunOk, ~RunFail, ~DestroyPreparedModel
      PROVE UNCHANGED Lease!vars
  BY <1>8, <1>inv DEF ClientStep, Prepare, PrepareFail, CompilationDestroy, RunCall, ReloadFail, RunAbort,
       RunReport, UnlockedCall, UnlockedReturn, UnlockedCalls, DestroyCall, DtorConfig,
       UnSetDeinitModelCallBack, UnSetHiaiModelCallBack, Free, ClientAt, TornDown
<1>9. CASE ReportLatency \/ TimerFires \/ CacheChanges
  BY <1>9 DEF ReportLatency, TimerFires, CacheChanges
<1>10. ASSUME NEW s \in ServiceThreads, ServiceCalls(s) PROVE UNCHANGED Lease!vars
  BY <1>10 DEF ServiceCalls
<1>11. ASSUME NEW d \in DeinitThreads, DeinitStep(d), ~DeinitReset(d) PROVE UNCHANGED Lease!vars
  BY <1>11 DEF DeinitStep, DeinitPeek, DeinitLock, DeinitDecline, DeinitDecide
<1> QED BY <1>1, <1>2, <1>3, <1>4, <1>5, <1>6, <1>7, <1>8, <1>9, <1>10, <1>11 DEF Next

\* NNExecutor implements ModelLease: a model is never unloaded or destroyed under a
\* run, a run never starts on a destroyed one, and only a run brings it back.
THEOREM ImplementsLease == Spec => LeaseSpec
  BY LeaseInit, LeaseStep, Invariant, PTL DEF Spec, LeaseSpec, Lease!Spec
=============================================================================
