----------------------------- MODULE NNExecutor -----------------------------
(***************************************************************************)
(* The life of one NNExecutor: who may use its prepared model, when the    *)
(* model is unloaded behind the client's back, and how the executor is     *)
(* torn down.                                                              *)
(*                                                                         *)
(* The public headers allow one client thread.  The concurrency is the     *)
(* runtime's own: the event runner of the executor fires the ten-minute    *)
(* "DelayUnload" task, threads of the scheduling service call DeinitModel  *)
(* through the registered callbacks, and a detached thread reports the     *)
(* latency of a run.  RunSync, DeinitModel and DestroyPreparedModel take   *)
(* m_mutex; the calls named in UnlockedCalls do not.                       *)
(*                                                                         *)
(* RunSyncWithAipp has the same control as RunSync (its extra call,        *)
(* SetAippString, only adds one more way to fail), so the Run* actions     *)
(* stand for both.  A step that dereferences a null or a freed object sets *)
(* fault, and nothing happens after a fault.                               *)
(***************************************************************************)
EXTENDS Naturals

CONSTANTS
  Client,          \* the one thread that calls the API
  Runner,          \* the thread of m_autoUnloadRunner
  ServiceThreads,  \* threads on which the scheduling service calls back
  Nobody,          \* owner of a free m_mutex
  MaxReporters     \* bound: latency reports outstanding at once

ASSUME ThreadsAssumption ==
  /\ Runner \notin ServiceThreads
  /\ Client \notin ServiceThreads \union {Runner}
  /\ Nobody \notin ServiceThreads \union {Runner, Client}
  /\ MaxReporters \in Nat \ {0}

VARIABLES
  pc,           \* where the client is (see ClientLabels)
  dpc,          \* dpc[d]: where thread d is inside DeinitModel
  mutex,        \* owner of m_mutex
  model,        \* m_preparedModel: null, the compiler's, or one reloaded from the cache
  using,        \* the model an unlocked call of the client works on
  compilerRef,  \* the NNCompiler still holds its reference to the built model
  tasks,        \* "nnexecutor_autounload" tasks waiting in the event queue
  handler,      \* m_autoUnloadHandler # nullptr
  registered,   \* callbacks of this executor the service holds
  config,       \* m_executorConfig
  needLatency,  \* m_executorConfig->isNeedModelLatency
  reporters,    \* detached UpdateModelLatency threads that have not read config yet
  dims,         \* m_minInputDimsVec is not empty
  cachePath,    \* m_cachePath is set, with a valid m_cacheVersion
  cache,        \* the model's files in that directory (see CacheStates)
  timer,        \* history: what last decided whether a task is pending
  alive,        \* the storage of the executor has not been freed
  fault         \* the first invalid access, if any

vars == <<pc, dpc, mutex, model, using, compilerRef, tasks, handler, registered,
          config, needLatency, reporters, dims, cachePath, cache, timer, alive, fault>>

DeinitThreads == {Runner} \union ServiceThreads
Threads == DeinitThreads \union {Client}

\* The calls that use m_preparedModel without taking m_mutex.
UnlockedCalls == {"GetInputDimRange", "SetInput", "Run"}
LockedRun == {"reload", "exec"}
TornDown  == {"delete", "unset", "unsetHiai", "free", "done"}
ClientLabels  == {"prepare", "idle", "run", "report", "destroy"}
               \union UnlockedCalls \union LockedRun \union TornDown

\* usable: both OH_NNModel_HasCache and NNCompiledCache::Restore accept it;
\* corrupt: a valid cache_info over damaged model files, which only Restore
\* notices; malformed: a cache_info HasCache rejects and deletes.
CacheStates == {"absent", "usable", "corrupt", "malformed"}
Models == {"null", "built", "reloaded"}
Callbacks == {"deinit", "hiai"}

Init ==
  /\ pc = "prepare"
  /\ dpc = [d \in DeinitThreads |-> "off"]
  /\ mutex = Nobody
  /\ model = "built"
  /\ using = "null"
  /\ compilerRef = TRUE
  /\ tasks = 1
  /\ handler = TRUE
  /\ registered = {}
  /\ config = "null"
  /\ needLatency = FALSE
  /\ reporters = 0
  /\ dims = FALSE
  /\ cachePath \in BOOLEAN
  /\ cache \in IF cachePath THEN CacheStates ELSE {"absent"}
  /\ timer = "posted"
  /\ alive = TRUE
  /\ fault = "none"

-----------------------------------------------------------------------------
(* What the steps share.                                                   *)

ClientAt(label) == fault = "none" /\ pc = label
DeinitAt(d, label) == fault = "none" /\ dpc[d] = label

\* Mutant: the lock_guard is left out.
NoMutex == TRUE
\* std::lock_guard on m_mutex.
MutexFree == mutex = Nobody

\* Mutant: the task's name does not match.
RemoveNothing == tasks
\* RemoveTask drops every pending task with this executor's name; a task that is
\* already being executed is not affected.
RemoveTask == 0

\* Mutant: the task is not posted.
PostNothing == tasks
PostTask == tasks + 1

\* Mutant: the flag is never set.
NotHiaiModel == FALSE
\* isHiaiModel: SetHiaiModelCallBack has succeeded.
isHiaiModel == "hiai" \in registered

\* Mutant: the directory is taken for a complete cache.
AnyCache == TRUE
\* OH_NNModel_HasCache: its verdict, and its side effect on a bad cache_info.
HasCache == cache \in {"usable", "corrupt"}
AfterHasCache == IF cache = "malformed" THEN "absent" ELSE cache

\* SetDeinitModelCallBack with prepared model m: nothing, the callback, or also
\* the one of the HiAI processes (only when the executor has a cache path).
Registrations(m) ==
  IF m = "null" THEN {registered}
  ELSE {registered, registered \union {"deinit"}}
         \union (IF cachePath THEN {registered \union Callbacks} ELSE {})

\* The model object that an unlocked call works on has lost its last reference.
ModelFreed == /\ model # using
              /\ ~(using = "built" /\ compilerRef)

-----------------------------------------------------------------------------
(* The client: construction, runs, unlocked calls.                         *)

\* ExecutorPrepare: SetModelID, Scheduling, SetExtensionConfig, SetDeinitModelCallBack.
Prepare ==
  /\ ClientAt("prepare")
  /\ pc' = "idle"
  /\ config' = "live"
  /\ needLatency' \in BOOLEAN
  /\ registered' \in Registrations(model)
  /\ UNCHANGED <<dpc, mutex, model, using, compilerRef, tasks, handler, reporters,
                 dims, cachePath, cache, timer, alive, fault>>

\* A service call fails before or after the configuration is allocated: the
\* executor is destroyed by OH_NNExecutor_Construct itself.
PrepareFail ==
  /\ ClientAt("prepare")
  /\ pc' = "destroy"
  /\ config' \in {"null", "live"}
  /\ registered' \in IF config' = "live" THEN Registrations(model) ELSE {registered}
  /\ UNCHANGED <<dpc, mutex, model, using, compilerRef, tasks, handler, needLatency,
                 reporters, dims, cachePath, cache, timer, alive, fault>>

\* OH_NNCompilation_Destroy drops the compiler's reference to the built model.
CompilationDestroy ==
  /\ ClientAt("idle")
  /\ compilerRef
  /\ compilerRef' = FALSE
  /\ UNCHANGED <<pc, dpc, mutex, model, using, tasks, handler, registered, config,
                 needLatency, reporters, dims, cachePath, cache, timer, alive, fault>>

\* OH_NNExecutor_RunSync, up to the lock.
RunCall ==
  /\ ClientAt("idle")
  /\ config = "live"
  /\ pc' = "run"
  /\ UNCHANGED <<dpc, mutex, model, using, compilerRef, tasks, handler, registered, config,
                 needLatency, reporters, dims, cachePath, cache, timer, alive, fault>>

\* Lock, remove the pending task, compare the numbers of tensors.
RunEnter ==
  /\ ClientAt("run")
  /\ MutexFree
  /\ tasks' = RemoveTask
  /\ \/ /\ pc' = IF model = "null" THEN "reload" ELSE "exec"
        /\ mutex' = Client
        /\ UNCHANGED timer
     \/ /\ pc' = "idle"
        /\ timer' = "failed"
        /\ UNCHANGED mutex
  /\ UNCHANGED <<dpc, model, using, compilerRef, handler, registered, config,
                 needLatency, reporters, dims, cachePath, cache, alive, fault>>

\* Mutant: an early return keeps the lock.
AbortLocked ==
  /\ pc' = "idle"
  /\ timer' = "failed"
  /\ UNCHANGED <<mutex, dpc, model, using, compilerRef, tasks, handler, registered, config,
                 needLatency, reporters, dims, cachePath, cache, alive, fault>>

\* Every early return of the locked part: the lock is released, no task is posted.
RunAbort ==
  /\ pc' = "idle"
  /\ mutex' = Nobody
  /\ timer' = "failed"
  /\ UNCHANGED <<dpc, model, using, compilerRef, tasks, handler, registered, config,
                 needLatency, reporters, dims, cachePath, cache, alive, fault>>

\* Reload succeeds, ReinitScheduling may ask for a latency report, and the
\* callbacks are registered again; failures of the last two are only logged.
RunReload ==
  /\ ClientAt("reload")
  /\ cachePath
  /\ cache = "usable"
  /\ model' = "reloaded"
  /\ needLatency' \in BOOLEAN
  /\ registered' \in Registrations("reloaded")
  /\ pc' = "exec"
  /\ UNCHANGED <<dpc, mutex, using, compilerRef, tasks, handler, config, reporters,
                 dims, cachePath, cache, timer, alive, fault>>

\* Restore, the descriptors or the device's PrepareModelFromModelCache fail.
ReloadFail ==
  /\ ClientAt("reload")
  /\ RunAbort

\* The device runs the model; the unload timer is armed again.
RunOk ==
  /\ ClientAt("exec")
  /\ pc' = "report"
  /\ mutex' = Nobody
  /\ tasks' = PostTask
  /\ timer' = "posted"
  /\ UNCHANGED <<dpc, model, using, compilerRef, handler, registered, config,
                 needLatency, reporters, dims, cachePath, cache, alive, fault>>

\* Dimension ranges, null tensors, the device, or the output shapes fail.
RunFail ==
  /\ ClientAt("exec")
  /\ RunAbort

\* The tail of RunSync in the core: report the latency once per request.
RunReport ==
  /\ ClientAt("report")
  /\ needLatency => reporters < MaxReporters
  /\ reporters' = IF needLatency THEN reporters + 1 ELSE reporters
  /\ needLatency' = FALSE
  /\ pc' = "idle"
  /\ UNCHANGED <<dpc, mutex, model, using, compilerRef, tasks, handler, registered, config,
                 dims, cachePath, cache, timer, alive, fault>>

\* The detached UpdateModelLatency reads the configuration through the raw pointer.
ReportLatency ==
  /\ fault = "none"
  /\ reporters > 0
  /\ reporters' = reporters - 1
  /\ fault' = IF config = "freed" THEN "configFreed" ELSE fault
  /\ UNCHANGED <<pc, dpc, mutex, model, using, compilerRef, tasks, handler, registered,
                 config, needLatency, dims, cachePath, cache, timer, alive>>

\* OH_NNExecutor_GetInputDimRange (until the ranges are cached) and the calls of
\* the older API: dereference m_preparedModel without the lock.
UnlockedCall(call) ==
  /\ ClientAt("idle")
  /\ call = "GetInputDimRange" => ~dims
  /\ pc' = call
  /\ using' = model
  /\ fault' = IF model = "null" THEN "nullModel" ELSE fault
  /\ UNCHANGED <<dpc, mutex, model, compilerRef, tasks, handler, registered, config,
                 needLatency, reporters, dims, cachePath, cache, timer, alive>>

\* The device returns into the model object, which may be gone by now.
UnlockedReturn ==
  /\ \E call \in UnlockedCalls : ClientAt(call)
  /\ pc' = IF ModelFreed THEN pc ELSE "idle"
  /\ fault' = IF ModelFreed THEN "modelFreed" ELSE fault
  /\ using' = "null"
  /\ dims' \in IF pc = "GetInputDimRange" THEN BOOLEAN ELSE {dims}
  /\ UNCHANGED <<dpc, mutex, model, compilerRef, tasks, handler, registered, config,
                 needLatency, reporters, cachePath, cache, timer, alive>>

-----------------------------------------------------------------------------
(* OH_NNExecutor_Destroy and ~NNExecutor.                                  *)

\* Look up the backend, tell the service (Unload), then wait for m_mutex.
DestroyCall ==
  /\ ClientAt("idle")
  /\ pc' = "destroy"
  /\ UNCHANGED <<dpc, mutex, model, using, compilerRef, tasks, handler, registered, config,
                 needLatency, reporters, dims, cachePath, cache, timer, alive, fault>>

DestroyPreparedModel ==
  /\ ClientAt("destroy")
  /\ MutexFree
  /\ tasks' = IF handler THEN RemoveTask ELSE tasks
  /\ handler' = FALSE
  /\ model' = "null"
  /\ pc' = "delete"
  /\ UNCHANGED <<dpc, mutex, using, compilerRef, registered, config, needLatency,
                 reporters, dims, cachePath, cache, timer, alive, fault>>

\* ~NNExecutor releases the inner buffers and deletes the configuration ...
DtorConfig ==
  /\ ClientAt("delete")
  /\ config' = IF config = "live" THEN "freed" ELSE config
  /\ pc' = "unset"
  /\ UNCHANGED <<dpc, mutex, model, using, compilerRef, tasks, handler, registered,
                 needLatency, reporters, dims, cachePath, cache, timer, alive, fault>>

\* ... withdraws the callback of the scheduling service ...
UnSetDeinitModelCallBack ==
  /\ ClientAt("unset")
  /\ registered' = registered \ {"deinit"}
  /\ pc' = IF isHiaiModel THEN "unsetHiai" ELSE "free"
  /\ UNCHANGED <<dpc, mutex, model, using, compilerRef, tasks, handler, config,
                 needLatency, reporters, dims, cachePath, cache, timer, alive, fault>>

\* ... and, if isHiaiModel, the one of the HiAI processes ...
UnSetHiaiModelCallBack ==
  /\ ClientAt("unsetHiai")
  /\ registered' = registered \ {"hiai"}
  /\ pc' = "free"
  /\ UNCHANGED <<dpc, mutex, model, using, compilerRef, tasks, handler, config,
                 needLatency, reporters, dims, cachePath, cache, timer, alive, fault>>

\* ... and the storage goes back to the heap.
Free ==
  /\ ClientAt("free")
  /\ alive' = FALSE
  /\ pc' = "done"
  /\ UNCHANGED <<dpc, mutex, model, using, compilerRef, tasks, handler, registered, config,
                 needLatency, reporters, dims, cachePath, cache, timer, fault>>

-----------------------------------------------------------------------------
(* DeinitModel, on the event runner or on a service thread.                *)

\* The ten minutes are over: the runner takes the task off the queue.
TimerFires ==
  /\ tasks > 0
  /\ DeinitAt(Runner, "off")
  /\ tasks' = tasks - 1
  /\ dpc' = [dpc EXCEPT ![Runner] = "called"]
  /\ UNCHANGED <<pc, mutex, model, using, compilerRef, handler, registered, config,
                 needLatency, reporters, dims, cachePath, cache, timer, alive, fault>>

\* The service calls back with FrozenDeinit or HiaiAutoUnload.
ServiceCalls(s) ==
  /\ registered # {}
  /\ DeinitAt(s, "off")
  /\ dpc' = [dpc EXCEPT ![s] = "called"]
  /\ UNCHANGED <<pc, mutex, model, using, compilerRef, tasks, handler, registered, config,
                 needLatency, reporters, dims, cachePath, cache, timer, alive, fault>>

\* The unlocked test of m_preparedModel.
DeinitPeek(d) ==
  /\ DeinitAt(d, "called")
  /\ fault' = IF alive THEN fault ELSE "afterFree"
  /\ dpc' = [dpc EXCEPT ![d] = IF model = "null" THEN "off" ELSE "locking"]
  /\ UNCHANGED <<pc, mutex, model, using, compilerRef, tasks, handler, registered, config,
                 needLatency, reporters, dims, cachePath, cache, timer, alive>>

DeinitLock(d) ==
  /\ DeinitAt(d, "locking")
  /\ MutexFree
  /\ mutex' = d
  /\ dpc' = [dpc EXCEPT ![d] = "locked"]
  /\ fault' = IF alive THEN fault ELSE "afterFree"
  /\ UNCHANGED <<pc, model, using, compilerRef, tasks, handler, registered, config,
                 needLatency, reporters, dims, cachePath, cache, timer, alive>>

\* Mutant: the pending task is removed before the decision to decline.
DeclineRemovesTask(d) ==
  /\ DeinitAt(d, "locked")
  /\ model = "null" \/ ~HasCache
  /\ cache' = IF model = "null" THEN cache ELSE AfterHasCache
  /\ tasks' = 0
  /\ mutex' = Nobody
  /\ dpc' = [dpc EXCEPT ![d] = "off"]
  /\ fault' = IF alive THEN fault ELSE "afterFree"
  /\ UNCHANGED <<pc, model, using, compilerRef, handler, registered, config, timer,
                 needLatency, reporters, dims, cachePath, alive>>

\* The model is gone already, or it could not be loaded again: leave it alone.
DeinitDecline(d) ==
  /\ DeinitAt(d, "locked")
  /\ model = "null" \/ ~HasCache
  /\ cache' = IF model = "null" THEN cache ELSE AfterHasCache
  /\ timer' = IF d = Runner /\ model # "null" THEN "declined" ELSE timer
  /\ mutex' = Nobody
  /\ dpc' = [dpc EXCEPT ![d] = "off"]
  /\ fault' = IF alive THEN fault ELSE "afterFree"
  /\ UNCHANGED <<pc, model, using, compilerRef, tasks, handler, registered, config,
                 needLatency, reporters, dims, cachePath, alive>>

\* Mutant: the lock is released around the call of the service.
DecideUnlocks(d) ==
  /\ DeinitAt(d, "locked")
  /\ model # "null"
  /\ HasCache
  /\ mutex' = Nobody
  /\ dpc' = [dpc EXCEPT ![d] = "deinit"]
  /\ UNCHANGED <<pc, model, using, compilerRef, tasks, handler, registered, config,
                 needLatency, reporters, dims, cachePath, cache, timer, alive, fault>>

\* The cache is there: go on to tell the service (DeinitScheduling).
DeinitDecide(d) ==
  /\ DeinitAt(d, "locked")
  /\ model # "null"
  /\ HasCache
  /\ dpc' = [dpc EXCEPT ![d] = "deinit"]
  /\ UNCHANGED <<pc, mutex, model, using, compilerRef, tasks, handler, registered, config,
                 needLatency, reporters, dims, cachePath, cache, timer, alive, fault>>

\* Unload; the service modes also remove the pending task.
DeinitReset(d) ==
  /\ DeinitAt(d, "deinit")
  /\ model' = "null"
  /\ tasks' = IF d # Runner /\ handler THEN RemoveTask ELSE tasks
  /\ mutex' = Nobody
  /\ dpc' = [dpc EXCEPT ![d] = "off"]
  /\ UNCHANGED <<pc, using, compilerRef, handler, registered, config, needLatency,
                 reporters, dims, cachePath, cache, timer, alive, fault>>

\* Other compilations, users and file systems change the cache directory.
CacheChanges ==
  /\ fault = "none"
  /\ cachePath
  /\ cache' \in CacheStates \ {cache}
  /\ UNCHANGED <<pc, dpc, mutex, model, using, compilerRef, tasks, handler, registered,
                 config, needLatency, reporters, dims, cachePath, timer, alive, fault>>

-----------------------------------------------------------------------------
ClientStep ==
  \/ Prepare \/ PrepareFail \/ CompilationDestroy
  \/ RunCall \/ RunEnter \/ RunReload \/ ReloadFail \/ RunOk \/ RunFail \/ RunReport
  \/ \E call \in UnlockedCalls : UnlockedCall(call)
  \/ UnlockedReturn
  \/ DestroyCall \/ DestroyPreparedModel
  \/ DtorConfig \/ UnSetDeinitModelCallBack \/ UnSetHiaiModelCallBack \/ Free

DeinitStep(d) ==
  DeinitPeek(d) \/ DeinitLock(d) \/ DeinitDecline(d) \/ DeinitDecide(d) \/ DeinitReset(d)

Next ==
  \/ ClientStep
  \/ ReportLatency
  \/ TimerFires
  \/ \E s \in ServiceThreads : ServiceCalls(s)
  \/ \E d \in DeinitThreads : DeinitStep(d)
  \/ CacheChanges

\* The client finishes the call it is in, timers fire, threads keep running; the
\* client need not call anything, nor the service, nor the cache change.
ClientProgress ==
  \/ RunEnter \/ RunReload \/ ReloadFail \/ RunOk \/ RunFail \/ RunReport \/ UnlockedReturn
  \/ DestroyPreparedModel
  \/ DtorConfig \/ UnSetDeinitModelCallBack \/ UnSetHiaiModelCallBack \/ Free

Spec == Init /\ [][Next]_vars

FairSpec ==
  /\ Spec
  /\ WF_vars(ClientProgress)
  /\ WF_vars(ReportLatency)
  /\ WF_vars(TimerFires)
  /\ \A d \in DeinitThreads : WF_vars(DeinitStep(d))

-----------------------------------------------------------------------------
(* Properties.                                                             *)

TypeOK ==
  /\ pc \in ClientLabels
  /\ dpc \in [DeinitThreads -> {"off", "called", "locking", "locked", "deinit"}]
  /\ mutex \in Threads \union {Nobody}
  /\ model \in Models
  /\ using \in Models
  /\ compilerRef \in BOOLEAN
  /\ tasks \in Nat
  /\ handler \in BOOLEAN
  /\ registered \in SUBSET Callbacks
  /\ config \in {"null", "live", "freed"}
  /\ needLatency \in BOOLEAN
  /\ reporters \in 0..MaxReporters
  /\ dims \in BOOLEAN
  /\ cachePath \in BOOLEAN
  /\ cache \in CacheStates
  /\ timer \in {"posted", "failed", "declined"}
  /\ alive \in BOOLEAN
  /\ fault \in {"none", "nullModel", "modelFreed", "configFreed", "afterFree"}

\* RunSync runs a loaded model: while it checks the dimensions and waits for the
\* device, neither the timer nor the service has taken m_preparedModel away,
\* although both may have passed their unlocked test of it before.
RunUsesLoadedModel == pc = "exec" => model # "null"

\* RunSync removes the task it finds before it posts one: a second task would
\* unload a model ten minutes after an older run.
SingleAutoUnloadTask == tasks <= 1

\* DeinitModel is never called on an executor whose storage is freed: nothing is
\* left in the event queue and no callback is left with the service.  (A call
\* that began earlier may still be inside; see the README.)
DeinitEntersLiveExecutor ==
  [][\A d \in DeinitThreads : dpc[d] = "off" /\ dpc'[d] = "called" => alive]_vars

\* Without a cache to reload it from, the model is never unloaded before Destroy.
UncachedModelStaysLoaded == ~cachePath /\ pc \notin TornDown => model = "built"

\* A loaded model that nobody runs has its unload timer armed or just firing,
\* unless the last run failed or the timer fired while the cache was missing:
\* the code loses the timer in no other way.
TimerLostOnlyByFailure ==
  /\ pc \notin LockedRun \union TornDown
  /\ model # "null"
  => tasks > 0 \/ dpc[Runner] # "off" \/ timer \in {"failed", "declined"}

\* The inductive invariant behind the safety properties, part by part.
\* m_mutex is held exactly by the threads inside its critical sections.
Exclusive ==
  /\ pc \in LockedRun <=> mutex = Client
  /\ \A d \in DeinitThreads : dpc[d] \in {"locked", "deinit"} <=> mutex = d

\* No task is pending while the client is in RunSync's critical section.
Tasks == tasks <= 1 /\ (pc \in LockedRun => tasks = 0)

\* The stages of the destruction: DestroyPreparedModel stops the timer and drops
\* the model; ~NNExecutor withdraws every callback before the storage goes.
Teardown ==
  /\ handler <=> pc \notin TornDown
  /\ pc \in TornDown => tasks = 0 /\ model = "null"
  /\ pc = "unsetHiai" => "deinit" \notin registered
  /\ pc \in {"free", "done"} => registered = {}
  /\ alive <=> pc # "done"

\* Without a cache path there is no cache, so no DeinitModel gets to unload.
Uncached ==
  ~cachePath =>
    /\ cache = "absent"
    /\ \A d \in DeinitThreads : dpc[d] # "deinit"
    /\ pc \notin TornDown => model = "built"

IInv ==
  /\ TypeOK
  /\ Exclusive
  /\ RunUsesLoadedModel
  /\ Tasks
  /\ Teardown
  /\ Uncached
  /\ TimerLostOnlyByFailure

\* After a successful run an idle client's model is unloaded in the end, provided
\* the cache stays usable: the task posted by RunSync is not lost.
IdleModelIsUnloaded ==
  (pc = "report" /\ timer = "posted" /\ cache = "usable")
    ~> (model = "null" \/ pc \notin {"report", "idle"} \/ cache # "usable")

\* RunSync and Destroy return, unless the service keeps calling back for ever
\* (std::mutex is not fair) or the process has faulted.
CallsReturn ==
  []<>(\E s \in ServiceThreads : dpc[s] = "called")
    \/ (pc \in {"run", "destroy"} ~> (pc \in {"idle", "done"} \/ fault # "none"))

\* OH_NNExecutor_GetInputDimRange answers: neural_network_core.h promises an error
\* code when it fails.
GetInputDimRangeAnswers == ~(pc = "GetInputDimRange" /\ fault # "none")

\* OH_NNExecutor_Run answers: neural_network_runtime.h promises an error code when
\* it fails.
LegacyRunAnswers == ~(pc = "Run" /\ fault # "none")

\* What the lock promises: the model is leased to one run at a time and is neither
\* unloaded nor destroyed under it.
Lease == INSTANCE ModelLease WITH
  lease <- IF pc \in TornDown THEN "gone" ELSE IF model = "null" THEN "unloaded" ELSE "loaded",
  busy  <- pc = "exec"
LeaseSpec == Lease!Spec
=============================================================================
