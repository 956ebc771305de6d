# A TLA+ verification of the Neural Network Runtime

The Neural Network Runtime (NNRt) is the OpenHarmony library between AI frameworks and
accelerator drivers.  An application (or MindSpore Lite, or a TensorFlow Lite delegate) composes
a model graph, compiles it for a device, possibly into a cache directory, and runs it through an
executor.  This directory specifies what those steps do to the runtime's state, checks it with TLC
and proves the main results with TLAPS.

Paths: `C/` is `src/frameworks/native/neural_network_core`, `R/` is
`src/frameworks/native/neural_network_runtime`, `K/` is `src/interfaces/kits/c/neural_network_runtime`.

## 1. The system

```
 application ── C API ──> core handles: Compilation, Executor, Tensor, TensorDesc
                              │                  │            └─ BackendManager ── Backend (NNBackend)
                              ▼                  ▼
        InnerModel ──> NNCompiler ──────> NNExecutor <── unload timer (event runner)
         │ builders       │   │               │      <── scheduling service (callbacks, threads)
         ▼                │   └─ NNCompiledCache ── cache directory <── HasCache, other processes
     LiteGraph ───────────▼                   ▼
     (conversion)    Device (HDI v1_0/2_0/2_1) ── PreparedModel ── MemoryManager ── driver
```

| Part | State it keeps | Operations | What is hard | What makes it correct |
|---|---|---|---|---|
| `InnerModel` (R/inner_model.cpp, R/neural_network_runtime.cpp) | tensors, operations, ends, LiteGraph | AddTensor, SetTensorValue, AddOperation, SpecifyInputsAndOutputs, Build; BuildFromLiteGraph, BuildFromMetaGraph | calls in any order, each may fail half-way; two numberings of tensors | the graph is what was recorded; nothing changes it afterwards |
| Operator builders (R/ops, about 110), registry | arguments of one operation | SetXxx for each parameter, Build, GetPrimitive | parameters in any order, defaults, readings by type | each argument is the data of the parameter it is named for |
| LiteGraph conversion (R/lite_graph_to_hdi_model_v*.cpp) | none | one converter per class and version | three copies of a hundred field-by-field functions | the device gets every argument |
| Compilation handle (C/neural_network_core.cpp), `NNCompiler` (R/nncompiler.cpp) | source, settings; compiler: flags, prepared model, descriptors | construct, set, Build, CreateExecutor, Destroy | a failing step leaves half a state; the default device changes | one build per handle; settings and executors stay with their device |
| `BackendManager` (C/backend_manager.cpp) | backends by id and by name | Register, Remove, Get | libraries on other threads | the tables agree |
| Compiled cache (R/nncompiled_cache.cpp, R/nncompiler.cpp, HasCache) | a directory: one file per buffer, and `cache_info` | Save, Restore, relabel, HasCache | no lock; crashes; several processes; failing writes; versions | what the device gets was saved as a whole; labels mean what they say |
| `NNExecutor` (R/nnexecutor.cpp, C/neural_network_core.cpp) | prepared model, lock, unload task, callbacks, configuration | construct, RunSync, RunSyncWithAipp, Run, GetInputDimRange, DeinitModel, Reload, destroy | the timer and the service unload the model behind the client; destruction against callbacks | a run has its model to the end; nothing enters a freed executor; an idle model is unloaded, one that cannot be reloaded is not |
| Executor memories (R/nnexecutor.cpp, R/nn_tensor.cpp) | buffers set as inputs and outputs, created memories | SetInput, SetOutput, Create/DestroyInputMemory ... | inner, user and created buffers replace each other | every device buffer is released once; what is run on is whole |
| `NNTensor2_0`, `TensorDesc` (R/nntensor.cpp) | mapping, descriptor, sizes | CreateData (three forms), Destroy, changes of the descriptor, RunSync | memories shared by descriptor, partial failure, unsigned sizes | one owner; the device is given whole data |
| HDI devices, prepared models, `MemoryManager` (R/hdi_*.cpp, R/memory_manager.cpp) | mappings, driver buffers | Allocate/ReleaseBuffer, PrepareModel, ExportModelCache, Run | driver, mmap and table are three places; descriptors and addresses are used again | an address leads to its own buffer; nothing leaks |
| `NNBackend`, service client, small helpers | none or thin | factories, forwarding, tables | | |
| Example drivers, TFLite delegate | examples | | | |

Interactions.  The core looks a backend up in the `BackendManager` for every operation of a
handle.  `InnerModel` asks the registry for the builder of each operation and gives the `LiteGraph` to the
compiler, whose device converts it.  `NNCompiler::Build` hands its prepared model to the executor, which shares it.
The executor's own threads call `OH_NNModel_HasCache`, which reads and may change the cache
directory that compilations of any process write.  The service client is a table of functions
loaded with `dlsym`; it calls back into `NNExecutor::DeinitModel`.

The public headers say the interfaces "do not support multi-thread calling" (`K/neural_network_core.h:32`,
`K/neural_network_runtime.h:32`), so an application is one thread on each of its handles.  Concurrency
is modelled where the code has it: the timer and the service threads of an executor, several
processes in one cache directory, libraries that register backends, and several handles on one device and `MemoryManager`.

The hazards are listed one by one, each at its line, in `PROJECT.json`.

## 2. Modules

| Module | What it is | Proofs |
|---|---|---|
| `InnerModel` | composing one model | `InnerModelProofs` |
| `ModelGraph` | abstract: recorded operations, published once and whole | implemented by `InnerModel` |
| `OpsBuilder`; `ArithmeticOps`, `NeuralOps`, `TensorOps`; `OpsRegistry` | the common part of the builders; one record for each builder; the registry | |
| `NodeConversion` | the converters of the three interface versions | |
| `ModelConversion` | a finished graph of `InnerModel` handed to the converters | `InnerModelProofs` |
| `BackendManager`, `Compilation` | the registry of backends; a handle, its compiler and its executors over it | `CompilationProofs` |
| `CompiledCache` | one cache directory with builders, HasCache callers, crashes and driver upgrades | `CompiledCacheProofs` |
| `NNExecutor` | one executor: client, unload timer, service threads, destruction | `NNExecutorProofs` |
| `ModelLease` | abstract: a model is leased to a run and neither unloaded nor destroyed under it | implemented by `NNExecutor` |
| `ExecutorIO` | buffers and memories of the older executor interface | `ExecutorIOProofs` |
| `NNTensor2_0` | tensors of the newer executor interface | `NNTensor2_0Proofs` |
| `HDIDevice` | devices, prepared models and the memory manager | `HDIDeviceProofs` |
| `LoopLemmas` | what the proofs about loops over sequences rest on | |
| `MC...` | instances for TLC | |

### InnerModel, OpsBuilder, OpsRegistry, NodeConversion, ModelConversion

`tensors`, `ops`, `inputIndices`, `outputIndices`, `inputTensors`, `outputTensors` and `liteGraph` are the members of
`InnerModel`; an operation keeps what its builder has (`ins`, `outs`, `params`, `attributes`).  Each `OH_NNModel_` call
is one action, with what it leaves behind when it fails at any point: `Build` publishes `m_liteGraph` first and may stop
after any node.  Tensors are numbered from 1 where the code numbers from 0.  The graph remembers of each of
its tensors the model's index, so that a property can say that an index of the graph *names* a
tensor of the model although marked parameters shift the graph's numbers.  `fault` is a crash of the
process: a null member or an index without a graph tensor.

A builder is a record: how many inputs and outputs, for each parameter type what is
checked, assigned and marked, and what `GetPrimitive` cannot do without.  The data of a parameter are abstracted to
their first element; that is enough to tell which parameter an argument came from.  `OpsRegistry` maps the
operation types to the records, the first registration of a type counting.  A converter is the map from
the fields of the structure it fills to the accessor each is read from; a class without a converter yields no fields.  `ModelConversion` composes the two: a node of the
finished graph, with the arguments its builder has handed on, through the converter of any version.

### BackendManager, Compilation

The registry has its three tables (`backends`, `backendIDs`, `backendIDGroup`) and `begin`, the element that
a lookup without a device takes: `m_backends` is an `unordered_map`, so it may be any of them.  A registration
creates and validates the backend before it takes the lock; `registering` is what is on its way.
Lookups and changes are atomic under the manager's mutex.

`compilation` holds what the client has set, `compiler` what `Build` has put into the handle.  Settings are abstracted to
whether each asks for something of the device.  `Build` is one step with each of its outcomes: refused, an option refused
(those before it are set), nothing prepared, built, restored from the cache, restored but not completed, built but not
saved.  `preparedModel` remembers what it was prepared with: the settings handed to the device (`ModelOf`), and whether the
cache has it.  An offline model is prepared with float16, performance and priority only; its cache path is accepted, checked and never used.
What the cache's files hold is `CompiledCache`.

### CompiledCache

Each builder is a thread that builds or reloads (`op`), asked for version `ver` and device `dev`; two builders are
two processes (or two compilations with one directory, which the header discourages).  A compilation exports one of the
`Images`, the contents of all files; two saves may export the same, and different images may agree in some files, as
two models do in their tensor descriptors.  A file holds a content, or is `Partial` when truncated or half written.  `info` is absent, torn (not a
document `CheckCacheInfo` accepts), or complete with its version, operator version, device and the save its
checksums are of.  Every file operation that another process or a crash can get between is a step:
the read of `cache_info`, the check of each file, the operator version and the second read of `cache_info` before a relabel, each truncation
and each write.  `stream` records whether an open stream still is the file named `cache_info`:
`remove_all` in another thread unlinks it.

The operator version is the driver's, and may advance at any time.  A save reads it after the last file, a relabel before it
reads `cache_info` again; both write what they have read (`opRead`).  What `cache_info` records may thus be newer than the driver that compiled the model, or
older than the driver at the time of the write.

Abstractions: the 16-bit checksum is taken to tell contents apart, although files over
`MAX_CACHE_SIZE` are only sampled; drivers are upgraded, never downgraded; the extension members are not modelled; HDI
devices never set `isUpdatable`, other implementations of `Device` may, so the relabel is
a choice; `HasCache` reads and answers, and only its removal changes anything, so `ProbeRead` is the
branch that turns to removing.

`RestoreIsAtomic` places the restore at the moment `cache_info` is read.  It has one exception (`mended`): a save of the same bytes by another process,
under way between the read of `cache_info` and the check of a file, makes the file pass although the cache was not complete at the start.  That the files are the
checked ones when the device gets them (`DeviceGetsCheckedFiles`) holds for one process only: with
two, a file may be truncated or rewritten under the shared mapping after its check.

`LaterVersionsAreKept` is about builds and reloads for the device of the cache.  A build for another device, or one that cannot open `cache_info`,
takes it for invalid before it compares the versions (`R/nncompiled_cache.cpp:309`, `:343`) and removes it, of whatever version it is.

### NNExecutor

`model` is `m_preparedModel`, `mutex` is the owner of `m_mutex`, `tasks`
counts the pending `nnexecutor_autounload…` tasks of the event handler, `registered` the callbacks
the service holds, `config` and `needLatency` are `m_executorConfig` and its flag, `dims` says
whether `GetInputDimRange` has cached the ranges, `cachePath` and `cache` are the cache directory
as this executor sees it.  `pc` is the client, `dpc[d]` the position of the event runner or of a
service thread in `DeinitModel`.

RunSync is three steps under the lock: enter (lock, remove the task), reload if needed, run.  Every
early return is `RunAbort`.  `DeinitModel` is split where it is not atomic: the unlocked test of the model,
the lock, the decision (HasCache, the service call), the reset.  `~NNExecutor` is split at each call that leaves
the library, because service threads run in between.  `RunSyncWithAipp` has the control of
`RunSync`; its extra call adds one more way to fail.

Assumptions: the `UnSet…CallBack` calls of the service succeed; `RemoveTask`
removes pending tasks and does not wait for a running one; without a cache path HasCache answers
false; a `Destroy` whose backend has been removed returns without doing
anything, a stutter here; the session ids of `AddSessionId` are left out.

The calls without the lock, `GetInputDimRange` before its ranges are cached, `SetInput` and
`SetInputFromMemory` (through `CheckInputDimRanges`) and the older `Run`, dereference the model
in one step and return from it in another; between them the timer may drop the last reference.  After such a fault
nothing happens in the model.  Two more faults are reachable: `afterFree`, a `DeinitModel` that had begun before the
destruction and locks the mutex of a freed executor; and `configFreed`, the detached latency thread reading the
configuration after `~NNExecutor` deleted it.  The invariants are about all steps up to a fault.

### ExecutorIO, NNTensor2_0, HDIDevice

The three modules follow the same buffers at three levels; `ExecutorIO` and `NNTensor2_0` see of the device
that it hands out a buffer, takes it back or refuses.

`ExecutorIO`: `tensors` are `m_inputTensors` and `m_outputTensors` with `isInnerMem` and the user's buffer, `createdMem`
the two maps of created memories, `memories` the handles clients have, `live` the device's view.  `misused` and `deleted`
remember a release by one that was no owner and a device buffer deleted as heap memory.  Dimensions are abstracted to the
size of the data, 0 for a dynamic shape.

`NNTensor2_0`: a tensor has its mapping, descriptor, size and offset.  `buffers` and `mapped` are the driver's and
mmap's view; both use a number again once it is released.  `fresh`, which is no member of the code, says that the
number still stands for the memory that is mapped: a tensor made by `OH_NNTensor_CreateWithFd` keeps only the number.  A call
is split where it looks the backend up a second time, because a library may remove it in between.  `abandoned` is what a
failing `mmap`, `munmap`, driver or look-up leaves to nobody; its size is bounded by `MaxAbandoned`.

`HDIDevice`: every thread makes one call at a time, and a call is a sequence of steps at the driver, `mmap`, `munmap` and the
mutex of the `MemoryManager`.  `serials` tells apart two buffers that had the same descriptor; the code has no such number.  The version
of the interface is a variable: V1_0 and V2_x differ in what they check and in what they release on errors.  `lostFds`
and `lostAddresses` (in `lost`) are what a release that failed has lost.

## 3. Runs

| Run | Module, properties | Distinct states | What it shows |
|---|---|---|---|
| `executor` | `MCNNExecutor`: `RunUsesLoadedModel`, `SingleAutoUnloadTask`, `UncachedModelStaysLoaded`, `TimerLostOnlyByFailure`, `DeinitEntersLiveExecutor`, `LeaseSpec`, `IdleModelIsUnloaded`, `CallsReturn` | 716,396 | RunSync, the unload timer, two scheduling-service threads and Destroy interleaved: the lock protects the prepared model, one unload task is pending at most, nothing enters a freed executor, and the executor implements ModelLease. With timers that fire and threads that run, an idle model with a usable cache is unloaded and RunSync and Destroy return. |
| `legacy_run_answers` | `MCNNExecutor`: `LegacyRunAnswers` (violated, see findings) | until the violation | The older OH_NNExecutor_Run after an automatic unload dereferences the null prepared model. |
| `cache_one_process` | `MCCompiledCache`: `DeviceGetsCheckedFiles`, `SuccessLeavesCache`, `LaterVersionsAreKept` | 5,605,532 | One process that builds and reloads for two devices, crashes and restarts, with a thread that calls HasCache and drivers that are upgraded: what the device is handed, what a build leaves in the cache directory, and that a later version's cache is kept whose cache_info can be read. |
| `cache_two_processes` | `MCCompiledCache`: `RestoreIsAtomic`, `LabelFollowsOpVersion` | about 6,713,000 | Two processes build and reload in one directory, step by step and without a lock, and two saves may write equal bytes: a restore that passes its checks saw a complete cache, unless meanwhile the other process wrote the expected bytes into a file still to be checked; and the label in cache_info follows the operator version, read before it is written. |
| `compilation` | `MCCompilation`: `TypeOK`, `RegistryAgrees`, `SettingsAreSupported`, `ExecutorsUseTheirDevice`, `BuiltAtMostOnce`, `SuccessIsAsAsked` | 3,724,800 | Every sequence of construction, settings, builds with every outcome, executors and destruction, while two libraries register and remove two backends: the registry's tables agree, settings in force are supported, executors stay on their model's device and a handle is built at most once. |
| `devices` | `MCHDIDevice`: `HeldBuffersResolve`, `DriverReadsWholeBuffers`, `NothingLeaks`, `OwnBufferReleased` | 1,268,672 | Two threads allocate, release, prepare, export, run and destroy over two descriptors and two addresses that the driver and mmap use again, with every call of either failing: an address leads to its own live buffer, the driver reads live and whole data, nothing leaks and nobody releases another's buffer. |
| `executor_io` | `MCExecutorIO`: `TypeOK`, `BuffersHaveOneOwner`, `BuffersAreWhole`, `ResultsFitTheirBuffers`, `BuffersAreReleasedOnce` | 201,796 | Every sequence of SetInput, SetOutput, the memory calls, runs with any reported dimensions and the destruction, over two addresses that are used again: every buffer has one owner, the device is given whole buffers, results fit, nothing leaks and nothing is released twice. |
| `buffers_are_released_once` | `MCExecutorIO`: `BuffersAreReleasedOnce` (violated, see findings) | until the violation | The same calls with a device that may have no buffer for a larger output: SetOutput leaves the entry with the buffer it has released. |
| `model_composition` | `MCInnerModel`: `GraphIndicesResolve`, `ArgumentsAreTensorData`, `CompositionSpec` | 549,974 | Two operations over three tensors, every order of the calls of an application: what Finish publishes is what was recorded, whatever was marked as a parameter in between, and every index of the graph names the tensor the application named. |
| `model_sources` | `MCInnerModel`: `EndsAreOfOneKind`, `FinishedModelIsFrozen` | 497,906 | The three ways to give a model its graph - composition, a LiteGraph, a meta graph - against each other, with every call that may fail half-way: the ends described to the executor are of one kind, and after a successful Finish nothing changes the graph, its operations or its data. |
| `operators` | `MCOperators`: `OrderOfParametersIsFree`, `ArgumentsReachTheDevice` | 156,060 | Every operation of the registry, with no parameter, every single one and every pair: the parameters of an operation could have come in any other order, and converted for each version of the interface the node holds every argument. |
| `tensors` | `MCNNTensor2_0`: `TypeOK`, `EveryMemoryHasOneOwner`, `DeviceGetsWholeTensors`, `UserMemoryIsKept` | 1,248,438 | Three tensors that may share a memory through its descriptor, over descriptors and addresses that are used again, with every failure of mmap, munmap and the driver and the backend removed within calls: each memory has one owner, and the device is given whole data whatever clients and runs have made of the descriptors. |

Every run takes between a second and about three minutes with two workers.

Bounds, and why they suffice.

- `executor`: two service threads and the runner make every pair of `DeinitModel` calls meet the client; a third adds nothing
  the lock or the tests tell apart, and the proofs are for any number.  `MaxReporters` bounds latency threads, which nothing
  but the deletion of the configuration can disturb.
- `cache_*`: three files are a model file and two descriptors; two images that differ in the model file and agree in the
  descriptors, so that files of two saves are equal or not.  `cache_one_process` has two versions, two devices and two saves, a later one over an earlier; `cache_two_processes` three
  saves, so that one overwrites another that overwrote a third, and a `VIEW` that leaves out what a builder no longer looks at (a restore's variables when it saves, and what
  became of a call): neither a step nor one of the two properties of that run reads them.  The proofs are for any number.
- `compilation`: two backends with different support, one of them registered by two libraries; settings of both kinds
  (`Wanted`: one used by the build, one handed on at once); one executor at a time (`MaxExecutors`), since executors do not see each other.
- `devices`: two threads, two descriptors and two addresses, so that both are used again by the other thread; three buffers ever
  (`MaxBuffers`).  The graphs have empty constants, one longer than `memcpy_s` copies, no node, and a CUSTOM node.
  `ClientsRetry` is FALSE: see section 6.
- `executor_io`: one input and two outputs, so that an output may fail after another has been read; two addresses,
  fewer than could be in use, so that addresses return.  `GrowthMayFail` is FALSE; the violation run is the same
  configuration with TRUE.
- `model_composition`: two operations over three tensors of which the first is a parameter, so that every later index is
  shifted.  `model_sources`: two tensors of any kind, with lists of every defect.
- `operators`: every operation, with no parameter, each parameter and each pair of parameters filled or empty; a pair is
  enough to tell an order.  `Lossy` names the three converters that do lose an argument (section 6).
- `tensors`: three tensors on one memory, two descriptors, three addresses, offsets up to the limit, `SIZE_MAX` 15 so that
  unsigned subtraction wraps well above every length, two losses.

`CHECK_DEADLOCK FALSE` is said only where the system rightly stops: an executor or a model is destroyed, a process has crashed (`fault`), or
(in `compilation`) no library registers any backend any more.

Fairness (`FairSpec` of `NNExecutor`): a client that is inside a call goes on when it can (it is
running code), pending timers fire and the runner and service threads run, each by weak fairness
(the scheduler of the platform).  Nothing makes the client call, the service call back or
the cache change.  `std::mutex` is not fair and the model assumes no strong fairness, so
`CallsReturn` excepts a service that calls back for ever.

## 4. What is proved

All theorems are for every value of the constants; the assumptions are the named `ASSUME`s of the
modules (distinct threads, natural bounds, lists of natural indices, `none` being no record) and, where a theorem
states one, a hypothesis on the constants (`OneProcess`, `ReadAsChecked`, `EveryMemberIsRead`, `~GrowthMayFail`, `~ClientsRetry`).  Each module's `IInv` (`CacheInv` in `CompiledCache`) is the
inductive invariant; TLC accepts it on the instances above.

`NNExecutorProofs`: `TypeCorrect`; `Invariant`; from it `RunsAreSafe`, `OneTask`,
`UncachedStays`, `TimerKept`; `NoLateDeinit`, that no timer or callback starts a `DeinitModel` on a
freed executor; and `ImplementsLease`, that `NNExecutor` implements `ModelLease`.  None of the properties is inductive: that
a run keeps its model needs that the lock is held exactly inside the critical sections (`Exclusive`);
that one task is pending needs that none is while a run holds the lock (`Tasks`);
late callbacks need the stages of the destructor in order (`Teardown`); `Uncached` relates a missing path to the
decision in `DeinitModel`.

`CompiledCacheProofs`: `CacheInvariant`, `CacheTypeCorrect`, `RestoreAtomic`, `LabelFollows`.  The
difficulty is that a restore looks at the files one after the other while others rewrite them.  The
argument: if the cache was not whole when `cache_info` was read, some file shows it.  A file that is not what `cache_info` vouches for stays so until
the restore gets there (`MismatchStays`, `RestoresAreSound`), unless a save writes those very bytes into it meanwhile, which is what `mended` notes.
The label: a save writes an operator version no older than the one it was compiled under (`SavesAreOwn`), and a relabel lowers the version by one only with an
operator version newer than that of the `cache_info` it has read again (`Vouches`, `RestoresAreSound`); that the file may have changed between that read and the
write does no harm, because the relabel writes what it has read, checksums included.

Three more theorems are of one process (`OneProcess`, at most one builder, with any number of `HasCache` threads, and crashes, driver upgrades
and failing writes as before): `CheckedFiles`, `SuccessLeaves` and the action property `LaterKept`.  With two processes they are false, as section 2 says.
Their invariant `AloneInv` records that between two steps of the process only `HasCache` can have acted: a
restore finds `cache_info` as it read it, or gone with an excuse noted (`AsRead`); a save finds no later
version for its device that it could have read, and its own files and stream (`AsWritten`); an answer finds its cache (`AsAnswered`).

`InnerModelProofs`: `Invariance`; `IndicesResolve`, `EndsAreApart`, `Frozen`; and `Implements`, that `InnerModel`
implements `ModelGraph`.  They hold for any table of builders.  The refinement needs that a graph made by `Finish`, complete or
not, holds a prefix of the recorded operations with every index resolved (`GraphIsOfModel`), and that the ends of the model are named
together (`EndsGoTogether`); the shifted numbering is handled by lemmas about the lists of unmarked
tensors.  `Arguments` is about the data: a member of a builder is what the last of its setters has read, or the first where setters append,
or the flag that an axis of the full connection sets along (`AttributesAreData`), and a tensor that has data keeps them (`DataKept`), since `SetTensorValue` refuses a second value.  It assumes `ReadAsChecked`,
that the operations read their parameters as the types they check: every builder of the registry but that of LSTM (section 6).

`OrderIsFree` and `ReachDevice`, in the same module, are about the builders and the converters.  The order of parameters is free although the
loop of `Build` looks back: the setters of the full connection refuse an axis together with a use flag of false, whichever comes
second, and a setter may replace what another has set.  Of parameters with different types at most one is an axis and at most one a flag, so whether the two conflict is symmetric
in their places (`ConflictHasPair`, `PairConflicts`); hence what is accepted in one order is in all (`AcceptedInAnyOrder`).  If they set
different members, each member is what its only setter has read (`AttributesOfDifferent`), and the tensors marked are the same set.  The theorem has
no hypothesis and is for any number of parameters, where the run has pairs.  `ReachDevice` needs that a builder sets only members
that one of its setters has (`MembersInv`) and that the nodes are those of the operations (`GraphIsOfModel`).  What remains is a
condition on the two tables, `EveryMemberIsRead`: a converter reads, from its own class, each member a builder hands on.  It is a
hypothesis of the theorem, like `ReadAsChecked` of `Arguments`; `MCInnerModel` states both as an assumption on the real tables
(`RegistryAssumption`: `EveryMemberIsRead` of all operations of the registry, save for the `KnownLosses`; no builder but that of LSTM reads its data
as another type), and TLC evaluates it in its runs.

`CompilationProofs`: `TypeCorrect`, `SupportedSettings`, `ExecutorDevices`, `OneBuild`, `Success`.  The invariant says of
compiler and executors that all they have, they have for their own device (`OfItsDevice`), whatever `GetBackend` answers by
now; `BuildOutcomes` is the case analysis of `Build` on which the rest stands.  `Success` says that the settings asked for reach the device and the cache, the cache of an offline model excepted; it needs that an old answer is never
taken for that of a build without compiler (`SuccessHasCompiler`).  `RegistryConsistent` is about the three tables: a registration
appends a backend that is not listed (`AppendedList`), and what `RemoveBackend` leaves of the list is in no
place twice and misses just the removed backends (`ErasedList`, by induction over the loop).

`ExecutorIOProofs`: `TypesAndResults` (types and recorded lengths) and `TypeCorrect` whatever the device refuses; `Invariant`,
`OneOwner`, `WholeBuffers`, `ResultsFit` and `ReleasedOnce` when a larger output finds its buffer (`~GrowthMayFail`).  That hypothesis is the finding
`buffers_are_released_once`: without it they are false.  The invariant (`Ownership`) says of an inner buffer that it is live, as long as its entry says, of
no other entry and in no list of created memories; of a created memory that it is in one list; of an entry with a client's memory that
the memory lives until the client takes it back; and of every live buffer that one of these has it.
A buffer then has exactly one owner (a cardinality, from `InnerOwner` and `MemoryOwner`).

`NNTensor2_0Proofs`: `TypeCorrect`, `WholeTensors`, `UserMemory`, `OneOwner`.  The comparison before a run is of unsigned numbers; it is exact
because no tensor has an offset beyond its size (part of `TypeOK`), and what it has established stays until the run ends
because a run excludes other calls (`RunsAreChecked`).  `MemoriesAreThere` ties a descriptor that is still fresh to the
driver's buffer.  `OneOwner` follows mappings and buffers apart (`Mappings`, `Allocations`), because a tensor made of
another one's descriptor has a mapping of its own and no buffer: each in use is one tensor's or was abandoned by a failing step.  Descriptors and addresses are taken to be different values (an
assumption of the module), since `abandoned` holds both.

`HDIDeviceProofs`: `Invariant`, `TypeCorrect`, `HeldResolved`, `ReadsWholeBuffers`, `NothingLeaked` and the action property `ReleasedByOwner`, for any
number of threads, descriptors, addresses and graphs.  The invariant has three layers, each proved for every step from the ones before.
`Locals`: at each step a call has the locals that the step relies on, and the graph's constants have been copied.  `Places`: an address is with one
client, one prepared model, one call, or lost (`Apart`), every entry of the table is with one of them (`EveryEntryIsKept`), and an
address without an entry that is mapped is between `mmap` and the mutex of a call under way (`Mappings`) - this is where `munmap` has returned
and another thread is handed the same address while the old entry still stands; `RegisterEnters` shows that the entry is gone by
the time the mutex is free.  `Buffers`: whoever has an address or a descriptor has a live buffer (`Live`), nobody else has it (`Exclusive`), a call still knows the right
descriptor (`Known`), and what nobody has is lost, exported or closed (`Remembered`); `serials` is what makes this more than a comparison of numbers that return.
`ReadsWholeBuffers` also needs the loop that copies the constants: the place of each is the sum of the lengths copied before it, so they lie
apart and within the shared buffer (`SegmentsFit`).  The theorems assume `~ClientsRetry`: a client that repeats a release after an
error of `munmap` may release a descriptor that is another's (section 6); and that descriptors are finite in number.

`LoopLemmas` replaces induction over data where the proofs need it: a loop of `n` turns is a recursive function on `0..n`; that the function exists, and that what each turn preserves holds
after the last, follows from the numbers being well founded.  The constants of a graph, the list of the registry and the last setter of a member rest on it.

Only model-checked:

- the liveness properties `IdleModelIsUnloaded` and `CallsReturn` (TLAPS does not reason about ENABLED and fairness);
- that the tables of over a hundred builders and converters satisfy the hypotheses of `Arguments` and `ReachDevice`
  (`RegistryAssumption`): concrete data, which TLC evaluates.  With them, every safety property and action property of a passing
  run is a theorem.

The type invariants of `NNExecutor`, `CompiledCache` and `HDIDevice` are proved and in no run.  That of `InnerModel` is stated for the reader and
TLC accepts it on the instances above; its proofs use of the types only that the members are lists (`Listed`).

## 5. Assurance against vacuity

Every property has a mutant in `PROJECT.json`: an operator that changes one definition as a plausible bug
would (a dropped lock, a task not removed, a checksum not compared, an index not translated, an offset not checked), under which TLC
finds the property violated.  The mutated forms stand beside the definitions, marked "Mutant".

## 6. Findings

| Run | What the code does | What the documentation says |
|---|---|---|
| `legacy_run_answers` | `R/nnexecutor.cpp:1476` runs without the lock, a check or a reload | "If the operation fails, an error code is returned." (`K/neural_network_runtime.h:472`) |
| `buffers_are_released_once` | `R/nnexecutor.cpp:1249`: `SetOutput` releases the inner buffer before it allocates the larger one; when that fails the entry keeps the released buffer, which is released again | "make sure the buffer won't be released twice" (`R/nn_tensor.cpp:347`) |

Disagreements without a run of their own.  Those with a name in parentheses are stated as a property of the module named and TLC finds it
violated; no configuration is kept for them.

- `GetInputDimVec` (`R/nnexecutor.cpp:187`) dereferences a model that the timer or the service has unloaded
  (`NNExecutor.GetInputDimRangeAnswers`).
- A failed write or close of a cache file (`R/nncompiled_cache.cpp:247`, `:298`) is ignored and the build succeeds
  (`CompiledCache.SavedCacheIsComplete`); a `HasCache` removes a cache that was saved after it had looked
  (`R/neural_network_runtime.cpp:710`, `SavedCacheOutlivesProbes`); the version in `cache_info` is lowered for a newer driver and a build of
  the earlier version then reads it (`R/nncompiler.cpp:683`, `LaterVersionIsNotRead`); the return codes of a later version
  (`LaterVersionIsInvalidParameter`) and of an incomplete cache (`IncompleteCacheIsInvalidFile`) are not those the header names.
- A build of an offline model with a cache directory succeeds and caches nothing: `BuildOfflineModel` (`R/nncompiler.cpp:352`) never uses the path, although
  the header says of `OH_NNCompilation_SetCache` that it "Caches the compiled model to the directory" (`K/neural_network_core.h:228`).
- "If the tensor is used as operation parameter, it will not convert to the tensor of LiteGraph" (`R/inner_model.cpp:622`): some
  builders do not mark all of theirs, as the reductions their coefficient (`InnerModel.ParametersStayOutOfGraph`, on an instance
  with `OH_NN_OPS_REDUCE_ALL`).  "there is no need to check twice" (`:632`): an end that is marked as a parameter
  later has no index in the graph, and the lookup throws (`EveryIndexHasGraphID`).
- "If no operator parameter is set, the operator uses the default parameter value" (`K/neural_network_runtime.h:247`): Scale,
  QuantDTypeCast and others fail, or dereference a null member, in `Finish` (`InnerModel.DefaultsAreUsed`).
  "If unnecessary parameters are added when adding an operator, this method returns OH_NN_INVALID_PARAMETER" (`:246`): a maximum
  pooling accepts parameters of an average pooling (`MCOperators.UnnecessaryParametersAreRefused`).
- After `Finish`, `OH_NNModel_AddTensorToModel` still succeeds (`K/neural_network_runtime.h:297`, `FinishForbidsTensors`); ends of the model take data
  (`:272`, `EndsTakeNoData`); ends left by a graph that was refused hide those that are specified (`:269`, `SpecifiedEndsAreTheEnds`); after a failed
  `Finish` the answers of `GetSupportedOperations` cover fewer operations than the model has (`:339`, `AnswersCoverTheModel`).
- The second projection size of LSTM is read with another type than it was checked for (`R/ops/lstm_builder.cpp:246`), for which `Arguments` leaves LSTM out.
  `ConvertAddFusion` loses the activation in every version, the QuantDTypeCast of V1_0 and V2_0 the axis (`Lossy`).
- A client that repeats `ReleaseBuffer` after an error of `munmap` (`R/memory_manager.cpp:66`) releases a descriptor that may be another's by then
  (`HDIDevice` with `ClientsRetry` TRUE violates `OwnBufferReleased`).
- "NNTensor2_0::SetDimensions will check if the tensor buffer is enough for the new dimensions" (`R/nnexecutor.cpp:766`) and the like at `:1484`:
  it does not (`NNTensor2_0.ResultsFitTheirTensors`).
- After a build the setters of a compilation still succeed, although the header says that no additional operations can be performed
  (`K/neural_network_core.h:330`); a setting that the device does not support is refused by `Build` with OH_NN_OPERATION_FORBIDDEN and not by the setter
  with the code of `:267`, `:289` and `:310`; without `SetDevice` the device is the first of an `unordered_map`, not "the first device" of the
  list (`:211`); the list of devices may move at every registration, not only at the next call (`:1078`); executors can be made of a handle whose build failed late;
  a compilation with an imported cache buffer is always refused by `NNBackend::CreateCompiler`.

## 7. Not modelled, and what could follow

- The byte formats: `Serialize`, `cache_info`'s JSON, the checksum's arithmetic, the enumeration casts of the converters and `transform.cpp`.  They are
  data without control; `ops` values beyond the first element likewise.
- `TensorDesc`'s arithmetic on dimensions (a product that wraps at 2^64), names and formats.
- The extension configurations of compilations, executors and meta graphs, and the ids and hashes derived from them.
- The scheduling service, the drivers and the vendor's libraries: outside the repository, external actions here.
- The example drivers and the TensorFlow Lite delegate: examples beside the runtime.

Worth doing next: a composition of `NNExecutor` with `CompiledCache`, where reloads meet a directory that builds change; the
typing of `InnerModel`'s operations.
