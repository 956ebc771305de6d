---------------------------- MODULE Compilation -----------------------------
(* A compilation from its construction to its destruction, the compiler     *)
(* that a build puts into it and the executors that are made from it, while *)
(* backends come and go. The handle and its calls belong to one thread.     *)
(*                                                                          *)
(* The settings are abstracted to whether each of them asks for something   *)
(* of the device. What a build does to the files of the cache, and when it  *)
(* can restore from them, is the module CompiledCache; what the scheduling  *)
(* service and the device answer is open.                                   *)
EXTENDS BackendManager, FiniteSets

CONSTANTS Supported,    \* backend -> settings its device supports
          Wanted,       \* bound: the settings that the client changes
          MaxExecutors  \* bound: executors of the client at a time

\* The order of SetCompilationOptions.
Options == <<"cache", "fp16", "performance", "priority">>
Settings == ToSet(Options)

\* What a compilation is constructed from. The models are an InnerModel: with
\* a graph, with an offline model as its only node, or not yet finished.
Models == {"model", "offlineModel", "unfinished"}
Sources == Models \union {"path", "buffer", "cache"}

ASSUME CompilationAssumption ==
  /\ Supported \in [BackendIDs -> SUBSET Settings]
  /\ Wanted \subseteq Settings /\ MaxExecutors \in Nat

Handles == [source : Sources, imported : BOOLEAN, backendID : BackendIDs \union {0}, settings : SUBSET Settings]
\* The settings are those of the ModelConfig the device is given; none of them
\* reads its cache path. Cached: restored from the cache or saved to it.
PreparedModels == [device : BackendIDs, settings : SUBSET (Settings \ {"cache"}), cached : BOOLEAN]
Compilers ==
  [device : BackendIDs, settings : SUBSET Settings, isBuild : BOOLEAN,
   preparedModel : PreparedModels \union {none}, hasDescs : BOOLEAN]
Executors == [device : BackendIDs, settings : SUBSET Settings, preparedModel : PreparedModels]

ASSUME NoneAssumption ==
  none \notin Handles \union PreparedModels \union Compilers \union {"success", "failed"}

VARIABLES compilation,  \* the members that the client sets, or none
          compiler,     \* its member compiler, or none
          answer,       \* of the last OH_NNCompilation_Build
          executors     \* those of the client

vars == <<registry, compilation, compiler, answer, executors>>

Init == RegistryInit /\ compilation = none /\ compiler = none /\ answer = none /\ executors = {}

-----------------------------------------------------------------------------
(* The handle.                                                              *)

Construct ==
  \E source \in Sources :
    /\ compilation = none
    /\ compilation' = [source |-> source, imported |-> FALSE, backendID |-> 0, settings |-> {}]
    /\ answer' = none
    /\ UNCHANGED <<registry, compiler, executors>>

ImportCacheFromBuffer ==
  /\ compilation # none
  /\ compilation' = [compilation EXCEPT !.imported = TRUE]
  /\ UNCHANGED <<registry, compiler, answer, executors>>

SetDevice ==
  \E id \in BackendIDs \union {0} :
    /\ compilation # none
    /\ compilation' = [compilation EXCEPT !.backendID = id]
    /\ UNCHANGED <<registry, compiler, answer, executors>>

Switched(settings, s, on) == IF on THEN settings \union {s} ELSE settings \ {s}

\* SetCache and EnableFloat16
SetForBuild ==
  \E s \in Wanted \intersect {"cache", "fp16"}, on \in BOOLEAN :
    /\ compilation # none
    /\ compilation' = [compilation EXCEPT !.settings = Switched(@, s, on)]
    /\ UNCHANGED <<registry, compiler, answer, executors>>

\* Mutant: the device that is set by now is asked, not the compiler's.
AllowedNow(s, on) == on => GetBackend(compilation.backendID) # none /\ s \in Supported[GetBackend(compilation.backendID)]
Allowed(s, on) == on => s \in Supported[compiler.device]

\* SetPerformanceMode and SetPriority hand the setting on to a compiler that
\* exists already; its device may refuse it or not answer.
SetNow ==
  \E s \in Wanted \intersect {"performance", "priority"}, on \in BOOLEAN, answers \in BOOLEAN :
    /\ compilation # none
    /\ compilation' = [compilation EXCEPT !.settings = Switched(@, s, on)]
    /\ IF compiler # none /\ answers /\ Allowed(s, on)
       THEN compiler' = [compiler EXCEPT !.settings = Switched(@, s, on)]
       ELSE UNCHANGED compiler
    /\ UNCHANGED <<registry, answer, executors>>

\* The compiler is only given up together with the handle, and that needs a
\* backend.
Destroy ==
  /\ compilation # none
  /\ compiler # none => GetBackend(compilation.backendID) # none
  /\ compilation' = none /\ compiler' = none /\ answer' = none
  /\ UNCHANGED <<registry, executors>>

-----------------------------------------------------------------------------
(* OH_NNCompilation_Build. Its steps are those of one thread on its handle; *)
(* the registry is asked once.                                              *)

\* As a mutant: the first test alone, a compilation may be built again.
OneModel == ~(compilation.imported /\ compilation.source \in Models \union {"path"})
IsCompilationAvaliable == OneModel /\ compiler = none

\* NNBackend::CreateCompiler
OnlyModelOrCache == compilation.source \in Models \union {"cache"} /\ ~compilation.imported

NewCompiler(device) ==
  [device |-> device, settings |-> {}, isBuild |-> FALSE, preparedModel |-> none,
   hasDescs |-> compilation.source \in Models \ {"unfinished"}]

Building == compilation # none /\ IsCompilationAvaliable /\ OnlyModelOrCache /\ GetBackend(compilation.backendID) # none
NewOne == NewCompiler(GetBackend(compilation.backendID))

\* The handle keeps the compiler, whatever the build answers.
BuildEnds(built, result) ==
  compiler' = built /\ answer' = result /\ UNCHANGED <<registry, compilation, executors>>

\* Nothing is kept.
BuildRefused ==
  /\ compilation # none /\ ~Building
  /\ answer' = "failed"
  /\ UNCHANGED <<registry, compilation, compiler, executors>>

\* The settings up to the i-th.
Upto(i) == compilation.settings \intersect {Options[j] : j \in 1..i}

\* The device does not support a setting, or does not answer: those before it
\* are set.
OptionsRefused ==
  /\ Building
  /\ \E i \in 0..Len(Options) - 1 :
       /\ Upto(i) \subseteq Supported[NewOne.device]
       /\ BuildEnds([NewOne EXCEPT !.settings = Upto(i)], "failed")

\* Mutant: the performance mode is forgotten.
OptionsButPerformance == [NewOne EXCEPT !.settings = compilation.settings \ {"performance"}]
SetCompilationOptions == [NewOne EXCEPT !.settings = compilation.settings]
OptionsSet == Building /\ compilation.settings \subseteq Supported[NewOne.device]

\* Mutant: m_isBuild is set although the device has prepared nothing.
NothingPreparedButBuilt == OptionsSet /\ BuildEnds([SetCompilationOptions EXCEPT !.isBuild = TRUE], "failed")

\* Authentication, or NNCompiler::Build before there is a model.
NothingPrepared == OptionsSet /\ BuildEnds(SetCompilationOptions, "failed")

ModelOf(c, cached) == [device |-> c.device, settings |-> c.settings \ {"cache"}, cached |-> cached]
Prepared(c, cached) == [c EXCEPT !.preparedModel = ModelOf(c, cached)]
Built(c, cached) == [Prepared(c, cached) EXCEPT !.isBuild = TRUE]

\* The cache path is not looked at, and the build succeeds all the same.
BuildOfflineModel ==
  /\ OptionsSet /\ compilation.source = "offlineModel"
  /\ BuildEnds(Built(SetCompilationOptions, FALSE), "success")

UsesCache == OptionsSet /\ compilation.source \in {"model", "cache"} /\ "cache" \in compilation.settings

\* The model and the descriptors come from the cache. Of a compilation that
\* has nothing else, GetModelId looks at the cache again and may not find it.
RestoreFromCacheFile ==
  /\ UsesCache
  /\ LET restored == [Built(SetCompilationOptions, TRUE) EXCEPT !.hasDescs = TRUE]
     IN \/ BuildEnds(restored, "success")
        \/ compilation.source = "cache" /\ BuildEnds(restored, "failed")

\* The model is restored, but the info of the cache cannot be updated; then
\* there is no graph, or the device refuses it.
RestoredOnly == UsesCache /\ BuildEnds(Prepared(SetCompilationOptions, TRUE), "failed")

\* Without a cache to restore from. The build counts as one even if it cannot
\* be saved.
NormalBuild ==
  /\ OptionsSet /\ compilation.source = "model"
  /\ \/ BuildEnds(Built(SetCompilationOptions, "cache" \in compilation.settings), "success")
     \/ "cache" \in compilation.settings /\ BuildEnds(Built(SetCompilationOptions, FALSE), "failed")

Build == BuildRefused \/ OptionsRefused \/ NothingPrepared \/ BuildOfflineModel
           \/ RestoreFromCacheFile \/ RestoredOnly \/ NormalBuild

-----------------------------------------------------------------------------
(* Executors.                                                               *)

\* Mutant: the executor runs on the backend that is set by now.
DeviceNow == GetBackend(compilation.backendID)
ExecutorDevice == compiler.device

\* Any backend will do: it asks the compiler.
ConstructExecutor ==
  /\ compilation # none /\ GetBackend(compilation.backendID) # none
  /\ compiler # none /\ compiler.preparedModel # none /\ compiler.hasDescs
  /\ Cardinality(executors) < MaxExecutors
  /\ executors' = executors \union {[device |-> ExecutorDevice, settings |-> compiler.settings,
                                     preparedModel |-> compiler.preparedModel]}
  /\ UNCHANGED <<registry, compilation, compiler, answer>>

DestroyExecutor ==
  \E executor \in executors :
    /\ GetBackend(executor.device) # none
    /\ executors' = executors \ {executor}
    /\ UNCHANGED <<registry, compilation, compiler, answer>>

Next ==
  \/ RegistryNext /\ UNCHANGED <<compilation, compiler, answer, executors>>
  \/ Construct \/ ImportCacheFromBuffer \/ SetDevice \/ SetForBuild \/ SetNow \/ Destroy
  \/ Build
  \/ ConstructExecutor \/ DestroyExecutor
Spec == Init /\ [][Next]_vars

-----------------------------------------------------------------------------
(* Properties.                                                              *)

\* Type invariant, with what is never there without the other: a compiler or
\* an answer without its handle, a finished build without a model.
TypeOK ==
  /\ compilation \in Handles \union {none} /\ compiler \in Compilers \union {none}
  /\ executors \subseteq Executors
  /\ answer \in {none, "success", "failed"}
  /\ compilation = none => compiler = none /\ answer = none
  /\ compiler # none => (compiler.isBuild => compiler.preparedModel # none)

\* The settings in force, of a compiler or of an executor that may reload its
\* model, are supported by the device they are for - also those that are
\* changed after the build, or after another device has been set.
SettingsAreSupported ==
  /\ compiler # none => compiler.settings \subseteq Supported[compiler.device]
  /\ \A e \in executors : e.settings \subseteq Supported[e.device]

\* An executor is on the device its model was prepared on: SetDevice after the
\* build, or a default backend that is another one by now, do not split them.
ExecutorsUseTheirDevice ==
  /\ \A e \in executors : e.preparedModel.device = e.device
  /\ compiler # none => (compiler.preparedModel # none => compiler.preparedModel.device = compiler.device)

\* neural_network_core.h:330: "After this method is called, additional
\* compilation operations cannot be performed." No second build, after
\* whatever the first one answered, puts another model or compiler into the
\* handle: that would lose the compiler, which nobody else deletes.
BuiltAtMostOnce ==
  [][compiler # none =>
       \/ compilation' = none
       \/ /\ compiler' # none
          /\ compiler'.device = compiler.device
          /\ compiler'.isBuild = compiler.isBuild
          /\ compiler'.preparedModel = compiler.preparedModel]_vars

\* A build that reports success has prepared the model on the device and with
\* the float16, performance and priority that the client had set, executors can
\* be made of it, and a cache that was asked for has the model - unless it is an
\* offline model, for which the setting is accepted, checked and then ignored.
AsAsked ==
  [device   |-> GetBackend(compilation.backendID),
   settings |-> compilation.settings \ {"cache"},
   cached   |-> "cache" \in compilation.settings /\ compilation.source # "offlineModel"]
SuccessIsAsAsked ==
  [][answer' = "success" /\ compiler = none => compiler'.preparedModel = AsAsked /\ compiler'.hasDescs]_vars
=============================================================================
