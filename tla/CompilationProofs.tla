------------------------- MODULE CompilationProofs -------------------------
(* For any number of backends, whatever their devices support, and of       *)
(* executors: the tables of the registry agree, what is in force is         *)
(* supported, executors stay on the device their model was prepared on, and *)
(* a handle is built once.                                                  *)
EXTENDS Compilation, LoopLemmas

RegistryTypes ==
  /\ backends \subseteq BackendIDs
  /\ begin \in backends \union {none}
  /\ registering \subseteq Libraries
  /\ backendIDGroup \in [BackendNames -> SUBSET BackendIDs]

\* The list of the registry, and that its tables agree.
RegistryInv ==
  /\ RegistryTypes
  /\ backendIDs \in Seq(BackendIDs)
  /\ RegistryAgrees

\* A success is always that of the compiler in the handle.
SuccessHasCompiler == answer = "success" => compiler # none

\* What a compiler or an executor has, it has for its own device.
OfItsDevice(c) ==
  /\ c.settings \subseteq Supported[c.device]
  /\ c.preparedModel # none => c.preparedModel.device = c.device

IInv ==
  /\ RegistryTypes
  /\ TypeOK
  /\ SuccessHasCompiler
  /\ compiler # none => OfItsDevice(compiler)
  /\ \A e \in executors : OfItsDevice(e)

-----------------------------------------------------------------------------
(* Lemmas.                                                                  *)

\* The four options that Build applies are the settings.
LEMMA OptionsAreSettings ==
  /\ Len(Options) = 4
  /\ \A i \in 1..4 : Options[i] \in Settings
  /\ Settings = {"cache", "fp16", "performance", "priority"}
  BY DEF Settings, Options, ToSet

\* A backend that is found is one of the registry, by default or by its number.
LEMMA FoundBackend ==
  ASSUME RegistryTypes, NEW id, GetBackend(id) # none
  PROVE  GetBackend(id) \in BackendIDs
  BY DEF RegistryTypes, GetBackend

\* A new handle has nothing set.
LEMMA InitIInv == Init => IInv
  BY NoneAssumption DEF Init, RegistryInit, IInv, RegistryTypes, TypeOK, SuccessHasCompiler

\* Only the registry changes.
LEMMA RegistryKeeps ==
  ASSUME IInv, RegistryNext, UNCHANGED <<compilation, compiler, answer, executors>>
  PROVE  IInv'
<1>1. RegistryTypes'
  <2>1. CASE CreateBackend
    BY <2>1 DEF CreateBackend, IInv, RegistryTypes
  <2>2. CASE RegisterBackend
    <3>1. PICK library \in registering :
            \/ UNCHANGED <<backends, begin, backendIDGroup>>
            \/ /\ backends' = backends \union {library[2]}
               /\ begin' \in backends'
               /\ backendIDGroup' = [backendIDGroup EXCEPT ![library[1]] = @ \union {library[2]}]
      BY <2>2 DEF RegisterBackend
    <3>2. library[1] \in BackendNames /\ library[2] \in BackendIDs
      BY RegistryAssumption DEF IInv, RegistryTypes
    <3>3. registering' \subseteq registering
      BY <2>2 DEF RegisterBackend
    <3> QED
      BY <3>1, <3>2, <3>3 DEF IInv, RegistryTypes
  <2>3. CASE RemoveBackend
    <3>1. PICK name \in BackendNames :
            /\ backends' = backends \ backendIDGroup[name]
            /\ begin' \in IF begin \in backends' THEN {begin}
                          ELSE IF backends' = {} THEN {none} ELSE backends'
            /\ backendIDGroup' = [backendIDGroup EXCEPT ![name] = {}]
            /\ UNCHANGED registering
      BY <2>3 DEF RemoveBackend
    <3> QED
      BY <3>1 DEF IInv, RegistryTypes
  <2> QED
    BY <2>1, <2>2, <2>3 DEF RegistryNext
<1> QED
  BY <1>1 DEF IInv, TypeOK, SuccessHasCompiler, OfItsDevice

\* A new compiler, with what a build may have made of it.
LEMMA BuildKeeps ==
  ASSUME IInv, NEW c \in Compilers, OfItsDevice(c), c.isBuild => c.preparedModel # none,
         compilation # none, NEW result \in {"success", "failed"}, BuildEnds(c, result)
  PROVE  IInv'
<1>1. compiler' = c /\ answer' = result /\ UNCHANGED <<registry, compilation, executors>> /\ c # none
  BY NoneAssumption DEF BuildEnds
<1>2. RegistryTypes'
  BY <1>1 DEF IInv, RegistryTypes, registry
<1> QED
  BY <1>1, <1>2 DEF IInv, TypeOK, SuccessHasCompiler, OfItsDevice

\* Members of a compiler that is changed in one of them.
LEMMA SettingsOfCompiler ==
  ASSUME NEW c \in Compilers, NEW settings \in SUBSET Settings
  PROVE  LET d == [c EXCEPT !.settings = settings]
         IN /\ d \in Compilers /\ d.settings = settings
            /\ d.device = c.device /\ d.isBuild = c.isBuild
            /\ d.preparedModel = c.preparedModel /\ d.hasDescs = c.hasDescs
  BY DEF Compilers

\* A model is prepared for the device of its compiler.
LEMMA ModelOfCompiler ==
  ASSUME NEW c \in Compilers, NEW cached \in BOOLEAN
  PROVE  ModelOf(c, cached) \in PreparedModels /\ ModelOf(c, cached).device = c.device
  BY DEF ModelOf, Compilers, PreparedModels

\* Preparing a model changes nothing else of the compiler.
LEMMA PreparedCompiler ==
  ASSUME NEW c \in Compilers, NEW cached \in BOOLEAN
  PROVE  /\ Prepared(c, cached) \in Compilers
         /\ Prepared(c, cached).preparedModel = ModelOf(c, cached)
         /\ Prepared(c, cached).device = c.device /\ Prepared(c, cached).settings = c.settings
         /\ Prepared(c, cached).isBuild = c.isBuild /\ Prepared(c, cached).hasDescs = c.hasDescs
<1>1. ASSUME NEW model \in PreparedModels
      PROVE  LET d == [c EXCEPT !.preparedModel = model]
             IN /\ d \in Compilers /\ d.preparedModel = model
                /\ d.device = c.device /\ d.settings = c.settings
                /\ d.isBuild = c.isBuild /\ d.hasDescs = c.hasDescs
  BY DEF Compilers
<1> QED
  BY <1>1, ModelOfCompiler DEF Prepared

\* A compiler that is built has a model for its own device.
LEMMA BuiltCompiler ==
  ASSUME NEW c \in Compilers, NEW cached \in BOOLEAN
  PROVE  /\ Built(c, cached) \in Compilers
         /\ Built(c, cached).preparedModel = ModelOf(c, cached)
         /\ Built(c, cached).device = c.device /\ Built(c, cached).settings = c.settings
         /\ Built(c, cached).isBuild /\ Built(c, cached).hasDescs = c.hasDescs
<1>1. ASSUME NEW d \in Compilers
      PROVE  LET b == [d EXCEPT !.isBuild = TRUE]
             IN /\ b \in Compilers /\ b.isBuild
                /\ b.device = d.device /\ b.settings = d.settings
                /\ b.preparedModel = d.preparedModel /\ b.hasDescs = d.hasDescs
  BY DEF Compilers
<1> QED
  BY <1>1, PreparedCompiler DEF Built

\* The compiler of a build, before the device has prepared anything.
LEMMA NewCompilers ==
  ASSUME IInv, Building, NEW settings \in SUBSET Settings, settings \subseteq Supported[NewOne.device]
  PROVE  LET c == [NewOne EXCEPT !.settings = settings]
         IN /\ c \in Compilers /\ OfItsDevice(c) /\ ~c.isBuild
            /\ c.device = GetBackend(compilation.backendID) /\ c.settings = settings
            /\ c.hasDescs <=> compilation.source \in Models \ {"unfinished"}
<1>1. GetBackend(compilation.backendID) \in BackendIDs
  BY FoundBackend DEF Building, IInv
<1> DEFINE device == GetBackend(compilation.backendID)
           hasDescs == compilation.source \in Models \ {"unfinished"}
<1>2. NewOne = [device |-> device, settings |-> {}, isBuild |-> FALSE, preparedModel |-> none, hasDescs |-> hasDescs]
  BY Zenon DEF NewOne, NewCompiler
<1>3. device \in BackendIDs /\ hasDescs \in BOOLEAN
  BY <1>1
<1> HIDE DEF device, hasDescs
<1>4. /\ NewOne \in Compilers /\ NewOne.device = device
      /\ ~NewOne.isBuild /\ NewOne.preparedModel = none /\ NewOne.hasDescs = hasDescs
  BY <1>2, <1>3 DEF Compilers
<1>5. LET c == [NewOne EXCEPT !.settings = settings]
      IN /\ c \in Compilers /\ OfItsDevice(c) /\ ~c.isBuild
         /\ c.device = device /\ c.settings = settings /\ c.hasDescs = hasDescs
  BY <1>4, SettingsOfCompiler DEF OfItsDevice
<1> QED
  BY <1>5 DEF device, hasDescs

\* What is prepared of such a compiler.
LEMMA PreparedForItsDevice ==
  ASSUME NEW c \in Compilers, OfItsDevice(c), NEW cached \in BOOLEAN
  PROVE  /\ OfItsDevice(Prepared(c, cached)) /\ Prepared(c, cached).preparedModel # none
         /\ OfItsDevice(Built(c, cached)) /\ Built(c, cached).preparedModel # none
<1>1. ModelOf(c, cached) # none /\ ModelOf(c, cached).device = c.device
  BY ModelOfCompiler, NoneAssumption
<1>2. c.settings \subseteq Supported[c.device]
  BY DEF OfItsDevice
<1>3. OfItsDevice(Prepared(c, cached)) /\ Prepared(c, cached).preparedModel # none
  BY <1>1, <1>2, PreparedCompiler DEF OfItsDevice
<1>4. OfItsDevice(Built(c, cached)) /\ Built(c, cached).preparedModel # none
  BY <1>1, <1>2, BuiltCompiler DEF OfItsDevice
<1> QED
  BY <1>3, <1>4

\* A restored compiler has the descriptors of the cache.
LEMMA Restored ==
  ASSUME NEW c \in Compilers, OfItsDevice(c), c.preparedModel # none
  PROVE  LET d == [c EXCEPT !.hasDescs = TRUE]
         IN /\ d \in Compilers /\ OfItsDevice(d) /\ d.hasDescs
            /\ d.preparedModel = c.preparedModel /\ d.isBuild = c.isBuild
<1> DEFINE d == [c EXCEPT !.hasDescs = TRUE]
<1>1. /\ d \in Compilers /\ d.hasDescs /\ d.preparedModel = c.preparedModel /\ d.isBuild = c.isBuild
      /\ d.device = c.device /\ d.settings = c.settings
  BY DEF Compilers
<1> QED
  BY <1>1 DEF OfItsDevice

-----------------------------------------------------------------------------
(* Builds.                                                                  *)

\* Each way a build can end: what the compiler is, and what is answered.
BuildOutcome ==
  \/ UNCHANGED <<registry, compilation, compiler, executors>> /\ answer' = "failed"
  \/ \E c \in Compilers, result \in {"success", "failed"} :
       /\ Building /\ compilation # none
       /\ OfItsDevice(c) /\ (c.isBuild => c.preparedModel # none)
       /\ BuildEnds(c, result)
       /\ result = "success" => c.preparedModel = AsAsked /\ c.hasDescs

\* Build has only these outcomes.
LEMMA BuildOutcomes ==
  ASSUME IInv, Build
  PROVE  BuildOutcome
<1>1. CASE BuildRefused
  BY <1>1 DEF BuildRefused, BuildOutcome
<1>2. CASE OptionsRefused
  <2>1. PICK i \in 0..Len(Options) - 1 :
          /\ Upto(i) \subseteq Supported[NewOne.device]
          /\ BuildEnds([NewOne EXCEPT !.settings = Upto(i)], "failed")
    BY <1>2 DEF OptionsRefused
  <2>2. Building /\ compilation # none
    BY <1>2 DEF OptionsRefused, Building
  <2>3. Upto(i) \in SUBSET Settings
    BY <2>2 DEF Upto, IInv, TypeOK, Handles
  <2> QED
    BY <2>1, <2>2, <2>3, NewCompilers DEF BuildOutcome
<1>3. CASE NothingPrepared \/ BuildOfflineModel \/ RestoreFromCacheFile \/ RestoredOnly \/ NormalBuild
  <2>0. OptionsSet
    BY <1>3 DEF NothingPrepared, BuildOfflineModel, RestoreFromCacheFile, UsesCache, RestoredOnly, NormalBuild
  <2>1. Building /\ compilation # none
    BY <2>0 DEF OptionsSet, Building
  <2>2. compilation.settings \in SUBSET Settings
    BY <2>1 DEF IInv, TypeOK, Handles
  <2> DEFINE c == SetCompilationOptions
  <2>3. /\ c \in Compilers /\ OfItsDevice(c) /\ ~c.isBuild
        /\ c.device = GetBackend(compilation.backendID) /\ c.settings = compilation.settings
        /\ c.hasDescs <=> compilation.source \in Models \ {"unfinished"}
    BY <2>0, <2>1, <2>2, NewCompilers DEF OptionsSet, SetCompilationOptions
  <2> HIDE DEF c
  <2>4. ASSUME NEW cached \in BOOLEAN
        PROVE  /\ Prepared(c, cached) \in Compilers /\ OfItsDevice(Prepared(c, cached)) /\ ~Prepared(c, cached).isBuild
               /\ Built(c, cached) \in Compilers /\ OfItsDevice(Built(c, cached))
               /\ Built(c, cached).preparedModel # none
               /\ Built(c, cached).preparedModel = ModelOf(c, cached)
               /\ Built(c, cached).hasDescs <=> compilation.source \in Models \ {"unfinished"}
    BY <2>3, PreparedForItsDevice, PreparedCompiler, BuiltCompiler
  <2>5. ASSUME NEW cached \in BOOLEAN,
               cached <=> "cache" \in compilation.settings /\ compilation.source # "offlineModel"
        PROVE  ModelOf(c, cached) = AsAsked
    BY <2>3, <2>5 DEF ModelOf, AsAsked
  <2>6. CASE BuildOfflineModel \/ NormalBuild
    <3>1. compilation.source \in {"offlineModel", "model"}
      BY <2>6 DEF BuildOfflineModel, NormalBuild
    <3>2. \A cached \in BOOLEAN : Built(c, cached).hasDescs
      BY <2>4, <3>1 DEF Models
    <3>3. CASE BuildOfflineModel
      BY <2>1, <2>4, <2>5, <3>2, <3>3 DEF BuildOfflineModel, BuildOutcome, c
    <3>4. CASE NormalBuild
      <4> DEFINE cached == "cache" \in compilation.settings
      <4>1. BuildEnds(Built(c, cached), "success") \/ BuildEnds(Built(c, FALSE), "failed")
        BY <3>4 DEF NormalBuild, c
      <4>2. /\ cached \in BOOLEAN
            /\ cached <=> "cache" \in compilation.settings /\ compilation.source # "offlineModel"
        BY <3>4 DEF NormalBuild
      <4> HIDE DEF cached
      <4>3. ModelOf(c, cached) = AsAsked
        BY <2>5, <4>2
      <4> QED
        BY <2>1, <2>4, <3>2, <4>1, <4>2, <4>3 DEF BuildOutcome
    <3> QED
      BY <2>6, <3>3, <3>4
  <2>7. CASE RestoreFromCacheFile
    <3> DEFINE d == [Built(c, TRUE) EXCEPT !.hasDescs = TRUE]
    <3>1. /\ d \in Compilers /\ OfItsDevice(d) /\ d.hasDescs /\ d.preparedModel # none
          /\ d.preparedModel = ModelOf(c, TRUE)
      BY <2>4, Restored
    <3>2. BuildEnds(d, "success") \/ BuildEnds(d, "failed")
      BY <2>7 DEF RestoreFromCacheFile, c
    <3>3. ModelOf(c, TRUE) = AsAsked
      BY <2>7, <2>5 DEF RestoreFromCacheFile, UsesCache
    <3> HIDE DEF d
    <3> QED
      BY <2>1, <3>1, <3>2, <3>3 DEF BuildOutcome
  <2>8. CASE RestoredOnly \/ NothingPrepared
    <3>1. BuildEnds(Prepared(c, TRUE), "failed") \/ BuildEnds(c, "failed")
      BY <2>8 DEF RestoredOnly, NothingPrepared, c
    <3> QED
      BY <2>1, <2>3, <2>4, <3>1 DEF BuildOutcome
  <2> QED
    BY <1>3, <2>6, <2>7, <2>8
<1> QED
  BY <1>1, <1>2, <1>3 DEF Build

\* A build with a handle preserves the invariant.
LEMMA BuildKeepsIInv ==
  ASSUME IInv, compilation # none, Build
  PROVE  IInv'
<1>1. CASE UNCHANGED <<registry, compilation, compiler, executors>> /\ answer' = "failed"
  BY <1>1 DEF registry, IInv, RegistryTypes, TypeOK, SuccessHasCompiler, OfItsDevice
<1> QED
  BY <1>1, BuildOutcomes, BuildKeeps DEF BuildOutcome

-----------------------------------------------------------------------------
(* The other calls.                                                         *)

\* The setters and ConstructExecutor leave the registry alone.
LEMMA SameRegistry ==
  ASSUME IInv, UNCHANGED registry
  PROVE  RegistryTypes'
  BY DEF registry, IInv, RegistryTypes

\* The calls on the handle preserve it.
LEMMA HandleKeeps ==
  ASSUME IInv, Construct \/ ImportCacheFromBuffer \/ SetDevice \/ SetForBuild \/ Destroy
  PROVE  IInv'
<1>1. RegistryTypes'
  BY SameRegistry DEF Construct, ImportCacheFromBuffer, SetDevice, SetForBuild, Destroy
<1>2. CASE compilation # none /\ compilation' \in Handles /\ UNCHANGED <<compiler, answer, executors>>
  BY <1>1, <1>2, NoneAssumption DEF IInv, TypeOK, SuccessHasCompiler, OfItsDevice
<1>3. CASE Construct
  <2>1. compilation' \in Handles /\ compilation = none /\ answer' = none /\ UNCHANGED <<compiler, executors>>
    BY <1>3 DEF Construct, Handles
  <2> QED
    BY <1>1, <2>1, NoneAssumption DEF IInv, TypeOK, SuccessHasCompiler, OfItsDevice
<1>4. CASE ImportCacheFromBuffer
  BY <1>2, <1>4 DEF ImportCacheFromBuffer, IInv, TypeOK, Handles
<1>5. CASE SetDevice
  BY <1>2, <1>5 DEF SetDevice, IInv, TypeOK, Handles
<1>6. CASE SetForBuild
  <2>1. PICK s \in Wanted, on \in BOOLEAN :
          compilation' = [compilation EXCEPT !.settings = Switched(@, s, on)]
    BY <1>6 DEF SetForBuild
  <2>2. s \in Settings /\ compilation # none /\ UNCHANGED <<compiler, answer, executors>>
    BY <1>6, CompilationAssumption DEF SetForBuild
  <2>3. compilation \in Handles
    BY <2>2 DEF IInv, TypeOK
  <2>4. Switched(compilation.settings, s, on) \in SUBSET Settings
    BY <2>2, <2>3 DEF Switched, Handles
  <2> QED
    BY <1>2, <2>1, <2>2, <2>3, <2>4 DEF Handles
<1>7. CASE Destroy
  BY <1>1, <1>7, NoneAssumption DEF Destroy, IInv, TypeOK, SuccessHasCompiler, OfItsDevice
<1> QED
  BY <1>3, <1>4, <1>5, <1>6, <1>7

\* A setting that is handed on is supported by the compiler's device.
LEMMA SetNowKeeps ==
  ASSUME IInv, SetNow
  PROVE  IInv' /\ (compiler # none => /\ compiler' # none /\ compiler'.device = compiler.device
                                      /\ compiler'.isBuild = compiler.isBuild
                                      /\ compiler'.preparedModel = compiler.preparedModel)
<1>1. PICK s \in Wanted, on \in BOOLEAN, answers \in BOOLEAN :
        /\ compilation' = [compilation EXCEPT !.settings = Switched(@, s, on)]
        /\ IF compiler # none /\ answers /\ Allowed(s, on)
           THEN compiler' = [compiler EXCEPT !.settings = Switched(@, s, on)]
           ELSE UNCHANGED compiler
  BY DEF SetNow
<1>2. s \in Settings /\ compilation \in Handles /\ UNCHANGED <<registry, answer, executors>>
  BY CompilationAssumption DEF SetNow, IInv, TypeOK
<1>3. Switched(compilation.settings, s, on) \in SUBSET Settings
  BY <1>2 DEF Switched, Handles
<1>4. compilation' \in Handles
  BY <1>1, <1>2, <1>3 DEF Handles
<1>5. compilation' # none /\ compilation # none /\ RegistryTypes'
  BY <1>2, <1>4, NoneAssumption, SameRegistry
<1>6. CASE UNCHANGED compiler
  BY <1>2, <1>4, <1>5, <1>6 DEF IInv, TypeOK, SuccessHasCompiler, OfItsDevice
<1>7. CASE compiler # none /\ Allowed(s, on) /\ compiler' = [compiler EXCEPT !.settings = Switched(@, s, on)]
  <2>1. compiler \in Compilers
    BY <1>7 DEF IInv, TypeOK
  <2> DEFINE settings == Switched(compiler.settings, s, on)
  <2>2. settings \in SUBSET Settings
    BY <1>2, <2>1 DEF Switched, Compilers
  <2>3. settings \subseteq Supported[compiler.device]
    BY <1>7 DEF IInv, OfItsDevice, Allowed, Switched
  <2>4. compiler' = [compiler EXCEPT !.settings = settings]
    BY <1>7, <2>1 DEF Compilers
  <2> HIDE DEF settings
  <2>5. /\ compiler' \in Compilers /\ compiler'.settings = settings /\ compiler' # none
        /\ compiler'.device = compiler.device /\ compiler'.isBuild = compiler.isBuild
        /\ compiler'.preparedModel = compiler.preparedModel
    BY <2>1, <2>2, <2>4, SettingsOfCompiler, NoneAssumption
  <2>6. OfItsDevice(compiler')
    BY <1>7, <2>3, <2>5 DEF IInv, OfItsDevice
  <2> QED
    BY <1>2, <1>4, <1>5, <1>7, <2>5, <2>6 DEF IInv, TypeOK, SuccessHasCompiler, OfItsDevice
<1> QED
  BY <1>1, <1>6, <1>7

\* The calls on executors preserve it.
LEMMA ExecutorsKeep ==
  ASSUME IInv, ConstructExecutor \/ DestroyExecutor
  PROVE  IInv'
<1>1. RegistryTypes' /\ UNCHANGED <<compilation, compiler, answer>>
  BY SameRegistry DEF ConstructExecutor, DestroyExecutor
<1>2. CASE ConstructExecutor
  <2> DEFINE e == [device |-> compiler.device, settings |-> compiler.settings, preparedModel |-> compiler.preparedModel]
  <2>1. compiler \in Compilers /\ OfItsDevice(compiler) /\ compiler.preparedModel \in PreparedModels
    BY <1>2 DEF ConstructExecutor, IInv, TypeOK, Compilers
  <2>2. e \in Executors /\ OfItsDevice(e)
    BY <2>1 DEF Executors, Compilers, OfItsDevice
  <2>3. executors' = executors \union {e}
    BY <1>2 DEF ConstructExecutor, ExecutorDevice
  <2> HIDE DEF e
  <2> QED
    BY <1>1, <2>2, <2>3 DEF IInv, TypeOK, SuccessHasCompiler, OfItsDevice
<1>3. CASE DestroyExecutor
  BY <1>1, <1>3 DEF DestroyExecutor, IInv, TypeOK, SuccessHasCompiler, OfItsDevice
<1> QED
  BY <1>2, <1>3

\* A build begins with a handle.
LEMMA BuildHasHandle == Build => compilation # none
  BY DEF Build, BuildRefused, OptionsRefused, NothingPrepared, BuildOfflineModel, RestoreFromCacheFile,
         UsesCache, RestoredOnly, NormalBuild, OptionsSet, Building

\* Every step preserves the invariant.
LEMMA IInvKept == IInv /\ [Next]_vars => IInv'
<1> SUFFICES ASSUME IInv, [Next]_vars PROVE IInv'
  OBVIOUS
<1>1. CASE UNCHANGED vars
  BY <1>1, SameRegistry DEF vars, IInv, TypeOK, SuccessHasCompiler, OfItsDevice
<1>2. CASE Build
  BY <1>2, BuildHasHandle, BuildKeepsIInv
<1> QED
  BY <1>1, <1>2, RegistryKeeps, HandleKeeps, SetNowKeeps, ExecutorsKeep DEF Next

-----------------------------------------------------------------------------
(* The tables of the registry.                                              *)

\* A list without repetitions gets one member more.
LEMMA AppendedList ==
  ASSUME NEW S, NEW ids \in Seq(S), IsInjective(ids), NEW id \in S, id \notin ToSet(ids)
  PROVE  /\ Append(ids, id) \in Seq(S)
         /\ IsInjective(Append(ids, id))
         /\ ToSet(Append(ids, id)) = ToSet(ids) \union {id}
<1> DEFINE a == Append(ids, id)
<1>1. /\ a \in Seq(S) /\ DOMAIN a = DOMAIN ids \union {Len(ids) + 1}
      /\ a[Len(ids) + 1] = id
      /\ \A k \in DOMAIN ids : a[k] = ids[k]
  OBVIOUS
<1> HIDE DEF a
<1>2. IsInjective(a) /\ ToSet(a) = ToSet(ids) \union {id}
  BY <1>1 DEF IsInjective, ToSet
<1> QED
  BY <1>1, <1>2 DEF a

\* What erasing takes out of a list without repetitions is gone, and the rest
\* is there once.
LEMMA ErasedList ==
  ASSUME NEW S, NEW ids \in Seq(S), IsInjective(ids), NEW removed
  PROVE  /\ Erased(ids, removed) \in Seq(S)
         /\ IsInjective(Erased(ids, removed))
         /\ ToSet(Erased(ids, removed)) = ToSet(ids) \ removed
<1> DEFINE n == Len(ids)
           Body(i, rest) == IF ids[i] \in removed THEN rest ELSE Append(rest, ids[i])
           body == [turn \in (1..n) \X Seq(S) |-> Body(turn[1], turn[2])]
<1>1. n \in Nat /\ <<>> \in Seq(S) /\ \A i \in 1..n : ids[i] \in S
  OBVIOUS
<1>2. \A i \in 1..n, rest \in Seq(S) : Body(i, rest) \in Seq(S)
  BY <1>1
<1>3. \A i \in 1..n, rest \in Seq(S) : body[<<i, rest>>] = Body(i, rest)
  <2> HIDE DEF Body
  <2> QED
    OBVIOUS
<1>4. PICK g \in [0..n -> Seq(S)] : g[0] = <<>> /\ \A i \in 1..n : g[i] = body[<<i, g[i - 1]>>]
  <2> HIDE DEF body, n, Body
  <2>1. IsBody(body, n, Seq(S))
    BY <1>2, <1>3 DEF IsBody
  <2>2. \E g \in [0..n -> Seq(S)] : IsLoop(g, n, <<>>, body)
    BY <1>1, <2>1, LoopExists
  <2> QED
    BY <2>2 DEF IsLoop
<1> HIDE DEF body
<1>5. \A i \in 1..n : i - 1 \in 0..n /\ g[i - 1] \in Seq(S)
  <2> HIDE DEF n
  <2>1. \A i \in 1..n : i - 1 \in 0..n
    BY <1>1
  <2> QED
    BY <1>4, <2>1
<1>6. g = [i \in 0..n |-> IF i = 0 THEN <<>> ELSE Body(i, g[i - 1])]
  <2> HIDE DEF Body, n
  <2>1. ASSUME NEW i \in 0..n PROVE g[i] = IF i = 0 THEN <<>> ELSE Body(i, g[i - 1])
    <3>1. CASE i = 0
      BY <1>4, <3>1
    <3>2. CASE i # 0
      <4>1. i \in 1..n
        BY <1>1, <3>2
      <4> QED
        BY <1>3, <1>4, <1>5, <3>2, <4>1
    <3> QED
      BY <3>1, <3>2
  <2> QED
    BY <1>4, <2>1
<1> DEFINE f == ErasedAfter(ids, removed)
<1>7. f = [i \in 0..n |-> IF i = 0 THEN <<>> ELSE Body(i, f[i - 1])]
  <2>1. \E h : h = [i \in 0..Len(ids) |->
                      IF i = 0 THEN <<>>
                      ELSE IF ids[i] \in removed THEN h[i - 1] ELSE Append(h[i - 1], ids[i])]
    BY <1>6
  <2> QED
    BY <2>1 DEF ErasedAfter
<1> HIDE DEF f
<1>8. /\ f[0] = <<>>
      /\ \A i \in 1..n : f[i] = IF ids[i] \in removed THEN f[i - 1] ELSE Append(f[i - 1], ids[i])
  <2> HIDE DEF n
  <2> DEFINE r == [i \in 0..n |-> IF i = 0 THEN <<>> ELSE Body(i, f[i - 1])]
  <2>1. 0 \in 0..n /\ \A i \in 1..n : i \in 0..n /\ i # 0
    BY <1>1
  <2>2. f = r
    BY <1>7
  <2>3. r[0] = <<>> /\ \A i \in 1..n : r[i] = Body(i, f[i - 1])
    <3> HIDE DEF Body
    <3> QED
      BY <2>1
  <2> HIDE DEF r
  <2> QED
    BY <2>2, <2>3
<1> DEFINE Before(i) == {ids[j] : j \in 1..i}
           Right(i) == f[i] \in Seq(S) /\ IsInjective(f[i]) /\ ToSet(f[i]) = Before(i) \ removed
           S0 == {i \in 0..n : Right(i)}
<1>9. S0 \in SUBSET (0..n) /\ 0 \in S0
  <2>1. Right(0) /\ 0 \in 0..n
    BY <1>1, <1>8 DEF IsInjective, ToSet
  <2> HIDE DEF Before
  <2> QED
    BY <2>1
<1>10. ASSUME NEW i \in S0, i < n PROVE i + 1 \in S0
  <2>1. i \in 0..n /\ i + 1 \in 1..n /\ i + 1 \in 0..n /\ (i + 1) - 1 = i /\ Right(i)
    BY <1>10
  <2>2. Before(i + 1) = Before(i) \union {ids[i + 1]}
    BY <2>1
  <2>3. ids[i + 1] \notin Before(i)
    BY <2>1 DEF IsInjective
  <2>4. f[i] \in Seq(S) /\ ids[i + 1] \in S
    BY <1>1, <2>1
  <2>5. CASE ids[i + 1] \in removed
    BY <1>8, <2>1, <2>2, <2>5
  <2>6. CASE ids[i + 1] \notin removed
    <3>1. f[i + 1] = Append(f[i], ids[i + 1])
      BY <1>8, <2>1, <2>6
    <3>2. ids[i + 1] \notin ToSet(f[i]) /\ IsInjective(f[i])
      BY <2>1, <2>3
    <3> HIDE DEF Before
    <3>3. /\ f[i + 1] \in Seq(S) /\ IsInjective(f[i + 1])
          /\ ToSet(f[i + 1]) = ToSet(f[i]) \union {ids[i + 1]}
      BY <2>4, <3>1, <3>2, AppendedList
    <3>4. Right(i + 1)
      BY <2>1, <2>2, <2>6, <3>3
    <3> QED
      BY <2>1, <3>4
  <2> QED
    BY <2>5, <2>6
<1> HIDE DEF S0
<1>11. S0 = 0..n
  BY <1>1, <1>9, <1>10, EveryTurn
<1>12. Right(n)
  <2>1. n \in S0
    BY <1>1, <1>11
  <2> QED
    BY <2>1 DEF S0
<1>13. Before(n) = ToSet(ids)
  BY DEF ToSet
<1> QED
  BY <1>12, <1>13 DEF Erased, f

\* The empty tables agree.
LEMMA InitRegistry == Init => RegistryInv
  BY NoneAssumption DEF Init, RegistryInit, RegistryInv, RegistryTypes, RegistryAgrees, IsInjective, ToSet

\* A registration keeps the tables in agreement.
LEMMA RegisteredOnce ==
  ASSUME RegistryInv, RegistryTypes', RegisterBackend
  PROVE  RegistryInv'
<1>1. PICK library \in registering :
        IF IsRegistered(library[1], library[2])
        THEN UNCHANGED <<backends, begin, backendIDs, backendIDGroup>>
        ELSE /\ backends' = backends \union {library[2]}
             /\ begin' \in backends'
             /\ backendIDs' = Append(backendIDs, library[2])
             /\ backendIDGroup' = [backendIDGroup EXCEPT ![library[1]] = @ \union {library[2]}]
  BY DEF RegisterBackend
<1>2. library[1] \in BackendNames /\ library[2] \in BackendIDs
  BY RegistryAssumption DEF RegistryInv, RegistryTypes
<1> DEFINE name == library[1]
           id == library[2]
<1>3. CASE IsRegistered(name, id)
  BY <1>1, <1>3 DEF RegistryInv, RegistryAgrees
<1>4. CASE ~IsRegistered(name, id)
  <2> HIDE DEF name, id
  <2>1. /\ name \in BackendNames /\ id \in BackendIDs /\ id \notin ToSet(backendIDs)
        /\ backends' = backends \union {id} /\ begin' \in backends'
        /\ backendIDs' = Append(backendIDs, id)
        /\ backendIDGroup' = [backendIDGroup EXCEPT ![name] = @ \union {id}]
    BY <1>1, <1>2, <1>4 DEF IsRegistered, name, id
  <2>2. /\ backendIDs \in Seq(BackendIDs) /\ IsInjective(backendIDs) /\ ToSet(backendIDs) = backends
        /\ backendIDGroup \in [BackendNames -> SUBSET BackendIDs]
        /\ UNION {backendIDGroup[n] : n \in BackendNames} = backends
        /\ \A n1, n2 \in BackendNames : n1 # n2 => backendIDGroup[n1] \intersect backendIDGroup[n2] = {}
    BY DEF RegistryInv, RegistryTypes, RegistryAgrees
  <2>3. backendIDs' \in Seq(BackendIDs) /\ IsInjective(backendIDs') /\ ToSet(backendIDs') = backends'
    BY <2>1, <2>2, AppendedList
  <2>4. \A n \in BackendNames :
          backendIDGroup'[n] = IF n = name THEN backendIDGroup[n] \union {id} ELSE backendIDGroup[n]
    BY <2>1, <2>2
  <2>5. \A n \in BackendNames : backendIDGroup[n] \subseteq backends
    BY <2>2
  <2>6. UNION {backendIDGroup'[n] : n \in BackendNames} = backends'
    BY <2>1, <2>2, <2>4
  <2>7. \A n1, n2 \in BackendNames : n1 # n2 => backendIDGroup'[n1] \intersect backendIDGroup'[n2] = {}
    BY <2>1, <2>2, <2>4, <2>5
  <2> QED
    BY <2>1, <2>3, <2>6, <2>7 DEF RegistryInv, RegistryAgrees
<1> QED
  BY <1>3, <1>4

\* So does a removal.
LEMMA RemovedEverywhere ==
  ASSUME RegistryInv, RegistryTypes', RemoveBackend
  PROVE  RegistryInv'
<1>1. PICK name \in BackendNames :
        /\ backends' = backends \ backendIDGroup[name]
        /\ begin' \in IF begin \in backends' THEN {begin}
                      ELSE IF backends' = {} THEN {none} ELSE backends'
        /\ backendIDs' = Erased(backendIDs, backendIDGroup[name])
        /\ backendIDGroup' = [backendIDGroup EXCEPT ![name] = {}]
  BY DEF RemoveBackend
<1>2. /\ backendIDs \in Seq(BackendIDs) /\ IsInjective(backendIDs) /\ ToSet(backendIDs) = backends
      /\ backendIDGroup \in [BackendNames -> SUBSET BackendIDs]
      /\ UNION {backendIDGroup[n] : n \in BackendNames} = backends
      /\ \A n1, n2 \in BackendNames : n1 # n2 => backendIDGroup[n1] \intersect backendIDGroup[n2] = {}
      /\ backends \subseteq BackendIDs /\ none \notin backends
  BY RegistryAssumption DEF RegistryInv, RegistryTypes, RegistryAgrees
<1>3. backendIDs' \in Seq(BackendIDs) /\ IsInjective(backendIDs') /\ ToSet(backendIDs') = backends'
  BY <1>1, <1>2, ErasedList
<1>4. \A n \in BackendNames : backendIDGroup'[n] = IF n = name THEN {} ELSE backendIDGroup[n]
  BY <1>1, <1>2
<1>5. UNION {backendIDGroup'[n] : n \in BackendNames} = backends'
  BY <1>1, <1>2, <1>4
<1>6. \A n1, n2 \in BackendNames : n1 # n2 => backendIDGroup'[n1] \intersect backendIDGroup'[n2] = {}
  BY <1>2, <1>4
<1>7. IF backends' = {} THEN begin' = none ELSE begin' \in backends'
  BY <1>1
<1> QED
  BY <1>3, <1>5, <1>6, <1>7 DEF RegistryInv, RegistryAgrees

\* Every step keeps the tables in agreement.
LEMMA RegistryKept ==
  ASSUME RegistryInv, IInv, IInv', [Next]_vars
  PROVE  RegistryInv'
<1>0. RegistryTypes'
  BY DEF IInv
<1>1. CASE UNCHANGED <<backends, begin, backendIDs, backendIDGroup>>
  BY <1>0, <1>1 DEF RegistryInv, RegistryAgrees
<1>2. CASE RegistryNext
  BY <1>0, <1>1, <1>2, RegisteredOnce, RemovedEverywhere DEF RegistryNext, CreateBackend
<1>3. CASE UNCHANGED registry
  BY <1>1, <1>3 DEF registry
<1>4. RegistryNext \/ UNCHANGED registry
  BY BuildOutcomes DEF BuildOutcome, BuildEnds, Next, vars, registry, Construct, ImportCacheFromBuffer, SetDevice, SetForBuild, SetNow,
         Destroy, ConstructExecutor, DestroyExecutor
<1> QED
  BY <1>2, <1>3, <1>4

-----------------------------------------------------------------------------
(* Theorems.                                                                *)

\* The inductive invariant: types, and that what a compiler or an executor has
\* is supported by, and prepared on, its own device.
THEOREM Invariant == Spec => []IInv
  BY InitIInv, IInvKept, PTL DEF Spec

\* Every variable keeps its type, and a finished build has its model.
THEOREM TypeCorrect == Spec => []TypeOK
<1>1. IInv => TypeOK
  BY DEF IInv
<1> QED
  BY <1>1, Invariant, PTL

\* The tables of the registry (m_backends, m_backendIDs and m_backendIDGroup)
\* name the same backends, each once, in whatever order libraries register and
\* remove them.
THEOREM RegistryConsistent == Spec => []RegistryAgrees
<1>1. RegistryInv /\ IInv /\ IInv' /\ [Next]_vars => RegistryInv'
  BY RegistryKept
<1>2. RegistryInv => RegistryAgrees
  BY DEF RegistryInv
<1> QED
  BY <1>1, <1>2, InitRegistry, Invariant, PTL DEF Spec

\* No setting gets into force that the device does not support
\* (NNCompiler::SetPerformance and the like), whenever it is set.
THEOREM SupportedSettings == Spec => []SettingsAreSupported
<1>1. IInv => SettingsAreSupported
  BY DEF IInv, SettingsAreSupported, OfItsDevice
<1> QED
  BY <1>1, Invariant, PTL

\* Executors run on the device their model was prepared on, although
\* OH_NNExecutor_Construct looks up the backend that is set by then.
THEOREM ExecutorDevices == Spec => []ExecutorsUseTheirDevice
<1>1. IInv => ExecutorsUseTheirDevice
  <2>1. ASSUME IInv, NEW e \in executors PROVE e.preparedModel.device = e.device
    <3>1. e.preparedModel \in PreparedModels
      BY <2>1 DEF IInv, TypeOK, Executors
    <3> QED
      BY <2>1, <3>1, NoneAssumption DEF IInv, OfItsDevice
  <2> QED
    BY <2>1 DEF IInv, OfItsDevice, ExecutorsUseTheirDevice
<1> QED
  BY <1>1, Invariant, PTL

\* A handle that has a compiler keeps its build until it is destroyed.
THEOREM OneBuild == Spec => BuiltAtMostOnce
<1> DEFINE Kept ==
  compiler # none =>
    \/ compilation' = none
    \/ /\ compiler' # none
       /\ compiler'.device = compiler.device
       /\ compiler'.isBuild = compiler.isBuild
       /\ compiler'.preparedModel = compiler.preparedModel
<1>1. IInv /\ [Next]_vars => [Kept]_vars
  <2> SUFFICES ASSUME IInv, Next, compiler # none PROVE Kept
    OBVIOUS
  <2>1. CASE UNCHANGED compiler
    BY <2>1
  <2>2. CASE SetNow
    BY <2>2, SetNowKeeps
  <2>3. CASE Build
    BY <2>1, <2>3, BuildOutcomes DEF BuildOutcome, Building, IsCompilationAvaliable
  <2> QED
    BY <2>1, <2>2, <2>3 DEF Next, RegistryNext, Construct, ImportCacheFromBuffer, SetDevice, SetForBuild,
                            Destroy, ConstructExecutor, DestroyExecutor
<1> QED
  BY <1>1, Invariant, PTL DEF Spec, BuiltAtMostOnce

\* A build that answers success has prepared the model for the device and with the
\* settings the client asked for, and through the cache if one was asked for; of an
\* offline model BuildOfflineModel ignores the cache.
THEOREM Success == Spec => SuccessIsAsAsked
<1> DEFINE Kept ==
  answer' = "success" /\ compiler = none => compiler'.preparedModel = AsAsked /\ compiler'.hasDescs
<1>1. IInv /\ [Next]_vars => [Kept]_vars
  <2> SUFFICES ASSUME IInv, Next, answer' = "success", compiler = none PROVE Kept
    OBVIOUS
  <2>1. answer # "success" /\ none # "success"
    BY NoneAssumption DEF IInv, SuccessHasCompiler
  <2>2. Build
    BY <2>1 DEF Next, Construct, ImportCacheFromBuffer, SetDevice, SetForBuild, SetNow,
                Destroy, ConstructExecutor, DestroyExecutor
  <2> QED
    BY <2>2, BuildOutcomes DEF BuildOutcome, BuildEnds
<1> QED
  BY <1>1, Invariant, PTL DEF Spec, SuccessIsAsAsked
=============================================================================
