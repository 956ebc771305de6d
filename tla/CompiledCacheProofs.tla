------------------------- MODULE CompiledCacheProofs -------------------------
(* Proofs, for any number of processes, files, versions and saves, that        *)
(* CacheInv is an invariant of CompiledCache: the restore of a cache directory *)
(* is atomic although nothing is locked, and the version in cache_info follows *)
(* the driver's operator version.                                              *)
(* With one process the device moreover gets the files that were checked, a    *)
(* success has left its cache, and later versions are kept.                    *)
(*                                                                             *)
(* The argument: a file that is not what cache_info vouches for stays so until *)
(* it is looked at, unless another process writes those very bytes into it     *)
(* meanwhile; and a version is lowered only with an operator version that is   *)
(* newer than the one in the cache_info it replaces.                           *)
EXTENDS CompiledCache, SequenceTheorems, TLAPS

-----------------------------------------------------------------------------
(* Types.                                                                    *)

\* Every label a builder goes to in the code's order of steps is a label.
LEMMA GotoType ==
  ASSUME TypeOK, NEW b \in Builders, NEW l \in Labels, Goto(b, l)
  PROVE  pc' \in [Builders -> Labels]
  BY DEF TypeOK, Goto

\* A save that NormalBuild began has a number, a version, a device, the operator
\* version of the device's driver, and the bytes of its files.
LEMMA SavesTyped ==
  ASSUME TypeOK, NEW s \in DOMAIN saves
  PROVE  /\ s \in Saves /\ saves[s].version \in Nat /\ saves[s].opVersion \in Nat
         /\ saves[s].device \in Devices /\ saves[s].image \in [Files -> Contents]
<1>1. saves \in Seq(SaveStates) /\ Len(saves) <= MaxSaves
  BY DEF TypeOK
<1>2. Len(saves) \in Nat /\ s \in 1..Len(saves) /\ saves[s] \in SaveStates
  BY <1>1
<1> QED BY <1>1, <1>2, CacheAssumption DEF Saves, SaveStates

\* Whether the directory holds a whole cache is a Boolean.
LEMMA WholeType == IsWhole \in BOOLEAN
  BY Zenon DEF IsWhole

\* Types: cache_info that cannot be looked up or opened.
LEMMA CannotReadInfoTypes ==
  ASSUME CacheInv, TypeOK, NEW b \in Builders, CannotReadInfo(b)
  PROVE  TypeOK'
<1>1. pc' \in [Builders -> Labels]
  <2>1. PICK l \in Labels : Goto(b, l)
    BY DEF CannotReadInfo, Return, InvalidFile, OtherError, Labels
  <2> QED BY <2>1, GotoType
<1>2. result' \in [Builders -> {"none", "success", "forbidden", "error"}]
  BY DEF TypeOK, CannotReadInfo, Goto, Return, InvalidFile, OtherError
<1>3. unread' \in [Builders -> BOOLEAN]
  BY Zenon DEF TypeOK, CannotReadInfo
<1> QED BY <1>1, <1>2, <1>3 DEF TypeOK, CannotReadInfo, disk, local

\* Types: reading cache_info in CheckCacheInfo.
LEMMA ReadInfoTypes ==
  ASSUME CacheInv, TypeOK, NEW b \in Builders, ReadInfo(b)
  PROVE  TypeOK'
<1>1. pc' \in [Builders -> Labels]
  <2>1. PICK l \in Labels : Goto(b, l)
    BY DEF ReadInfo, Return, InvalidFile, OtherError, Forbidden, Labels
  <2> QED BY <2>1, GotoType
<1>2. result' \in [Builders -> {"none", "success", "forbidden", "error"}]
  BY DEF TypeOK, ReadInfo, Goto, Return, InvalidFile, OtherError, Forbidden
<1>3. seen' \in [Builders -> InfoStates]
  BY DEF TypeOK, ReadInfo
<1>4. next' \in [Builders -> 0..LastFile + 1]
  BY CacheAssumption DEF TypeOK, ReadInfo
<1>5. whole' \in [Builders -> BOOLEAN]
  BY WholeType, Zenon DEF TypeOK, ReadInfo
<1> QED BY <1>1, <1>2, <1>3, <1>4, <1>5 DEF TypeOK, ReadInfo, disk, local

\* Types: checking one file's checksum in Restore.
LEMMA CheckFileTypes ==
  ASSUME CacheInv, TypeOK, NEW b \in Builders, CheckFile(b)
  PROVE  TypeOK'
<1>1. pc' \in [Builders -> Labels]
  <2>1. PICK l \in Labels : Goto(b, l)
    BY DEF CheckFile, Return, InvalidFile, Labels
  <2> QED BY <2>1, GotoType
<1>2. result' \in [Builders -> {"none", "success", "forbidden", "error"}]
  BY DEF TypeOK, CheckFile, Goto, Return, InvalidFile
<1>3. next' \in [Builders -> 0..LastFile + 1]
  <2>1. next[b] \in Files
    BY DEF CheckFile, CacheInv, RestoresAreSound
  <2> DEFINE n == IF next[b] = LastFile THEN 0 ELSE next[b] + 1
  <2>2. n \in 0..LastFile + 1
    BY <2>1, CacheAssumption DEF Files
  <2>3. next' = next \/ next' = [next EXCEPT ![b] = n]
    BY DEF CheckFile
  <2> HIDE DEF n
  <2> QED BY <2>2, <2>3 DEF TypeOK
<1> QED BY <1>1, <1>2, <1>3 DEF TypeOK, CheckFile, disk, local, noted

\* Types: preparing a model from the mapped cache.
LEMMA PrepareFromCacheTypes ==
  ASSUME CacheInv, TypeOK, NEW b \in Builders, PrepareFromCache(b)
  PROVE  TypeOK'
<1>1. pc' \in [Builders -> Labels]
  <2>1. PICK l \in Labels : Goto(b, l)
    BY DEF PrepareFromCache, Return, InvalidFile, OtherError, Forbidden, Labels
  <2> QED BY <2>1, GotoType
<1>2. result' \in [Builders -> {"none", "success", "forbidden", "error"}]
  BY DEF TypeOK, PrepareFromCache, Goto, Return, InvalidFile, OtherError, Forbidden
<1> QED BY <1>1, <1>2 DEF TypeOK, PrepareFromCache, disk, local, noted

\* Types: the operator version of RestoreFromCacheFile.
LEMMA ReadOpVersionTypes ==
  ASSUME CacheInv, TypeOK, NEW b \in Builders, ReadOpVersion(b)
  PROVE  TypeOK'
<1>1. pc' \in [Builders -> Labels]
  <2>1. PICK l \in Labels : Goto(b, l)
    BY DEF ReadOpVersion, Return, OtherError, Labels
  <2> QED BY <2>1, GotoType
<1>2. result' \in [Builders -> {"none", "success", "forbidden", "error"}]
  BY DEF TypeOK, ReadOpVersion, Goto, Return, OtherError
<1>3. opRead' \in [Builders -> Nat]
  <2>1. opVersion[dev[b]] \in Nat
    BY CacheAssumption DEF TypeOK
  <2> QED BY <2>1 DEF TypeOK, ReadOpVersion
<1> QED BY <1>1, <1>2, <1>3 DEF TypeOK, ReadOpVersion, disk, local, noted

\* Types: the second CheckCacheInfo of RestoreFromCacheFile.
LEMMA RecheckTypes ==
  ASSUME CacheInv, TypeOK, NEW b \in Builders, Recheck(b)
  PROVE  TypeOK'
<1>1. pc' \in [Builders -> Labels]
  <2>1. PICK l \in Labels : Goto(b, l)
    BY DEF Recheck, Return, InvalidFile, Labels
  <2> QED BY <2>1, GotoType
<1>2. result' \in [Builders -> {"none", "success", "forbidden", "error"}]
  BY DEF TypeOK, Recheck, Goto, Return, InvalidFile
<1>3. seen' \in [Builders -> InfoStates]
  BY CacheAssumption DEF TypeOK, Recheck
<1> QED BY <1>1, <1>2, <1>3 DEF TypeOK, Recheck, disk, local, noted

\* Types: truncating cache_info to relabel it.
LEMMA ReopenInfoTypes ==
  ASSUME CacheInv, TypeOK, NEW b \in Builders, ReopenInfo(b)
  PROVE  TypeOK'
<1>1. pc' \in [Builders -> Labels]
  <2>1. PICK l \in Labels : Goto(b, l)
    BY DEF ReopenInfo, Return, InvalidFile, OtherError, Labels
  <2> QED BY <2>1, GotoType
<1>2. result' \in [Builders -> {"none", "success", "forbidden", "error"}]
  BY DEF TypeOK, ReopenInfo, Goto, Return, InvalidFile, OtherError
<1>3. info' \in InfoStates
  BY DEF TypeOK, ReopenInfo, InfoStates, Absent, Torn, Complete
<1>4. stream' \in [Builders -> BOOLEAN]
  BY Zenon DEF TypeOK, ReopenInfo
<1> QED BY <1>1, <1>2, <1>3, <1>4 DEF TypeOK, ReopenInfo, disk, local, noted

\* Types: writing the lowered version.
LEMMA RelabelInfoTypes ==
  ASSUME CacheInv, TypeOK, NEW b \in Builders, RelabelInfo(b)
  PROVE  TypeOK'
<1>1. pc' \in [Builders -> Labels]
  <2>1. PICK l \in Labels : Goto(b, l)
    BY DEF RelabelInfo, Return, Labels
  <2> QED BY <2>1, GotoType
<1>2. result' \in [Builders -> {"none", "success", "forbidden", "error"}]
  BY DEF TypeOK, RelabelInfo, Goto, Return
<1>3. info' \in InfoStates
  <2>1. CASE info' = info
    BY <2>1 DEF TypeOK
  <2>2. CASE info' = Torn
    BY <2>2 DEF InfoStates
  <2>3. CASE info' = Complete(seen[b].version - 1, opRead[b], dev[b], seen[b].save)
    <3>1. seen[b].state = "complete" /\ seen[b] \in InfoStates
      BY DEF RelabelInfo, CacheInv, RestoresAreSound, RestoreLabels, TypeOK
    <3>2. /\ seen[b].version - 1 \in Int /\ seen[b].save \in Saves
          /\ opRead[b] \in Nat /\ dev[b] \in Devices
      BY <3>1 DEF InfoStates, Absent, Torn, TypeOK
    <3> QED BY <2>3, <3>2 DEF InfoStates, Complete
  <2> QED BY <2>1, <2>2, <2>3 DEF RelabelInfo
<1>4. stream' \in [Builders -> BOOLEAN]
  BY Zenon DEF TypeOK, RelabelInfo
<1>5. excuse' \in [Builders -> {"none", "relabelled", "writeFailed", "probed"}]
  BY CacheAssumption DEF TypeOK, RelabelInfo
<1> QED BY <1>1, <1>2, <1>3, <1>4, <1>5 DEF TypeOK, RelabelInfo, disk, local

\* Types: OnlineBuild removing a rejected cache_info.
LEMMA RemoveInvalidTypes ==
  ASSUME CacheInv, TypeOK, NEW b \in Builders, RemoveInvalid(b)
  PROVE  TypeOK'
<1>1. pc' \in [Builders -> Labels]
  <2>1. PICK l \in Labels : Goto(b, l)
    BY DEF RemoveInvalid, Return, Labels
  <2> QED BY <2>1, GotoType
<1>2. info' \in InfoStates
  BY DEF TypeOK, RemoveInvalid, InfoStates, Absent, Torn, Complete, RemoveInfo
<1>3. stream' \in [Builders -> BOOLEAN]
  <2>1. CASE stream' = stream
    BY <2>1 DEF TypeOK
  <2>2. CASE stream' = [c \in Builders |-> FALSE]
    BY <2>2, Zenon
  <2> QED BY <2>1, <2>2 DEF RemoveInvalid, RemoveInfo
<1>4. result' \in [Builders -> {"none", "success", "forbidden", "error"}]
  BY DEF TypeOK, RemoveInvalid, Goto, Return
<1> QED BY <1>1, <1>2, <1>3, <1>4 DEF TypeOK, RemoveInvalid, disk, local, noted

\* What NormalBuild begins a save for.
Begun(b, g) ==
  [version |-> ver[b], opVersion |-> opVersion[dev[b]], device |-> dev[b], image |-> g]

\* It is a save of NormalBuild's compilation.
LEMMA BegunType ==
  ASSUME TypeOK, NEW b \in Builders, NEW g \in Images
  PROVE  Begun(b, g) \in SaveStates
  BY CacheAssumption DEF TypeOK, Begun, SaveStates

\* Beginning it keeps the saves there are.
LEMMA AppendedSaves ==
  ASSUME TypeOK, NEW b \in Builders, NEW g \in Images
  PROVE  /\ DOMAIN Append(saves, Begun(b, g)) = DOMAIN saves \union {Len(saves) + 1}
         /\ Append(saves, Begun(b, g))[Len(saves) + 1] = Begun(b, g)
         /\ \A s \in DOMAIN saves : Append(saves, Begun(b, g))[s] = saves[s]
<1>1. saves \in Seq(SaveStates) /\ Begun(b, g) \in SaveStates
  BY BegunType DEF TypeOK
<1>2. Len(saves) \in Nat /\ DOMAIN saves = 1..Len(saves)
  BY <1>1, LenProperties
<1> HIDE DEF SaveStates
<1>3. /\ Append(saves, Begun(b, g)) \in Seq(SaveStates)
      /\ Len(Append(saves, Begun(b, g))) = Len(saves) + 1
      /\ \A i \in 1..Len(saves) : Append(saves, Begun(b, g))[i] = saves[i]
      /\ Append(saves, Begun(b, g))[Len(saves) + 1] = Begun(b, g)
  BY <1>1, <1>2, AppendProperties
<1>4. DOMAIN Append(saves, Begun(b, g)) = 1..Len(saves) + 1
  BY <1>3, LenProperties
<1> QED BY <1>2, <1>3, <1>4

\* Types: beginning a save in NormalBuild.
LEMMA CompileTypes ==
  ASSUME CacheInv, TypeOK, NEW b \in Builders, Compile(b)
  PROVE  TypeOK'
<1>1. pc' \in [Builders -> Labels]
  <2>1. PICK l \in Labels : Goto(b, l)
    BY DEF Compile, Return, Labels
  <2> QED BY <2>1, GotoType
<1>2. result' \in [Builders -> {"none", "success", "forbidden", "error"}]
  BY DEF TypeOK, Compile, Goto, Return
<1>3. saves' \in Seq(SaveStates) /\ Len(saves') <= MaxSaves
  <2>1. CASE saves' = saves
    BY <2>1 DEF TypeOK
  <2>2. CASE Len(saves) < MaxSaves /\ \E g \in Images : saves' = Append(saves, Begun(b, g))
    <3>1. PICK g \in Images : saves' = Append(saves, Begun(b, g))
      BY <2>2
    <3>2. Begun(b, g) \in SaveStates
      BY BegunType
    <3>3. /\ Append(saves, Begun(b, g)) \in Seq(SaveStates)
          /\ Len(Append(saves, Begun(b, g))) = Len(saves) + 1
      BY <3>2, AppendProperties DEF TypeOK
    <3>4. Len(saves) \in Nat
      BY LenProperties DEF TypeOK
    <3> QED BY <2>2, <3>1, <3>3, <3>4, CacheAssumption
  <2> QED BY <2>1, <2>2 DEF Compile, Begun
<1>4. save' \in [Builders -> 0..MaxSaves]
  <2>1. Len(saves) \in Nat
    BY LenProperties DEF TypeOK
  <2> DEFINE n == Len(saves) + 1
  <2>2. save' = save \/ (save' = [save EXCEPT ![b] = n] /\ Len(saves) < MaxSaves)
    BY DEF Compile
  <2>3. Len(saves) < MaxSaves => n \in 0..MaxSaves
    BY <2>1, CacheAssumption
  <2> HIDE DEF n
  <2> QED BY <2>2, <2>3 DEF TypeOK
<1>5. next' \in [Builders -> 0..LastFile + 1]
  <2>1. 0 \in 0..LastFile + 1
    BY CacheAssumption
  <2> QED BY <2>1 DEF TypeOK, Compile
<1> QED BY <1>1, <1>2, <1>3, <1>4, <1>5 DEF TypeOK, Compile, disk, local, noted

\* Types: truncating a model file in GenerateCacheModel.
LEMMA OpenFileTypes ==
  ASSUME CacheInv, TypeOK, NEW b \in Builders, OpenFile(b)
  PROVE  TypeOK'
<1>1. pc' \in [Builders -> Labels]
  <2>1. PICK l \in Labels : Goto(b, l)
    BY DEF OpenFile, Return, Labels
  <2> QED BY <2>1, GotoType
<1>2. result' \in [Builders -> {"none", "success", "forbidden", "error"}]
  BY DEF TypeOK, OpenFile, Goto, Return
<1>3. file' \in [Files -> {Missing, Partial} \union Contents]
  BY DEF TypeOK, OpenFile
<1> QED BY <1>1, <1>2, <1>3 DEF TypeOK, OpenFile, disk, local, noted

\* Types: writing a model file in GenerateCacheModel.
LEMMA WriteFileTypes ==
  ASSUME CacheInv, TypeOK, NEW b \in Builders, WriteFile(b)
  PROVE  TypeOK'
<1>1. pc' \in [Builders -> Labels]
  <2>1. PICK l \in Labels : Goto(b, l)
    BY DEF WriteFile, Return, Labels, AfterFile
  <2> QED BY <2>1, GotoType
<1>2. result' \in [Builders -> {"none", "success", "forbidden", "error"}]
  BY DEF TypeOK, WriteFile, Goto, Return
<1>3. file' \in [Files -> {Missing, Partial} \union Contents]
  <2>1. save[b] \in DOMAIN saves /\ next[b] \in Files
    BY DEF WriteFile, CacheInv, SavesAreOwn, SaveLabels
  <2>2. Image(save[b])[next[b]] \in Contents
    BY <2>1, SavesTyped DEF Image
  <2>3. file' = file \/ \E x \in Written(b) : file' = [file EXCEPT ![next[b]] = x]
    BY DEF WriteFile
  <2>4. Written(b) \subseteq {Missing, Partial} \union Contents
    BY <2>2 DEF Written
  <2>5. file \in [Files -> {Missing, Partial} \union Contents]
    BY DEF TypeOK
  <2> QED BY <2>3, <2>4, <2>5
<1>4. next' \in [Builders -> 0..LastFile + 1]
  <2>1. next[b] \in Files
    BY DEF WriteFile, CacheInv, SavesAreOwn, SaveLabels
  <2> DEFINE n == next[b] + 1
  <2>2. n \in 0..LastFile + 1
    BY <2>1, CacheAssumption DEF Files
  <2>3. next' = next \/ next' = [next EXCEPT ![b] = n]
    BY DEF WriteFile
  <2> HIDE DEF n
  <2> QED BY <2>2, <2>3 DEF TypeOK
<1>5. excuse' \in [Builders -> {"none", "relabelled", "writeFailed", "probed"}]
  BY DEF TypeOK, WriteFile
<1>6. mended' \in [Builders -> BOOLEAN]
  <2>1. \A c \in Builders : \A x : (mended[c] \/ Mends(c, next[b], x)) \in BOOLEAN
    BY Zenon DEF Mends
  <2>2. CASE mended' = mended
    BY <2>2 DEF TypeOK
  <2>3. ASSUME NEW x, mended' = [c \in Builders |-> mended[c] \/ Mends(c, next[b], x)]
        PROVE  mended' \in [Builders -> BOOLEAN]
    BY <2>1, <2>3, Zenon
  <2> QED BY <2>2, <2>3 DEF WriteFile
<1> QED BY <1>1, <1>2, <1>3, <1>4, <1>5, <1>6 DEF TypeOK, WriteFile, disk, local

\* Types: truncating cache_info in WriteCacheInfo.
LEMMA OpenInfoTypes ==
  ASSUME CacheInv, TypeOK, NEW b \in Builders, OpenInfo(b)
  PROVE  TypeOK'
<1>1. pc' \in [Builders -> Labels]
  <2>1. PICK l \in Labels : Goto(b, l)
    BY DEF OpenInfo, Return, Labels
  <2> QED BY <2>1, GotoType
<1>2. result' \in [Builders -> {"none", "success", "forbidden", "error"}]
  BY DEF TypeOK, OpenInfo, Goto, Return
<1>3. info' \in InfoStates
  BY DEF TypeOK, OpenInfo, InfoStates, Absent, Torn, Complete
<1>4. stream' \in [Builders -> BOOLEAN]
  BY Zenon DEF TypeOK, OpenInfo
<1>5. opRead' \in [Builders -> Nat]
  <2>1. opVersion[dev[b]] \in Nat
    BY CacheAssumption DEF TypeOK
  <2> QED BY <2>1 DEF TypeOK, OpenInfo
<1> QED BY <1>1, <1>2, <1>3, <1>4, <1>5 DEF TypeOK, OpenInfo, disk, local, noted

\* Types: writing cache_info in WriteCacheInfo.
LEMMA WriteInfoTypes ==
  ASSUME CacheInv, TypeOK, NEW b \in Builders, WriteInfo(b)
  PROVE  TypeOK'
<1>1. pc' \in [Builders -> Labels]
  <2>1. PICK l \in Labels : Goto(b, l)
    BY DEF WriteInfo, Return, Labels
  <2> QED BY <2>1, GotoType
<1>2. result' \in [Builders -> {"none", "success", "forbidden", "error"}]
  BY DEF TypeOK, WriteInfo, Goto, Return
<1>3. info' \in InfoStates
  <2>1. CASE info' = info
    BY <2>1 DEF TypeOK
  <2>2. CASE info' = Torn
    BY <2>2 DEF InfoStates
  <2>3. CASE info' = Complete(ver[b], opRead[b], dev[b], save[b])
    <3>1. save[b] \in Saves
      BY SavesTyped DEF WriteInfo, CacheInv, SavesAreOwn, SaveLabels
    <3>2. ver[b] \in Int /\ opRead[b] \in Nat /\ dev[b] \in Devices
      BY DEF TypeOK
    <3> QED BY <2>3, <3>1, <3>2 DEF InfoStates, Complete
  <2> QED BY <2>1, <2>2, <2>3 DEF WriteInfo
<1>4. stream' \in [Builders -> BOOLEAN]
  BY Zenon DEF TypeOK, WriteInfo
<1>5. excuse' \in [Builders -> {"none", "relabelled", "writeFailed", "probed"}]
  BY CacheAssumption DEF TypeOK, WriteInfo
<1> QED BY <1>1, <1>2, <1>3, <1>4, <1>5 DEF TypeOK, WriteInfo, disk, local

\* Types: a process that dies.
LEMMA CrashTypes ==
  ASSUME CacheInv, TypeOK, NEW b \in Builders, Crash(b)
  PROVE  TypeOK'
<1>1. pc' \in [Builders -> Labels]
  <2>1. PICK l \in Labels : Goto(b, l)
    BY DEF Crash, Labels
  <2> QED BY <2>1, GotoType
<1>2. stream' \in [Builders -> BOOLEAN]
  BY Zenon DEF TypeOK, Crash
<1> QED BY <1>1, <1>2 DEF TypeOK, Crash, disk, local, noted

\* An empty directory and idle builders have their types.
LEMMA TypeInit == Init => TypeOK
<1> SUFFICES ASSUME Init PROVE TypeOK
  OBVIOUS
<1>1. info \in InfoStates /\ seen \in [Builders -> InfoStates]
  BY DEF Init, InfoStates, Absent
<1>2. file \in [Files -> {Missing, Partial} \union Contents]
  BY DEF Init
<1>3. opVersion \in [Devices -> 0..MaxOpVersion] /\ opRead \in [Builders -> Nat]
  BY CacheAssumption DEF Init
<1>4. saves \in Seq(SaveStates) /\ Len(saves) <= MaxSaves
  BY CacheAssumption DEF Init
<1>5. /\ pc \in [Builders -> Labels] /\ op \in [Builders -> {"build", "reload"}]
      /\ ver \in [Builders -> Nat] /\ dev \in [Builders -> Devices]
  BY DEF Init, Labels
<1>6. next \in [Builders -> 0..LastFile + 1] /\ save \in [Builders -> 0..MaxSaves]
  BY CacheAssumption DEF Init
<1>7. /\ stream \in [Builders -> BOOLEAN] /\ whole \in [Builders -> BOOLEAN]
      /\ mended \in [Builders -> BOOLEAN] /\ unread \in [Builders -> BOOLEAN]
  BY Zenon DEF Init
<1>8. /\ result \in [Builders -> {"none", "success", "forbidden", "error"}]
      /\ excuse \in [Builders -> {"none", "relabelled", "writeFailed", "probed"}]
      /\ probe \in [Probes -> {"idle", "remove"}]
  BY DEF Init
<1> QED BY <1>1, <1>2, <1>3, <1>4, <1>5, <1>6, <1>7, <1>8 DEF TypeOK

\* Types: OH_NNCompilation_Build or Reload being called.
LEMMA BeginTypes ==
  ASSUME TypeOK, NEW b \in Builders, NEW o \in {"build", "reload"}, NEW v \in Versions,
         NEW d \in Devices, Begin(b, o, v, d)
  PROVE  TypeOK'
<1>1. /\ pc' \in [Builders -> Labels] /\ op' \in [Builders -> {"build", "reload"}]
      /\ ver' \in [Builders -> Nat] /\ dev' \in [Builders -> Devices]
      /\ seen' \in [Builders -> InfoStates]
  BY CacheAssumption DEF TypeOK, Begin, Goto, Labels, InfoStates
<1>2. /\ next' \in [Builders -> 0..LastFile + 1] /\ save' \in [Builders -> 0..MaxSaves]
      /\ opRead' \in [Builders -> Nat]
  BY CacheAssumption DEF TypeOK, Begin
<1>3. /\ whole' \in [Builders -> BOOLEAN] /\ mended' \in [Builders -> BOOLEAN]
      /\ unread' \in [Builders -> BOOLEAN]
  BY Zenon DEF TypeOK, Begin
<1>4. /\ result' \in [Builders -> {"none", "success", "forbidden", "error"}]
      /\ excuse' \in [Builders -> {"none", "relabelled", "writeFailed", "probed"}]
  BY DEF TypeOK, Begin
<1> QED BY <1>1, <1>2, <1>3, <1>4 DEF TypeOK, Begin, disk

\* Every step of a builder keeps the types.
LEMMA BuilderTypes ==
  ASSUME CacheInv, NEW b \in Builders, BuilderStep(b)
  PROVE  TypeOK'
<1>1. TypeOK
  BY DEF CacheInv
<1> QED BY <1>1, BeginTypes, CannotReadInfoTypes, ReadInfoTypes, CheckFileTypes,
       PrepareFromCacheTypes, ReadOpVersionTypes, RecheckTypes, ReopenInfoTypes, RelabelInfoTypes, RemoveInvalidTypes,
       CompileTypes, OpenFileTypes, WriteFileTypes, OpenInfoTypes, WriteInfoTypes,
       CrashTypes DEF BuilderStep

-----------------------------------------------------------------------------
(* What a builder's step changes.                                            *)

\* The labels of a builder that writes the files of its save.
Writing == {"openFile", "writeFile"}

\* A builder's step leaves the other builders where they are.
LEMMA OthersStay ==
  ASSUME TypeOK, NEW b \in Builders, BuilderStep(b), NEW c \in Builders, c # b
  PROVE  /\ pc'[c] = pc[c] /\ save'[c] = save[c] /\ ver'[c] = ver[c] /\ dev'[c] = dev[c]
         /\ next'[c] = next[c] /\ seen'[c] = seen[c] /\ opRead'[c] = opRead[c]
         /\ whole'[c] = whole[c] /\ (mended[c] => mended'[c])
<1> USE DEF TypeOK, Goto, Return, InvalidFile, OtherError, Forbidden, local, noted
<1> DEFINE Stays == /\ pc'[c] = pc[c] /\ save'[c] = save[c] /\ ver'[c] = ver[c] /\ dev'[c] = dev[c]
                    /\ next'[c] = next[c] /\ seen'[c] = seen[c] /\ opRead'[c] = opRead[c]
                    /\ whole'[c] = whole[c] /\ (mended[c] => mended'[c])
<1>1. ASSUME NEW o \in {"build", "reload"}, NEW v \in Versions, NEW d \in Devices, Begin(b, o, v, d)
      PROVE  Stays
  BY <1>1 DEF Begin
<1>2. CASE CannotReadInfo(b) \/ ReadInfo(b)
  BY <1>2 DEF CannotReadInfo, ReadInfo
<1>3. CASE CheckFile(b)
  BY <1>3 DEF CheckFile
<1>4. CASE PrepareFromCache(b)
  BY <1>4 DEF PrepareFromCache
<1>5. CASE ReadOpVersion(b) \/ Recheck(b)
  BY <1>5 DEF ReadOpVersion, Recheck
<1>6. CASE ReopenInfo(b)
  BY <1>6 DEF ReopenInfo
<1>7. CASE RelabelInfo(b)
  BY <1>7 DEF RelabelInfo
<1>8. CASE RemoveInvalid(b)
  BY <1>8 DEF RemoveInvalid
<1>9. CASE Compile(b)
  BY <1>9 DEF Compile
<1>10. CASE OpenFile(b) \/ OpenInfo(b) \/ WriteInfo(b)
  BY <1>10 DEF OpenFile, OpenInfo, WriteInfo
<1>11. CASE WriteFile(b)
  <2>1. mended[c] => mended'[c]
    <3>1. CASE mended' = mended
      BY <3>1
    <3>2. ASSUME NEW x, mended' = [e \in Builders |-> mended[e] \/ Mends(e, next[b], x)]
          PROVE  mended[c] => mended'[c]
      BY <3>2, Zenon
    <3> QED BY <1>11, <3>1, <3>2 DEF WriteFile
  <2>2. /\ pc'[c] = pc[c] /\ save'[c] = save[c] /\ ver'[c] = ver[c] /\ dev'[c] = dev[c]
        /\ next'[c] = next[c] /\ seen'[c] = seen[c] /\ opRead'[c] = opRead[c]
        /\ whole'[c] = whole[c]
    BY <1>11 DEF WriteFile
  <2> QED BY <2>1, <2>2
<1>12. CASE Crash(b)
  BY <1>12 DEF Crash
<1> QED BY <1>1, <1>2, <1>3, <1>4, <1>5, <1>6, <1>7, <1>8, <1>9, <1>10, <1>11, <1>12 DEF BuilderStep

\* How a step leaves the saves, the drivers' versions and the files.  Bytes that a
\* restore is still to look for are noted.
DiskEffect(b) ==
  /\ saves' = saves \/ (Compile(b) /\ \E g \in Images : saves' = Append(saves, Begun(b, g)))
  /\ opVersion' = opVersion
  /\ \A i \in Files :
       \/ file'[i] = file[i]
       \/ file'[i] = Partial
       \/ \A c \in Builders : Mends(c, i, file'[i]) => mended'[c]

\* That is how every step of Save and Restore leaves them.
LEMMA DiskEffects ==
  ASSUME CacheInv, NEW b \in Builders, BuilderStep(b)
  PROVE  DiskEffect(b)
<1> USE DEF DiskEffect, disk
<1>1. CASE Compile(b)
  BY <1>1 DEF Compile, Begun
<1>2. CASE OpenFile(b)
  <2>1. file' = file \/ file' = [file EXCEPT ![next[b]] = Partial]
    BY <1>2 DEF OpenFile
  <2>2. saves' = saves /\ opVersion' = opVersion
    BY <1>2 DEF OpenFile
  <2> QED BY <2>1, <2>2 DEF CacheInv, TypeOK
<1>3. CASE WriteFile(b)
  <2>1. saves' = saves /\ opVersion' = opVersion
    BY <1>3 DEF WriteFile
  <2>2. CASE file' = file
    BY <2>1, <2>2
  <2>3. ASSUME NEW x, file' = [file EXCEPT ![next[b]] = x],
               mended' = [c \in Builders |-> mended[c] \/ Mends(c, next[b], x)]
        PROVE  DiskEffect(b)
    <3>1. ASSUME NEW i \in Files, file'[i] # file[i], NEW c \in Builders, Mends(c, i, file'[i])
          PROVE  mended'[c]
      <4>1. i = next[b] /\ file'[i] = x
        BY <2>3, <3>1 DEF CacheInv, TypeOK
      <4> QED BY <2>3, <3>1, <4>1
    <3> QED BY <2>1, <3>1
  <2>4. \/ file' = file
        \/ \E x \in Written(b) :
             /\ file' = [file EXCEPT ![next[b]] = x]
             /\ mended' = [c \in Builders |-> mended[c] \/ Mends(c, next[b], x)]
    BY <1>3 DEF WriteFile
  <2> QED BY <2>2, <2>3, <2>4
<1>4. ASSUME NEW o \in {"build", "reload"}, NEW v \in Versions, NEW d \in Devices, Begin(b, o, v, d)
      PROVE DiskEffect(b)
  BY <1>4 DEF Begin
<1>5. CASE CannotReadInfo(b) \/ ReadInfo(b) \/ CheckFile(b) \/ PrepareFromCache(b)
           \/ ReadOpVersion(b) \/ Recheck(b)
  BY <1>5 DEF CannotReadInfo, ReadInfo, CheckFile, PrepareFromCache, ReadOpVersion, Recheck
<1>6. CASE ReopenInfo(b) \/ RelabelInfo(b) \/ RemoveInvalid(b) \/ OpenInfo(b) \/ WriteInfo(b) \/ Crash(b)
  BY <1>6 DEF ReopenInfo, RelabelInfo, RemoveInvalid, OpenInfo, WriteInfo, Crash
<1> QED BY <1>1, <1>2, <1>3, <1>4, <1>5, <1>6 DEF BuilderStep

\* Where a builder that is saving, or restoring, was before.
OwnEffect(b) ==
  /\ pc'[b] \in SaveLabels =>
       /\ ver'[b] = ver[b] /\ dev'[b] = dev[b]
       /\ \/ pc[b] \in SaveLabels /\ save'[b] = save[b]
          \/ /\ save'[b] = Len(saves) + 1 /\ pc'[b] # "writeInfo"
             /\ \E g \in Images : saves' = Append(saves, Begun(b, g))
  /\ pc'[b] \in Writing => next'[b] \in Files
  /\ pc'[b] = "writeInfo" => opRead'[b] = opVersion[dev[b]]
  /\ seen'[b] \in {seen[b], Absent} \/ (seen'[b] = info /\ info' = info /\ saves' = saves)

\* That is where every step of Save and Restore comes from.
LEMMA OwnEffects ==
  ASSUME CacheInv, NEW b \in Builders, BuilderStep(b)
  PROVE  OwnEffect(b)
<1> USE DEF OwnEffect, SaveLabels, Writing, CacheInv, TypeOK, Goto, Return,
           InvalidFile, OtherError, Forbidden, local, disk
<1>1. CASE Compile(b)
  <2>1. pc'[b] \in SaveLabels => /\ pc'[b] = "openFile" /\ save'[b] = Len(saves) + 1 /\ next'[b] = 0
                                 /\ \E g \in Images : saves' = Append(saves, Begun(b, g))
    BY <1>1 DEF Compile, Begun
  <2>2. UNCHANGED <<ver, dev, seen>>
    BY <1>1 DEF Compile
  <2>3. 0 \in Files
    BY CacheAssumption DEF Files
  <2> QED BY <2>1, <2>2, <2>3
<1>2. CASE OpenFile(b)
  BY <1>2 DEF OpenFile, SavesAreOwn
<1>3. CASE WriteFile(b)
  <2>1. next[b] \in Files
    BY <1>3 DEF WriteFile, SavesAreOwn
  <2>2. pc'[b] = "done" \/ pc'[b] = "openInfo" \/ (pc'[b] = "openFile" /\ next'[b] = next[b] + 1 /\ next[b] # LastFile)
    BY <1>3 DEF WriteFile, AfterFile
  <2>3. pc'[b] = "openFile" => next'[b] \in Files
    <3>1. next[b] # LastFile => next[b] + 1 \in Files
      BY <2>1, CacheAssumption DEF Files
    <3> QED BY <2>2, <3>1
  <2>4. UNCHANGED <<ver, dev, save, seen>> /\ pc[b] = "writeFile"
    BY <1>3 DEF WriteFile
  <2> QED BY <2>2, <2>3, <2>4
<1>4. ASSUME NEW o \in {"build", "reload"}, NEW v \in Versions, NEW d \in Devices, Begin(b, o, v, d)
      PROVE OwnEffect(b)
  BY <1>4 DEF Begin
<1>5. CASE CannotReadInfo(b)
  BY <1>5 DEF CannotReadInfo
<1>6. CASE ReadInfo(b)
  BY <1>6 DEF ReadInfo
<1>7. CASE CheckFile(b)
  BY <1>7 DEF CheckFile
<1>8. CASE PrepareFromCache(b) \/ ReadOpVersion(b)
  BY <1>8 DEF PrepareFromCache, ReadOpVersion
<1>9. CASE Recheck(b)
  BY <1>9 DEF Recheck
<1>10. CASE ReopenInfo(b)
  BY <1>10 DEF ReopenInfo
<1>11. CASE RelabelInfo(b) \/ RemoveInvalid(b)
  BY <1>11 DEF RelabelInfo, RemoveInvalid
<1>12. CASE OpenInfo(b)
  BY <1>12 DEF OpenInfo
<1>13. CASE WriteInfo(b) \/ Crash(b)
  BY <1>13 DEF WriteInfo, Crash
<1> QED BY <1>1, <1>2, <1>3, <1>4, <1>5, <1>6, <1>7, <1>8, <1>9, <1>10, <1>11, <1>12, <1>13 DEF BuilderStep

\* A save NormalBuild began keeps its number and what it was begun for.
LEMMA SavesStay ==
  ASSUME CacheInv, NEW b \in Builders, BuilderStep(b), NEW s \in DOMAIN saves
  PROVE  s \in DOMAIN saves' /\ saves'[s] = saves[s]
<1>1. saves' = saves \/ \E g \in Images : saves' = Append(saves, Begun(b, g))
  BY DiskEffects DEF DiskEffect
<1>2. CASE saves' = saves
  BY <1>2
<1>3. ASSUME NEW g \in Images, saves' = Append(saves, Begun(b, g))
      PROVE  s \in DOMAIN saves' /\ saves'[s] = saves[s]
  BY <1>3, AppendedSaves DEF CacheInv
<1> QED BY <1>1, <1>2, <1>3

\* So what a cache_info vouches for stays true, wherever it is kept.
LEMMA VouchesStays ==
  ASSUME CacheInv, NEW b \in Builders, BuilderStep(b), NEW i, Vouches(i)
  PROVE  Vouches(i)'
<1>1. ASSUME i.state = "complete" PROVE i.save \in DOMAIN saves' /\ saves'[i.save] = saves[i.save]
  BY <1>1, SavesStay DEF Vouches
<1> QED BY <1>1 DEF Vouches

\* A save NormalBuild begins is for what its builder was asked for, and the operator
\* version Save is about to write is none older than the compilation's.
LEMMA SavesStayOwn ==
  ASSUME CacheInv, NEW b \in Builders, BuilderStep(b)
  PROVE  SavesAreOwn' /\ \A s \in DOMAIN saves' : saves'[s].opVersion <= opVersion'[saves'[s].device]
<1> USE DEF CacheInv
<1>d. DiskEffect(b) /\ OwnEffect(b)
  BY DiskEffects, OwnEffects
<1>o. \A s \in DOMAIN saves : s \in DOMAIN saves' /\ saves'[s] = saves[s]
  BY SavesStay
<1>1. ASSUME NEW c \in Builders, pc'[c] \in SaveLabels
      PROVE  /\ save'[c] \in DOMAIN saves'
             /\ saves'[save'[c]].version = ver'[c]
             /\ saves'[save'[c]].device = dev'[c]
             /\ pc'[c] \in Writing => next'[c] \in Files
             /\ pc'[c] = "writeInfo" => saves'[save'[c]].opVersion <= opRead'[c]
  <2>1. CASE c # b
    BY <1>o, <1>1, <2>1, OthersStay DEF SavesAreOwn, Writing
  <2>2. CASE c = b /\ pc[b] \in SaveLabels /\ save'[b] = save[b]
    <3>1. /\ save[b] \in DOMAIN saves /\ saves[save[b]].version = ver[b] /\ saves[save[b]].device = dev[b]
      BY <2>2 DEF SavesAreOwn
    <3>2. saves'[save[b]] = saves[save[b]] /\ save[b] \in DOMAIN saves'
      BY <1>o, <3>1
    <3>3. pc'[b] = "writeInfo" => saves[save[b]].opVersion <= opRead'[b]
      BY <1>d, <3>1 DEF OwnEffect
    <3>4. ver'[b] = ver[b] /\ dev'[b] = dev[b] /\ (pc'[b] \in Writing => next'[b] \in Files)
      BY <1>1, <1>d, <2>2 DEF OwnEffect
    <3> QED BY <2>2, <3>1, <3>2, <3>3, <3>4
  <2>3. ASSUME c = b, save'[b] = Len(saves) + 1, pc'[b] # "writeInfo",
               NEW g \in Images, saves' = Append(saves, Begun(b, g))
        PROVE  /\ save'[c] \in DOMAIN saves'
               /\ saves'[save'[c]].version = ver'[c]
               /\ saves'[save'[c]].device = dev'[c]
               /\ pc'[c] \in Writing => next'[c] \in Files
               /\ pc'[c] = "writeInfo" => saves'[save'[c]].opVersion <= opRead'[c]
    <3>1. save'[b] \in DOMAIN saves' /\ saves'[save'[b]] = Begun(b, g)
      BY <2>3, AppendedSaves
    <3>2. ver'[b] = ver[b] /\ dev'[b] = dev[b] /\ (pc'[b] \in Writing => next'[b] \in Files)
      BY <1>1, <1>d, <2>3 DEF OwnEffect
    <3> QED BY <2>3, <3>1, <3>2 DEF Begun
  <2> QED BY <1>1, <1>d, <2>1, <2>2, <2>3 DEF OwnEffect
<1>2. ASSUME NEW s \in DOMAIN saves' PROVE saves'[s].opVersion <= opVersion'[saves'[s].device]
  <2>1. CASE s \in DOMAIN saves
    BY <1>o, <1>d, <2>1 DEF DiskEffect
  <2>2. ASSUME NEW g \in Images, saves' = Append(saves, Begun(b, g)), s \notin DOMAIN saves
        PROVE  saves'[s].opVersion <= opVersion'[saves'[s].device]
    <3>1. saves'[s] = Begun(b, g)
      BY <1>2, <2>2, AppendedSaves
    <3>2. opVersion[dev[b]] \in Nat
      BY CacheAssumption DEF TypeOK
    <3> QED BY <3>1, <3>2, <1>d DEF DiskEffect, Begun
  <2> QED BY <1>2, <1>d, <2>1, <2>2 DEF DiskEffect
<1> QED BY <1>1, <1>2 DEF SavesAreOwn, Writing

-----------------------------------------------------------------------------
(* What cache_info vouches for, and the restores under way.                  *)

\* Whatever a step of Save or Restore writes to cache_info is vouched for: it was
\* truncated, written after the last file of the save, or lowered by one with an
\* operator version newer than the one it replaces.
LEMMA InfoStaysVouched ==
  ASSUME CacheInv, NEW b \in Builders, BuilderStep(b)
  PROVE  Vouches(info)'
<1> USE DEF CacheInv
<1>1. CASE info' = info
  BY <1>1, VouchesStays DEF Vouches
<1>2. CASE info'.state # "complete"
  BY <1>2 DEF Vouches
<1>3. CASE WriteInfo(b) /\ info' = Complete(ver[b], opRead[b], dev[b], save[b])
  <2>1. /\ save[b] \in DOMAIN saves
        /\ saves[save[b]].version = ver[b] /\ saves[save[b]].device = dev[b]
        /\ saves[save[b]].opVersion <= opRead[b]
    BY <1>3 DEF WriteInfo, SavesAreOwn, SaveLabels
  <2>2. saves' = saves
    BY <1>3 DEF WriteInfo
  <2>3. saves[save[b]].version \in Nat /\ saves[save[b]].opVersion \in Nat /\ opRead[b] \in Nat
    BY <2>1, SavesTyped DEF TypeOK
  <2>4. /\ info'.version = ver[b] /\ info'.save = save[b]
        /\ info'.opVersion = opRead[b] /\ info'.device = dev[b]
    BY <1>3 DEF Complete
  <2> QED BY <2>1, <2>2, <2>3, <2>4 DEF Vouches
<1>4. CASE RelabelInfo(b) /\ info' = Complete(seen[b].version - 1, opRead[b], dev[b], seen[b].save)
  <2>1. /\ seen[b].state = "complete" /\ seen[b] \in InfoStates /\ seen[b].device = dev[b]
        /\ opRead[b] > seen[b].opVersion /\ Vouches(seen[b])
    BY <1>4 DEF RelabelInfo, RestoresAreSound, RestoreLabels, TypeOK
  <2>2. seen[b].version \in Int /\ seen[b].opVersion \in Nat /\ opRead[b] \in Nat
    BY <2>1 DEF InfoStates, Absent, Torn, TypeOK
  <2>3. seen[b].save \in DOMAIN saves
    BY <2>1 DEF Vouches
  <2>4. saves' = saves
    BY <1>4 DEF RelabelInfo
  <2>5. saves[seen[b].save].version \in Nat /\ saves[seen[b].save].opVersion \in Nat
    BY <2>3, SavesTyped
  <2>6. /\ info'.version = seen[b].version - 1 /\ info'.device = dev[b]
        /\ info'.save = seen[b].save /\ info'.opVersion = opRead[b]
    BY <1>4 DEF Complete
  <2>7. LET s == saves[seen[b].save]
        IN  /\ seen[b].device = s.device
            /\ 0 <= s.version - seen[b].version
            /\ s.version - seen[b].version <= seen[b].opVersion - s.opVersion
    BY <2>1 DEF Vouches
  <2>8. LET s == saves[seen[b].save]
        IN  /\ 0 <= s.version - (seen[b].version - 1)
            /\ s.version - (seen[b].version - 1) <= opRead[b] - s.opVersion
    BY <2>1, <2>2, <2>5, <2>7
  <2> QED BY <2>1, <2>3, <2>4, <2>6, <2>7, <2>8 DEF Vouches
<1>5. \/ info' = info
      \/ info'.state # "complete"
      \/ WriteInfo(b) /\ info' = Complete(ver[b], opRead[b], dev[b], save[b])
      \/ RelabelInfo(b) /\ info' = Complete(seen[b].version - 1, opRead[b], dev[b], seen[b].save)
  <2>1. Torn.state # "complete" /\ Absent.state # "complete"
    BY DEF Torn, Absent
  <2>2. CASE WriteInfo(b)
    <3>1. info' = info \/ info' = Torn \/ info' = Complete(ver[b], opRead[b], dev[b], save[b])
      BY <2>2 DEF WriteInfo
    <3> QED BY <2>1, <2>2, <3>1
  <2>3. CASE RelabelInfo(b)
    <3>1. \/ info' = info \/ info' = Torn
          \/ info' = Complete(seen[b].version - 1, opRead[b], dev[b], seen[b].save)
      BY <2>3 DEF RelabelInfo
    <3> QED BY <2>1, <2>3, <3>1
  <2>4. CASE ReopenInfo(b) \/ OpenInfo(b) \/ RemoveInvalid(b)
    BY <2>1, <2>4 DEF ReopenInfo, OpenInfo, RemoveInvalid, RemoveInfo
  <2>5. ASSUME NEW o \in {"build", "reload"}, NEW v \in Versions, NEW d \in Devices, Begin(b, o, v, d)
        PROVE  info' = info
    BY <2>5 DEF Begin, disk
  <2>6. CASE CannotReadInfo(b) \/ ReadInfo(b) \/ CheckFile(b) \/ PrepareFromCache(b)
             \/ ReadOpVersion(b) \/ Recheck(b)
    BY <2>6 DEF CannotReadInfo, ReadInfo, CheckFile, PrepareFromCache, ReadOpVersion, Recheck, disk
  <2>7. CASE Compile(b) \/ OpenFile(b) \/ WriteFile(b) \/ Crash(b)
    BY <2>7 DEF Compile, OpenFile, WriteFile, Crash, disk
  <2> QED BY <2>2, <2>3, <2>4, <2>5, <2>6, <2>7 DEF BuilderStep
<1> QED BY <1>1, <1>2, <1>3, <1>4, <1>5

\* A file that does not hold the bytes a restore is going to look for does not hold
\* them after another builder's step either, unless that is noted.
LEMMA MismatchStays ==
  ASSUME CacheInv, NEW b \in Builders, BuilderStep(b), NEW c \in Builders, pc[c] = "checkFile",
         NEW i \in Files, i >= next[c], file[i] # Image(seen[c].save)[i]
  PROVE  mended'[c] \/ file'[i] # Image(seen[c].save)[i]
<1>1. seen[c].state = "complete" /\ Vouches(seen[c])
  BY DEF CacheInv, RestoresAreSound, RestoreLabels
<1>2. seen[c].save \in DOMAIN saves
  BY <1>1 DEF Vouches
<1>3. Image(seen[c].save)[i] \in Contents
  BY <1>2, SavesTyped DEF Image, CacheInv
<1>4. Image(seen[c].save)[i] # Partial
  BY <1>3 DEF Contents, Partial
<1>5. \/ file'[i] = file[i] \/ file'[i] = Partial
      \/ \A e \in Builders : Mends(e, i, file'[i]) => mended'[e]
  BY DiskEffects DEF DiskEffect
<1> QED BY <1>4, <1>5 DEF Mends

\* What a restore of builder c has to keep.
Sound(c) ==
  /\ pc[c] \in RestoreLabels => seen[c].state = "complete" /\ seen[c].device = dev[c]
  /\ pc[c] \in {"reopenInfo", "relabelInfo"} => opRead[c] > seen[c].opVersion
  /\ pc[c] = "checkFile" =>
       /\ next[c] \in Files
       /\ \/ whole[c] \/ mended[c]
          \/ \E i \in Files : i >= next[c] /\ file[i] # Image(seen[c].save)[i]
  /\ pc[c] = "prepare" => whole[c] \/ mended[c]

\* A step of Restore or of what its callers do keeps the builder's own restore sound.
LEMMA OwnRestoreStaysSound ==
  ASSUME CacheInv, NEW b \in Builders, BuilderStep(b)
  PROVE  Sound(b)'
<1> USE DEF CacheInv
<1>1. CASE ReadInfo(b)
  <2>1. pc'[b] \in RestoreLabels => pc'[b] = "checkFile" /\ IsAccepted(b)
    BY <1>1 DEF ReadInfo, RestoreLabels, Goto, Return, InvalidFile, OtherError, Forbidden, TypeOK
  <2>2. pc'[b] \notin {"prepare", "reopenInfo", "relabelInfo"}
    BY <1>1 DEF ReadInfo, Goto, Return, InvalidFile, OtherError, Forbidden, TypeOK
  <2>3. /\ seen'[b] = info /\ file' = file /\ saves' = saves /\ dev' = dev
        /\ mended' = mended /\ whole'[b] = IsWhole
    BY <1>1 DEF ReadInfo, disk, local, TypeOK
  <2>4. IsAccepted(b) => whole'[b] \/ \E i \in Files : file[i] # Image(info.save)[i]
    BY <2>3 DEF IsAccepted, IsWhole
  <2>5. next'[b] = 0
    BY <1>1 DEF ReadInfo, TypeOK
  <2>6. 0 \in Files /\ \A i \in Files : i >= 0
    BY CacheAssumption DEF Files
  <2> QED BY <2>1, <2>2, <2>3, <2>4, <2>5, <2>6 DEF Sound, IsAccepted, RestoreLabels, Image
<1>2. CASE CheckFile(b)
  <2>1. /\ pc[b] = "checkFile" /\ UNCHANGED <<seen, whole, mended, file, dev, saves>>
        /\ seen[b].state = "complete" /\ seen[b].device = dev[b] /\ next[b] \in Files
        /\ whole[b] \/ mended[b] \/ \E i \in Files : i >= next[b] /\ file[i] # Image(seen[b].save)[i]
    BY <1>2 DEF CheckFile, disk, noted, local, RestoresAreSound, RestoreLabels
  <2>2. CASE pc'[b] \in {"remove", "done"}
    BY <2>2 DEF Sound, RestoreLabels
  <2>3. CASE /\ ChecksumMatches(b)
             /\ pc'[b] = IF next[b] = LastFile THEN "prepare" ELSE "checkFile"
             /\ next'[b] = IF next[b] = LastFile THEN 0 ELSE next[b] + 1
    <3>1. file[next[b]] = Image(seen[b].save)[next[b]]
      BY <2>3 DEF ChecksumMatches
    <3>2. CASE next[b] = LastFile
      <4>1. \A i \in Files : i >= next[b] => i = next[b]
        BY <2>1, <3>2, CacheAssumption DEF Files
      <4>2. whole[b] \/ mended[b]
        BY <2>1, <3>1, <4>1
      <4> QED BY <2>1, <2>3, <3>2, <4>2 DEF Sound, RestoreLabels
    <3>3. CASE next[b] # LastFile
      <4>1. next[b] + 1 \in Files /\ \A i \in Files : i >= next[b] /\ i # next[b] => i >= next[b] + 1
        BY <2>1, <3>3, CacheAssumption DEF Files
      <4>2. whole[b] \/ mended[b] \/ \E i \in Files : i >= next[b] + 1 /\ file[i] # Image(seen[b].save)[i]
        BY <2>1, <3>1, <4>1
      <4> QED BY <2>1, <2>3, <3>3, <4>1, <4>2 DEF Sound, RestoreLabels, Image
    <3> QED BY <3>2, <3>3
  <2> QED BY <1>2, <2>2, <2>3 DEF CheckFile, InvalidFile, Goto, Return, TypeOK
<1>3. CASE PrepareFromCache(b) \/ ReadOpVersion(b)
  <2>1. pc'[b] \in RestoreLabels => pc'[b] \in {"readOpVersion", "recheck"}
    BY <1>3 DEF PrepareFromCache, ReadOpVersion, RestoreLabels, Goto, Return, InvalidFile, OtherError,
       Forbidden, TypeOK
  <2>2. seen' = seen /\ dev' = dev /\ seen[b].state = "complete" /\ seen[b].device = dev[b]
    BY <1>3 DEF PrepareFromCache, ReadOpVersion, RestoresAreSound, RestoreLabels, local
  <2> QED BY <2>1, <2>2 DEF Sound, RestoreLabels
<1>4. CASE Recheck(b)
  <2>1. pc'[b] \in RestoreLabels =>
          /\ pc'[b] = "reopenInfo" /\ seen'[b] = info /\ IsAccepted(b)
          /\ opRead[b] > info.opVersion
    BY <1>4 DEF Recheck, NewerOpVersion, RestoreLabels, Goto, Return, InvalidFile, TypeOK
  <2>2. opRead' = opRead /\ dev' = dev
    BY <1>4 DEF Recheck, local
  <2> QED BY <2>1, <2>2 DEF Sound, RestoreLabels, IsAccepted
<1>5. CASE ReopenInfo(b)
  <2>1. pc'[b] \in RestoreLabels => pc'[b] = "relabelInfo"
    BY <1>5 DEF ReopenInfo, RestoreLabels, Goto, Return, InvalidFile, OtherError, TypeOK
  <2>2. /\ UNCHANGED <<seen, opRead, dev>> /\ seen[b].device = dev[b]
        /\ seen[b].state = "complete" /\ opRead[b] > seen[b].opVersion
    BY <1>5 DEF ReopenInfo, RestoresAreSound, RestoreLabels, local
  <2> QED BY <2>1, <2>2 DEF Sound, RestoreLabels
<1>6. ASSUME pc'[b] \notin RestoreLabels PROVE Sound(b)'
  BY <1>6 DEF Sound, RestoreLabels
<1>7. ASSUME NEW o \in {"build", "reload"}, NEW v \in Versions, NEW d \in Devices, Begin(b, o, v, d)
      PROVE  pc'[b] \notin RestoreLabels
  BY <1>7 DEF Begin, Goto, RestoreLabels, TypeOK
<1>8. CASE CannotReadInfo(b) \/ RelabelInfo(b) \/ RemoveInvalid(b) \/ Compile(b) \/ OpenFile(b)
  <2>1. pc'[b] \notin RestoreLabels
    BY <1>8 DEF CannotReadInfo, RelabelInfo, RemoveInvalid, Compile, OpenFile, Goto, Return,
       InvalidFile, OtherError, RestoreLabels, TypeOK
  <2> QED BY <1>6, <2>1
<1>9. CASE WriteFile(b) \/ OpenInfo(b) \/ WriteInfo(b) \/ Crash(b)
  <2>1. pc'[b] \notin RestoreLabels
    BY <1>9 DEF WriteFile, OpenInfo, WriteInfo, Crash, Goto, Return, AfterFile, RestoreLabels, TypeOK
  <2> QED BY <1>6, <2>1
<1> QED BY <1>1, <1>2, <1>3, <1>4, <1>5, <1>6, <1>7, <1>8, <1>9 DEF BuilderStep

\* What Restore has read of cache_info stays true, and as long as the cache was not
\* whole when it was read and nobody has mended it, a file still to be checked shows it.
LEMMA RestoresStaySound ==
  ASSUME CacheInv, NEW b \in Builders, BuilderStep(b)
  PROVE  RestoresAreSound' /\ RestoreIsAtomic'
<1> USE DEF CacheInv
<1>1. \A c \in Builders : Vouches(seen[c])'
  <2>1. ASSUME NEW c \in Builders, seen'[c] = seen[c] PROVE Vouches(seen[c])'
    <3>1. PICK i : i = seen[c]
      OBVIOUS
    <3>2. Vouches(i)'
      BY <3>1, VouchesStays DEF RestoresAreSound
    <3> QED BY <2>1, <3>1, <3>2 DEF Vouches
  <2>2. CASE seen'[b] = info /\ info' = info /\ saves' = saves
    <3>1. Vouches(info)'
      BY InfoStaysVouched
    <3> QED BY <2>1, <2>2, <3>1, OthersStay DEF Vouches
  <2>3. CASE seen'[b] = Absent
    <3>1. Vouches(seen[b])'
      BY <2>3 DEF Vouches, Absent
    <3> QED BY <2>1, <3>1, OthersStay
  <2>4. seen'[b] \in {seen[b], Absent} \/ (seen'[b] = info /\ info' = info /\ saves' = saves)
    BY OwnEffects DEF OwnEffect
  <2> QED BY <2>1, <2>2, <2>3, <2>4, OthersStay
<1>2. ASSUME NEW c \in Builders, c # b PROVE Sound(c)'
  <2>1. /\ pc'[c] = pc[c] /\ dev'[c] = dev[c] /\ next'[c] = next[c] /\ seen'[c] = seen[c]
        /\ opRead'[c] = opRead[c] /\ whole'[c] = whole[c] /\ (mended[c] => mended'[c])
    BY <1>2, OthersStay
  <2>2. Sound(c)
    BY DEF Sound, RestoresAreSound, RestoreIsAtomic
  <2>3. ASSUME pc[c] = "checkFile", NEW i \in Files, i >= next[c], file[i] # Image(seen[c].save)[i]
        PROVE  mended'[c] \/ file'[i] # Image(seen[c].save)'[i]
    <3>1. seen[c].save \in DOMAIN saves
      BY <2>2, <2>3 DEF Sound, RestoreLabels, RestoresAreSound, Vouches
    <3>2. Image(seen[c].save)' = Image(seen[c].save)
      BY <2>1, <3>1, SavesStay DEF Image
    <3>3. mended'[c] \/ file'[i] # Image(seen[c].save)[i]
      BY <2>3, MismatchStays
    <3> QED BY <3>2, <3>3
  <2>4. /\ pc'[c] \in RestoreLabels => seen'[c].state = "complete" /\ seen'[c].device = dev'[c]
        /\ pc'[c] \in {"reopenInfo", "relabelInfo"} => opRead'[c] > seen'[c].opVersion
        /\ pc'[c] = "prepare" => whole'[c] \/ mended'[c]
    BY <2>1, <2>2 DEF Sound
  <2>5. ASSUME pc'[c] = "checkFile"
        PROVE  /\ next'[c] \in Files
               /\ \/ whole'[c] \/ mended'[c]
                  \/ \E i \in Files : i >= next'[c] /\ file'[i] # Image(seen[c].save)'[i]
    <3>1. pc[c] = "checkFile" /\ next[c] \in Files
      BY <2>1, <2>2, <2>5 DEF Sound
    <3>2. CASE whole[c] \/ mended[c]
      BY <2>1, <3>1, <3>2
    <3>3. ASSUME NEW i \in Files, i >= next[c], file[i] # Image(seen[c].save)[i]
          PROVE  mended'[c] \/ file'[i] # Image(seen[c].save)'[i]
      BY <2>3, <3>1, <3>3
    <3>4. whole[c] \/ mended[c] \/ \E i \in Files : i >= next[c] /\ file[i] # Image(seen[c].save)[i]
      BY <2>2, <3>1 DEF Sound
    <3> QED BY <2>1, <3>1, <3>2, <3>3, <3>4
  <2> QED BY <2>4, <2>5 DEF Sound
<1>3. \A c \in Builders : Sound(c)'
  BY <1>2, OwnRestoreStaysSound
<1> QED BY <1>1, <1>3 DEF Sound, RestoresAreSound, RestoreIsAtomic

-----------------------------------------------------------------------------
(* One process by itself.                                                    *)

\* Then nobody but HasCache changes the directory between two steps.
OneProcess == \A b, c \in Builders : b = c

Ready(b) == \A i \in Files : file[i] = Image(save[b])[i]

\* A restore finds cache_info as it has read it, of the version it was asked
\* for, unless HasCache has removed it, and the files it has checked.
AsRead(b) ==
  /\ pc[b] \in {"checkFile", "prepare", "readOpVersion", "recheck", "reopenInfo"} =>
       /\ info = seen[b] \/ (info = Absent /\ excuse[b] # "none")
       /\ seen[b].version = ver[b]
  /\ pc[b] = "checkFile" => \A i \in Files : i < next[b] => file[i] = Image(seen[b].save)[i]
  /\ pc[b] \in {"prepare", "readOpVersion", "recheck"} =>
       \A i \in Files : file[i] = Image(seen[b].save)[i]

\* The cache is not of a later version for the same device, or was not read.
MayReplace(b) ==
  info.state = "complete" => info.version <= ver[b] \/ info.device # dev[b] \/ unread[b]

\* A save replaces no later version, finds the files it has written unless that went
\* wrong, and its own cache_info open.
AsWritten(b) ==
  /\ pc[b] \in {"remove", "compile", "openFile", "writeFile", "openInfo"} => MayReplace(b)
  /\ stream[b] => pc[b] \in {"relabelInfo", "writeInfo"} /\ info = Torn
  /\ excuse[b] = "none" =>
       /\ pc[b] \in {"openFile", "writeFile"} =>
            \A i \in Files : i < next[b] => file[i] = Image(save[b])[i]
       /\ pc[b] \in {"openInfo", "writeInfo"} => Ready(b)
       /\ pc[b] = "writeInfo" => stream[b]

\* A success has left its cache.
AsAnswered(b) ==
  pc[b] = "done" /\ op[b] = "build" /\ result[b] = "success" /\ excuse[b] = "none"
    => IsWhole /\ info.version = ver[b] /\ info.device = dev[b]

AloneInv == \A b \in Builders : AsRead(b) /\ AsWritten(b) /\ AsAnswered(b)

\* A restore of the one process.
LEMMA ReadInfoAlone ==
  ASSUME CacheInv, AloneInv, NEW b \in Builders, ReadInfo(b) \/ CannotReadInfo(b)
  PROVE  AsRead(b)' /\ AsWritten(b)' /\ AsAnswered(b)'
<1> USE DEF CacheInv, TypeOK, AloneInv
<1>1. /\ pc[b] = "readInfo"
      /\ UNCHANGED <<info, file, ver, dev, op, save, stream, excuse>>
  BY DEF ReadInfo, CannotReadInfo, disk, local
<1>2. ~stream[b]
  BY <1>1 DEF AsWritten
<1>3. CASE ReadInfo(b)
  <2>1. seen'[b] = info /\ next'[b] = 0
    BY <1>3 DEF ReadInfo
  <2>2. info.state = "complete" => info.version \in Int
    BY DEF InfoStates, Absent, Torn
  <2>3. /\ pc'[b] \in {"compile", "remove", "checkFile", "done"}
        /\ pc'[b] = "checkFile" => info.version = ver[b]
        /\ pc'[b] = "compile" => info.state # "complete"
        /\ pc'[b] = "remove" =>
             (info.state = "complete" => info.device # dev[b] \/ ~IsLater(b))
        /\ pc'[b] = "done" => result'[b] \in {"error", "forbidden"}
    BY <1>1, <1>3 DEF ReadInfo, OtherError, InvalidFile, Forbidden, Return, Goto, Absent, Torn, IsAccepted
  <2>4. AsRead(b)'
    BY <1>1, <2>1, <2>3, CacheAssumption DEF AsRead, Files
  <2>5. AsWritten(b)'
    BY <1>1, <1>2, <2>2, <2>3 DEF AsWritten, IsLater, MayReplace
  <2>6. AsAnswered(b)'
    BY <1>1, <2>3 DEF AsAnswered
  <2> QED
    BY <2>4, <2>5, <2>6
<1>4. CASE CannotReadInfo(b)
  <2>1. /\ pc'[b] \in {"compile", "remove", "done"} /\ unread'[b] = TRUE
        /\ pc'[b] = "done" => result'[b] = "error"
    BY <1>1, <1>4 DEF CannotReadInfo, OtherError, InvalidFile, Return, Goto
  <2> QED
    BY <1>1, <1>2, <2>1 DEF AsRead, AsWritten, AsAnswered, MayReplace
<1> QED
  BY <1>3, <1>4

\* The check of a file, in the only process.
LEMMA CheckFileAlone ==
  ASSUME CacheInv, AloneInv, NEW b \in Builders, CheckFile(b)
  PROVE  AsRead(b)' /\ AsWritten(b)' /\ AsAnswered(b)'
<1> USE DEF CacheInv, TypeOK, AloneInv
<1>1. /\ pc[b] = "checkFile" /\ next[b] \in Files
      /\ UNCHANGED <<info, file, saves, ver, dev, op, save, stream, excuse, seen, unread>>
  BY DEF CheckFile, disk, local, noted, RestoresAreSound
<1>2. /\ ~stream[b] /\ seen[b].version = ver[b]
      /\ info = seen[b] \/ (info = Absent /\ excuse[b] # "none")
      /\ \A i \in Files : i < next[b] => file[i] = Image(seen[b].save)[i]
  BY <1>1 DEF AsWritten, AsRead
<1>3. info.state = "complete" => info.version <= ver[b]
  BY <1>2 DEF Absent
<1>4. CASE pc'[b] \in {"remove", "done"} /\ (pc'[b] = "done" => result'[b] = "error")
  BY <1>1, <1>2, <1>3, <1>4 DEF AsRead, AsWritten, AsAnswered, MayReplace
<1>5. CASE /\ ChecksumMatches(b)
           /\ pc'[b] = IF next[b] = LastFile THEN "prepare" ELSE "checkFile"
           /\ next'[b] = IF next[b] = LastFile THEN 0 ELSE next[b] + 1
  <2>1. \A i \in Files : i <= next[b] => file[i] = Image(seen[b].save)[i]
    <3>1. file[next[b]] = Image(seen[b].save)[next[b]]
      BY <1>5 DEF ChecksumMatches
    <3>2. \A i \in Files : i <= next[b] => i < next[b] \/ i = next[b]
      BY <1>1 DEF Files
    <3> QED
      BY <1>2, <3>1, <3>2
  <2>2. AsRead(b)'
    BY <1>1, <1>2, <1>5, <2>1, CacheAssumption DEF AsRead, Files, Image
  <2> QED
    BY <1>1, <1>2, <1>5, <2>2 DEF AsWritten, AsAnswered
<1>6. \/ pc'[b] \in {"remove", "done"} /\ (pc'[b] = "done" => result'[b] = "error")
      \/ /\ ChecksumMatches(b)
         /\ pc'[b] = IF next[b] = LastFile THEN "prepare" ELSE "checkFile"
         /\ next'[b] = IF next[b] = LastFile THEN 0 ELSE next[b] + 1
  BY DEF CheckFile, InvalidFile, Return, Goto
<1> QED
  BY <1>4, <1>5, <1>6

\* The device has the model, or the cache is checked again or built anew.
LEMMA PrepareAlone ==
  ASSUME CacheInv, AloneInv, NEW b \in Builders, PrepareFromCache(b) \/ ReadOpVersion(b) \/ Recheck(b)
  PROVE  AsRead(b)' /\ AsWritten(b)' /\ AsAnswered(b)'
<1> USE DEF CacheInv, TypeOK, AloneInv
<1>1. /\ pc[b] \in {"prepare", "readOpVersion", "recheck"}
      /\ seen[b].state = "complete" /\ seen[b].device = dev[b]
      /\ UNCHANGED <<info, file, saves, ver, dev, op, save, stream, excuse, unread>>
  BY DEF PrepareFromCache, ReadOpVersion, Recheck, disk, local, noted, RestoresAreSound, RestoreLabels
<1>2. /\ ~stream[b] /\ seen[b].version = ver[b]
      /\ info = seen[b] \/ (info = Absent /\ excuse[b] # "none")
      /\ \A i \in Files : file[i] = Image(seen[b].save)[i]
  BY <1>1 DEF AsWritten, AsRead
<1>3. seen'[b] = seen[b]
  BY <1>1, <1>2 DEF PrepareFromCache, ReadOpVersion, Recheck, IsAccepted, Absent
<1>4. info.state = "complete" => info.version <= ver[b]
  BY <1>2 DEF Absent
<1>5. pc'[b] \in {"compile", "remove", "readOpVersion", "recheck", "reopenInfo", "done"}
  BY DEF PrepareFromCache, ReadOpVersion, Recheck, OtherError, InvalidFile, Forbidden, Return, Goto
<1>6. excuse[b] = "none" => IsWhole /\ info.version = ver[b] /\ info.device = dev[b]
  BY <1>1, <1>2 DEF IsWhole
<1>7. AsRead(b)'
  BY <1>1, <1>2, <1>3, <1>5 DEF AsRead, Image
<1>8. AsWritten(b)'
  BY <1>1, <1>2, <1>4, <1>5 DEF AsWritten, MayReplace
<1>9. AsAnswered(b)'
  BY <1>1, <1>6 DEF AsAnswered, IsWhole, Image
<1> QED
  BY <1>7, <1>8, <1>9

\* The relabel, in the only process.
LEMMA RelabelAlone ==
  ASSUME CacheInv, AloneInv, NEW b \in Builders, ReopenInfo(b) \/ RelabelInfo(b)
  PROVE  AsRead(b)' /\ AsWritten(b)' /\ AsAnswered(b)'
<1> USE DEF CacheInv, TypeOK, AloneInv
<1>1. CASE ReopenInfo(b)
  <2>1. /\ pc[b] = "reopenInfo" /\ ~stream[b] /\ seen[b].version = ver[b]
        /\ info = seen[b] \/ info = Absent
        /\ UNCHANGED <<file, ver, dev, op, save, excuse, seen, unread>>
    BY <1>1 DEF ReopenInfo, local, noted, AsWritten, AsRead
  <2>2. \/ /\ pc'[b] \in {"remove", "compile", "done"} /\ info' = info /\ stream' = stream
           /\ pc'[b] = "done" => result'[b] = "error"
        \/ pc'[b] = "relabelInfo" /\ info' = Torn
    BY <1>1 DEF ReopenInfo, InvalidFile, OtherError, Return, Goto
  <2>3. info.state = "complete" => info.version <= ver[b]
    BY <2>1 DEF Absent
  <2> QED
    BY <2>1, <2>2, <2>3 DEF AsRead, AsWritten, AsAnswered, MayReplace
<1>2. CASE RelabelInfo(b)
  <2>1. pc'[b] = "done" /\ excuse'[b] = "relabelled" /\ stream'[b] = FALSE
    BY <1>2 DEF RelabelInfo, Return, Goto
  <2> QED
    BY <2>1 DEF AsRead, AsWritten, AsAnswered
<1> QED
  BY <1>1, <1>2

\* Removing an invalid cache and compiling, in the only process.
LEMMA CompileAlone ==
  ASSUME CacheInv, AloneInv, NEW b \in Builders, RemoveInvalid(b) \/ Compile(b)
  PROVE  AsRead(b)' /\ AsWritten(b)' /\ AsAnswered(b)'
<1> USE DEF CacheInv, TypeOK, AloneInv
<1>1. CASE RemoveInvalid(b)
  <2>1. pc[b] = "remove" /\ ~stream[b]
    BY <1>1 DEF RemoveInvalid, AsWritten
  <2>2. \/ pc'[b] = "compile" /\ info' = Absent /\ stream'[b] = FALSE
        \/ pc'[b] = "done" /\ result'[b] = "error" /\ stream' = stream
    BY <1>1 DEF RemoveInvalid, RemoveInfo, Return, Goto
  <2>3. Absent.state # "complete"
    BY DEF Absent
  <2> QED
    BY <2>1, <2>2, <2>3 DEF AsRead, AsWritten, AsAnswered, MayReplace
<1>2. CASE Compile(b)
  <2>1. /\ pc[b] = "compile" /\ ~stream[b]
        /\ UNCHANGED <<info, stream, ver, dev, file, excuse, unread>>
        /\ MayReplace(b)
    BY <1>2 DEF Compile, disk, local, noted, AsWritten
  <2>2. \/ pc'[b] = "done" /\ result'[b] = "error"
        \/ pc'[b] = "openFile" /\ next'[b] = 0
    BY <1>2 DEF Compile, Return, Goto
  <2>3. \A i \in Files : ~(i < 0)
    BY CacheAssumption DEF Files
  <2> QED
    BY <2>1, <2>2, <2>3 DEF AsRead, AsWritten, AsAnswered, MayReplace
<1> QED
  BY <1>1, <1>2

\* Writing the files, in the only process.
LEMMA FilesAlone ==
  ASSUME CacheInv, AloneInv, NEW b \in Builders, OpenFile(b) \/ WriteFile(b)
  PROVE  AsRead(b)' /\ AsWritten(b)' /\ AsAnswered(b)'
<1> USE DEF CacheInv, TypeOK, AloneInv
<1>1. /\ pc[b] \in {"openFile", "writeFile"} /\ ~stream[b] /\ next[b] \in Files
      /\ UNCHANGED <<info, stream, ver, dev, save, saves, op, unread>>
      /\ MayReplace(b)
      /\ excuse[b] = "none" => \A i \in Files : i < next[b] => file[i] = Image(save[b])[i]
  BY DEF OpenFile, WriteFile, local, noted, AsWritten, SavesAreOwn, SaveLabels
<1>2. CASE pc'[b] = "done" /\ result'[b] = "error"
  BY <1>1, <1>2 DEF AsRead, AsWritten, AsAnswered
<1>3. CASE OpenFile(b) /\ pc'[b] = "writeFile"
  <2>1. /\ next' = next /\ excuse' = excuse
        /\ file' = [file EXCEPT ![next[b]] = Partial]
    BY <1>3 DEF OpenFile, noted, Return, Goto
  <2>2. \A i \in Files : i < next[b] => file'[i] = file[i]
    BY <1>1, <2>1, CacheAssumption DEF Files
  <2> QED
    BY <1>1, <1>3, <2>1, <2>2 DEF AsRead, AsWritten, AsAnswered, MayReplace, Image
<1>4. CASE WriteFile(b) /\ pc'[b] = AfterFile(b)
  <2>1. PICK x \in Written(b) :
          /\ file' = [file EXCEPT ![next[b]] = x]
          /\ excuse' = [excuse EXCEPT ![b] = IF x = Partial THEN "writeFailed" ELSE @]
          /\ next' = [next EXCEPT ![b] = @ + 1]
    BY <1>4 DEF WriteFile, Return, Goto, AfterFile
  <2>2. excuse'[b] = "none" => x = Image(save[b])[next[b]] /\ excuse[b] = "none"
    BY <2>1 DEF Written
  <2>3. /\ next'[b] = next[b] + 1
        /\ \A i \in Files : file'[i] = IF i = next[b] THEN x ELSE file[i]
    BY <1>1, <2>1
  <2>4. ASSUME excuse'[b] = "none", NEW i \in Files, i < next'[b]
        PROVE  file'[i] = Image(save[b])[i]
    <3>1. i = next[b] \/ (i # next[b] /\ i < next[b])
      BY <1>1, <2>3, <2>4 DEF Files
    <3>2. CASE i = next[b]
      BY <2>2, <2>3, <2>4, <3>2
    <3>3. CASE i # next[b] /\ i < next[b]
      BY <1>1, <2>2, <2>3, <2>4, <3>3
    <3> QED
      BY <3>1, <3>2, <3>3
  <2>5. pc'[b] = "openInfo" => \A i \in Files : i < next'[b]
    BY <1>1, <1>4, <2>3, CacheAssumption DEF AfterFile, Files
  <2>6. pc'[b] \in {"openInfo", "openFile"}
    BY <1>4 DEF AfterFile
  <2> QED
    BY <1>1, <2>4, <2>5, <2>6 DEF AsRead, AsWritten, AsAnswered, Ready, MayReplace, Image
<1>5. \/ pc'[b] = "done" /\ result'[b] = "error"
      \/ OpenFile(b) /\ pc'[b] = "writeFile"
      \/ WriteFile(b) /\ pc'[b] = AfterFile(b)
  BY DEF OpenFile, WriteFile, Return, Goto
<1> QED
  BY <1>2, <1>3, <1>4, <1>5

\* Writing cache_info, in the only process.
LEMMA WriteInfoAlone ==
  ASSUME CacheInv, AloneInv, NEW b \in Builders, OpenInfo(b) \/ WriteInfo(b)
  PROVE  AsRead(b)' /\ AsWritten(b)' /\ AsAnswered(b)'
<1> USE DEF CacheInv, TypeOK, AloneInv
<1>1. CASE OpenInfo(b)
  <2>1. /\ pc[b] = "openInfo" /\ ~stream[b] /\ UNCHANGED <<file, excuse, save, saves, ver>>
        /\ excuse[b] = "none" => Ready(b)
    BY <1>1 DEF OpenInfo, local, noted, AsWritten
  <2>2. \/ pc'[b] = "done" /\ result'[b] = "error" /\ stream' = stream
        \/ pc'[b] = "writeInfo" /\ stream'[b] = TRUE /\ info' = Torn
    BY <1>1 DEF OpenInfo, Return, Goto
  <2> QED
    BY <2>1, <2>2 DEF AsRead, AsWritten, AsAnswered, Ready, Image
<1>2. CASE WriteInfo(b)
  <2>1. /\ pc[b] = "writeInfo" /\ UNCHANGED <<file, save, saves, ver, dev>>
        /\ excuse[b] = "none" => Ready(b) /\ stream[b]
    BY <1>2 DEF WriteInfo, local, AsWritten
  <2>2. pc'[b] = "done" /\ stream'[b] = FALSE
    BY <1>2 DEF WriteInfo, Return, Goto
  <2>3. excuse'[b] = "none" =>
          excuse[b] = "none" /\ (stream[b] => info' = Complete(ver[b], opRead[b], dev[b], save[b]))
    BY <1>2 DEF WriteInfo
  <2>4. excuse'[b] = "none" => IsWhole' /\ info'.version = ver'[b] /\ info'.device = dev'[b]
    BY <2>1, <2>3 DEF Ready, IsWhole, Complete, Image
  <2> QED
    BY <2>2, <2>4 DEF AsRead, AsWritten, AsAnswered
<1> QED
  BY <1>1, <1>2

\* A call that begins and a crash, in the only process.
LEMMA CallsAlone ==
  ASSUME CacheInv, AloneInv, NEW b \in Builders,
         Crash(b) \/ \E o \in {"build", "reload"}, v \in Versions, d \in Devices : Begin(b, o, v, d)
  PROVE  AsRead(b)' /\ AsWritten(b)' /\ AsAnswered(b)'
<1> USE DEF CacheInv, TypeOK, AloneInv
<1>1. CASE Crash(b)
  <2>1. pc'[b] = "idle" /\ stream'[b] = FALSE
    BY <1>1 DEF Crash, Goto
  <2> QED
    BY <2>1 DEF AsRead, AsWritten, AsAnswered
<1>2. ASSUME NEW o \in {"build", "reload"}, NEW v \in Versions, NEW d \in Devices, Begin(b, o, v, d)
      PROVE  AsRead(b)' /\ AsWritten(b)' /\ AsAnswered(b)'
  <2>1. pc'[b] = "readInfo" /\ stream' = stream /\ pc[b] \in {"idle", "done"}
    BY <1>2 DEF Begin, Goto
  <2>2. ~stream[b]
    BY <2>1 DEF AsWritten
  <2> QED
    BY <2>1, <2>2 DEF AsRead, AsWritten, AsAnswered
<1> QED
  BY <1>1, <1>2

\* HasCache leaves no builder without its excuse.
LEMMA ProbesAlone ==
  ASSUME CacheInv, AloneInv, NEW p \in Probes, ProbeRemove(p)
  PROVE  AloneInv'
<1> SUFFICES ASSUME NEW b \in Builders PROVE AsRead(b)' /\ AsWritten(b)' /\ AsAnswered(b)'
  BY DEF AloneInv
<1>1. AsRead(b) /\ AsWritten(b)
  BY DEF AloneInv
<1>2. /\ info' = Absent /\ stream'[b] = FALSE /\ excuse'[b] = "probed"
      /\ UNCHANGED <<pc, op, ver, dev, seen, next, save, saves, file, result, unread>>
  BY DEF ProbeRemove, RemoveInfo, local
<1>3. Absent.state # "complete"
  BY DEF Absent
<1> QED
  BY <1>1, <1>2, <1>3 DEF AsRead, AsWritten, AsAnswered, MayReplace, Ready, Image

\* A process that has not begun has read and written nothing.
LEMMA AloneInit == Init => AloneInv
<1> SUFFICES ASSUME Init, NEW b \in Builders
             PROVE  AsRead(b) /\ AsWritten(b) /\ AsAnswered(b)
  BY DEF AloneInv
<1>1. pc[b] = "idle" /\ stream[b] = FALSE
  BY DEF Init
<1>2. AsRead(b)
  BY <1>1 DEF AsRead
<1>3. AsWritten(b)
  BY <1>1 DEF AsWritten
<1>4. AsAnswered(b)
  BY <1>1 DEF AsAnswered
<1> QED
  BY <1>2, <1>3, <1>4

\* Every step preserves the invariant of the only process.
LEMMA AloneStep ==
  ASSUME OneProcess, CacheInv, AloneInv, [Next]_vars
  PROVE  AloneInv'
<1>1. ASSUME NEW b \in Builders, BuilderStep(b) PROVE AloneInv'
  <2>1. AsRead(b)' /\ AsWritten(b)' /\ AsAnswered(b)'
    BY <1>1, ReadInfoAlone, CheckFileAlone, PrepareAlone, RelabelAlone, CompileAlone, FilesAlone, WriteInfoAlone,
       CallsAlone DEF BuilderStep
  <2>2. \A c \in Builders : c = b
    BY DEF OneProcess
  <2> QED
    BY <2>1, <2>2 DEF AloneInv
<1>2. CASE UNCHANGED <<info, file, saves, pc, op, ver, dev, seen, next, save, stream, result, unread, excuse>>
  BY <1>2 DEF AloneInv, AsRead, AsWritten, AsAnswered, Ready, IsWhole, MayReplace, Image
<1> QED
  BY <1>1, <1>2, ProbesAlone DEF Next, ProbeRead, DriverUpgrade, vars, disk, local, noted

-----------------------------------------------------------------------------
(* The invariant.                                                            *)

\* An empty directory, which nobody writes or restores.
LEMMA CacheInvInit == Init => CacheInv
<1> SUFFICES ASSUME Init PROVE CacheInv
  OBVIOUS
<1>1. TypeOK
  BY TypeInit
<1>2. \A s \in DOMAIN saves : saves[s].opVersion <= opVersion[saves[s].device]
  BY DEF Init
<1>3. SavesAreOwn
  BY DEF Init, SavesAreOwn, SaveLabels
<1>4. Vouches(info) /\ \A b \in Builders : Vouches(seen[b])
  BY DEF Init, Vouches, Absent
<1>5. RestoresAreSound /\ RestoreIsAtomic
  BY <1>4 DEF Init, RestoresAreSound, RestoreIsAtomic, RestoreLabels
<1> QED BY <1>1, <1>2, <1>3, <1>4, <1>5 DEF CacheInv

\* HasCache removing cache_info, a driver upgrade, and steps that change nothing.
LEMMA CacheInvQuiet ==
  ASSUME CacheInv, info' = info \/ info' = Absent,
         \A d \in Devices : opVersion'[d] >= opVersion[d],
         TypeOK',
         UNCHANGED <<file, saves, pc, ver, dev, seen, next, save, opRead, whole, mended>>
  PROVE  CacheInv'
<1> USE DEF CacheInv
<1>1. \A s \in DOMAIN saves : saves[s].opVersion <= opVersion'[saves[s].device]
  <2> SUFFICES ASSUME NEW s \in DOMAIN saves PROVE saves[s].opVersion <= opVersion'[saves[s].device]
    OBVIOUS
  <2>1. /\ saves[s].opVersion \in Nat /\ saves[s].device \in Devices
        /\ saves[s].opVersion <= opVersion[saves[s].device]
    BY SavesTyped
  <2>2. opVersion[saves[s].device] \in Nat /\ opVersion'[saves[s].device] \in Nat
    BY <2>1, CacheAssumption DEF TypeOK
  <2> QED
    BY <2>1, <2>2
<1>2. SavesAreOwn'
  BY DEF SavesAreOwn
<1>3. Vouches(info)'
  <2>1. CASE info' = info
    BY <2>1 DEF Vouches
  <2>2. CASE info' = Absent
    BY <2>2 DEF Vouches, Absent
  <2> QED BY <2>1, <2>2
<1>4. RestoresAreSound' /\ RestoreIsAtomic'
  BY DEF RestoresAreSound, RestoreIsAtomic, Vouches, Image
<1> QED BY <1>1, <1>2, <1>3, <1>4

\* Every step of a build, a reload, HasCache or the environment keeps the invariant.
LEMMA CacheInvStep == CacheInv /\ [Next]_vars => CacheInv'
<1> SUFFICES ASSUME CacheInv, [Next]_vars PROVE CacheInv'
  OBVIOUS
<1>t. TypeOK /\ \A d \in Devices : opVersion[d] \in Int
  BY CacheAssumption DEF CacheInv, TypeOK
<1>1. ASSUME NEW b \in Builders, BuilderStep(b) PROVE CacheInv'
  BY <1>1, BuilderTypes, SavesStayOwn, InfoStaysVouched, RestoresStaySound DEF CacheInv
<1>2. ASSUME NEW p \in Probes, ProbeRead(p) PROVE CacheInv'
  <2>1. TypeOK'
    BY <1>t, <1>2 DEF TypeOK, ProbeRead, disk, local, noted
  <2> QED BY <1>t, <1>2, <2>1, CacheInvQuiet DEF ProbeRead, disk, local, noted
<1>3. ASSUME NEW p \in Probes, ProbeRemove(p) PROVE CacheInv'
  <2>1. /\ stream' \in [Builders -> BOOLEAN]
        /\ excuse' \in [Builders -> {"none", "relabelled", "writeFailed", "probed"}]
    BY <1>3, Zenon DEF ProbeRemove, RemoveInfo
  <2>2. probe' \in [Probes -> {"idle", "remove"}] /\ info' = Absent /\ info' \in InfoStates
    BY <1>t, <1>3 DEF TypeOK, ProbeRemove, RemoveInfo, InfoStates
  <2>3. TypeOK'
    BY <1>t, <1>3, <2>1, <2>2 DEF TypeOK, ProbeRemove, local
  <2> QED BY <1>t, <1>3, <2>2, <2>3, CacheInvQuiet DEF ProbeRemove, local
<1>4. ASSUME NEW d \in Devices, DriverUpgrade(d) PROVE CacheInv'
  <2>1. /\ opVersion' \in [Devices -> 0..MaxOpVersion]
        /\ \A e \in Devices : opVersion'[e] >= opVersion[e]
    <3>1. opVersion[d] \in 0..MaxOpVersion /\ opVersion[d] + 1 \in 0..MaxOpVersion
      BY <1>t, <1>4, CacheAssumption DEF TypeOK, DriverUpgrade
    <3> QED BY <1>t, <1>4, <3>1 DEF TypeOK, DriverUpgrade
  <2>2. TypeOK'
    BY <1>t, <1>4, <2>1 DEF TypeOK, DriverUpgrade, disk, local, noted
  <2> QED BY <1>4, <2>1, <2>2, CacheInvQuiet DEF DriverUpgrade, disk, local, noted
<1>5. CASE UNCHANGED vars
  <2>1. TypeOK'
    BY <1>t, <1>5 DEF TypeOK, vars
  <2> QED BY <1>t, <1>5, <2>1, CacheInvQuiet DEF vars
<1> QED BY <1>1, <1>2, <1>3, <1>4, <1>5 DEF Next

\* However many processes build, reload, crash and probe in one cache directory, and
\* however the driver is upgraded, the inductive invariant of Save and Restore holds.
THEOREM CacheInvariant == Spec => []CacheInv
  BY CacheInvInit, CacheInvStep, PTL DEF Spec

\* The variables of NNCompiledCache's model stay in their types.
THEOREM CacheTypeCorrect == Spec => []TypeOK
<1>1. CacheInv => TypeOK
  BY DEF CacheInv
<1> QED BY <1>1, CacheInvariant, PTL

\* NNCompiledCache::Restore only passes its checks on a cache that was complete when
\* it read cache_info, whatever other processes did to the files meanwhile, unless one
\* of them was saving and put the very bytes cache_info vouches for into a file before
\* it was checked.
THEOREM RestoreAtomic == Spec => []RestoreIsAtomic
<1>1. CacheInv => RestoreIsAtomic
  BY DEF CacheInv
<1> QED BY <1>1, CacheInvariant, PTL

\* RestoreFromCacheFile lowers the version in cache_info by at most one for every
\* operator version the device's driver has advanced since the compilation, although it
\* writes an operator version that it has read before it read cache_info again.
THEOREM LabelFollows == Spec => []LabelFollowsOpVersion
<1>1. CacheInv => LabelFollowsOpVersion
  BY DEF CacheInv, Vouches, LabelFollowsOpVersion
<1> QED BY <1>1, CacheInvariant, PTL

\* With one process, the invariant of what it has read, written and answered.
THEOREM AloneInvariant == OneProcess => (Spec => []AloneInv)
<1> SUFFICES ASSUME OneProcess PROVE Spec => []AloneInv
  OBVIOUS
<1>1. CacheInv /\ AloneInv /\ [Next]_vars => AloneInv'
  BY AloneStep
<1> QED
  BY <1>1, AloneInit, CacheInvariant, PTL DEF Spec

\* With one process, RestoreFromCacheFile hands the device the very files whose
\* checksums have passed.
THEOREM CheckedFiles == OneProcess => (Spec => []DeviceGetsCheckedFiles)
<1> SUFFICES ASSUME OneProcess PROVE Spec => []DeviceGetsCheckedFiles
  OBVIOUS
<1>1. AloneInv => DeviceGetsCheckedFiles
  BY DEF AloneInv, AsRead, DeviceGetsCheckedFiles
<1> QED
  BY <1>1, AloneInvariant, PTL

\* With one process, a build that succeeds has left a complete cache of its
\* version, unless a write failed, the label was lowered or HasCache removed it.
THEOREM SuccessLeaves == OneProcess => (Spec => []SuccessLeavesCache)
<1> SUFFICES ASSUME OneProcess PROVE Spec => []SuccessLeavesCache
  OBVIOUS
<1>1. AloneInv => SuccessLeavesCache
  BY DEF AloneInv, AsAnswered, SuccessLeavesCache
<1> QED
  BY <1>1, AloneInvariant, PTL

\* With one process, no build or reload of an earlier version for the same device
\* overwrites, truncates or removes a later version's cache_info, if it could read it.
THEOREM LaterKept == OneProcess => (Spec => LaterVersionsAreKept)
<1> SUFFICES ASSUME OneProcess PROVE Spec => LaterVersionsAreKept
  OBVIOUS
<1> DEFINE Kept ==
  info.state = "complete" /\ info' # info =>
    \/ \E b \in Builders :
         pc'[b] # pc[b] /\ (ver[b] >= info.version \/ dev[b] # info.device \/ unread[b])
    \/ \E p \in Probes : probe[p] = "remove"
<1>1. CacheInv /\ AloneInv /\ [Next]_vars => [Kept]_vars
  <2> SUFFICES ASSUME CacheInv, AloneInv, Next, info.state = "complete", info' # info PROVE Kept
    OBVIOUS
  <2>1. ASSUME NEW b \in Builders, BuilderStep(b) PROVE Kept
    <3>1. info.version \in Int /\ ver[b] \in Nat /\ pc \in [Builders -> Labels]
      BY DEF CacheInv, TypeOK, InfoStates, Absent, Torn
    <3>2. AsRead(b) /\ AsWritten(b)
      BY DEF AloneInv
    <3>3. ~stream[b]
      BY <3>2 DEF AsWritten, Torn
    <3>4. pc[b] \in {"reopenInfo", "remove", "openInfo"} /\ pc'[b] # pc[b]
      BY <2>1, <3>1, <3>3 DEF BuilderStep, Begin, CannotReadInfo, ReadInfo, CheckFile, PrepareFromCache, ReadOpVersion,
         Recheck, ReopenInfo, RelabelInfo, RemoveInvalid, Compile, OpenFile, WriteFile, OpenInfo, WriteInfo,
         Crash, Goto, Return, InvalidFile, disk
    <3>5. info.version <= ver[b] \/ info.device # dev[b] \/ unread[b]
      BY <3>1, <3>2, <3>4 DEF AsRead, AsWritten, MayReplace, Absent
    <3> QED
      BY <3>1, <3>4, <3>5
  <2>2. CASE \E p \in Probes : ProbeRead(p) \/ ProbeRemove(p)
    BY <2>2 DEF ProbeRead, ProbeRemove, disk
  <2> QED
    BY <2>1, <2>2 DEF Next, DriverUpgrade, disk
<1> QED
  BY <1>1, CacheInvariant, AloneInvariant, PTL DEF Spec, LaterVersionsAreKept
=============================================================================
