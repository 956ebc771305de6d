---------------------------- MODULE CompiledCache ----------------------------
(***************************************************************************)
(* One cache directory of compiled models, as NNCompiledCache, NNCompiler, *)
(* NNExecutor and OH_NNModel_HasCache use it.                              *)
(*                                                                         *)
(* A cache is one file per exported buffer and, written last, cache_info   *)
(* with the version, the operator version and a checksum per file.  Every  *)
(* file is truncated and rewritten in place and nothing is locked, so the  *)
(* order of the writes and the checksums are all that protects a reader.   *)
(*                                                                         *)
(* Builders are the threads that build compilations and reload models;     *)
(* two builders are two processes.  Probes are the threads that call       *)
(* HasCache, among them those of NNExecutor::DeinitModel.  A builder may   *)
(* crash between any two steps.  Two saves may write the same bytes: those *)
(* of one model have the same descriptors at least.  The checksum is       *)
(* assumed to tell different contents apart.                               *)
(***************************************************************************)
EXTENDS Integers, Sequences

CONSTANTS
  Builders,      \* threads that build and reload
  Probes,        \* threads that call OH_NNModel_HasCache
  LastFile,      \* files are numbered 0..LastFile, the last two hold tensor descriptors
  Versions,      \* versions the application passes to OH_NNCompilation_SetCache
  Devices,       \* backends a compilation may be for
  Images,        \* what a compilation may export: the content of every file
  MaxSaves,      \* bound: saves begun
  MaxOpVersion   \* bound: operator versions of the drivers

Files == 0..LastFile
Contents == Nat \ {0}
Missing == -1
Partial == 0          \* truncated, or half written
Saves == 1..MaxSaves

ASSUME CacheAssumption ==
  /\ LastFile \in Nat
  /\ MaxSaves \in Nat
  /\ MaxOpVersion \in Nat
  /\ Versions \subseteq Nat
  /\ Images \subseteq [Files -> Contents]

VARIABLES
  info,       \* cache_info.nncache
  file,       \* file[i]: content of the i-th model file
  opVersion,  \* opVersion[d]: what ReadOpVersion of device d answers
  saves,      \* history: what every save begun was for, and what it writes
  pc,         \* pc[b]: where builder b is
  op,         \* op[b]: "build" or "reload"
  ver,        \* ver[b]: m_cacheVersion
  dev,        \* dev[b]: m_backendID
  seen,       \* seen[b]: the NNCompiledCacheInfo read
  next,       \* next[b]: index of the file in hand
  save,       \* save[b]: the save in progress
  opRead,     \* opRead[b]: currentOpVersion, read before it is written
  stream,     \* stream[b]: b's open stream is the file named cache_info
  result,     \* result[b]: what the last call returned
  whole,      \* history: the cache was complete when b read its cache_info
  mended,     \* history: another builder wrote the bytes b was about to look for
  unread,     \* history: b could not look up or open cache_info
  excuse,     \* history: why a successful build may leave no complete cache
  probe       \* probe[p]: where p is in OH_NNModel_HasCache

vars == <<info, file, opVersion, saves, pc, op, ver, dev, seen, next, save, opRead, stream,
          result, whole, mended, unread, excuse, probe>>
disk  == <<info, file>>
local == <<op, ver, dev>>
noted == <<whole, mended, unread, excuse>>

Absent == [state |-> "absent"]
Torn   == [state |-> "torn"]  \* not the JSON document CheckCacheInfo accepts
\* The checksums are those of the save's files.
Complete(v, o, d, s) ==
  [state |-> "complete", version |-> v, opVersion |-> o, device |-> d, save |-> s]
Image(s) == saves[s].image

\* The files the information vouches for are there, with the bytes that were saved.
IsWhole == info.state = "complete" /\ \A i \in Files : file[i] = Image(info.save)[i]

Init ==
  /\ info = Absent
  /\ file = [i \in Files |-> Missing]
  /\ opVersion = [d \in Devices |-> 0]
  /\ saves = <<>>
  /\ pc = [b \in Builders |-> "idle"]
  /\ op = [b \in Builders |-> "build"]
  /\ ver = [b \in Builders |-> 0]
  /\ dev \in [Builders -> Devices]
  /\ seen = [b \in Builders |-> Absent]
  /\ next = [b \in Builders |-> 0]
  /\ save = [b \in Builders |-> 0]
  /\ opRead = [b \in Builders |-> 0]
  /\ stream = [b \in Builders |-> FALSE]
  /\ result = [b \in Builders |-> "none"]
  /\ whole = [b \in Builders |-> FALSE]
  /\ mended = [b \in Builders |-> FALSE]
  /\ unread = [b \in Builders |-> FALSE]
  /\ excuse = [b \in Builders |-> "none"]
  /\ probe = [p \in Probes |-> "idle"]

-----------------------------------------------------------------------------
Goto(b, label) == pc' = [pc EXCEPT ![b] = label]

Return(b, r) == Goto(b, "done") /\ result' = [result EXCEPT ![b] = r]

\* A failed Restore: OnlineBuild removes cache_info after OH_NN_INVALID_FILE and
\* compiles; Reload gives up.
InvalidFile(b) ==
  IF op[b] = "build" THEN Goto(b, "remove") /\ UNCHANGED result ELSE Return(b, "error")
\* OnlineBuild answers OH_NN_OPERATION_FORBIDDEN with the same.
Forbidden(b) == Return(b, IF op[b] = "build" THEN "forbidden" ELSE "error")
\* Any other error: OnlineBuild just compiles.
OtherError(b) ==
  IF op[b] = "build" THEN Goto(b, "compile") /\ UNCHANGED result ELSE Return(b, "error")

\* Unlinking cache_info leaves the streams that have it open without a name.
RemoveInfo ==
  /\ info' = Absent
  /\ stream' = [b \in Builders |-> FALSE]

\* OH_NNCompilation_Build, or NNExecutor::Reload, with a cache directory.
Begin(b, o, v, d) ==
  /\ pc[b] \in {"idle", "done"}
  /\ Goto(b, "readInfo")
  /\ op' = [op EXCEPT ![b] = o]
  /\ ver' = [ver EXCEPT ![b] = v]
  /\ dev' = [dev EXCEPT ![b] = d]
  /\ seen' = [seen EXCEPT ![b] = Absent]
  /\ save' = [save EXCEPT ![b] = 0]
  /\ opRead' = [opRead EXCEPT ![b] = 0]
  /\ result' = [result EXCEPT ![b] = "none"]
  /\ whole' = [whole EXCEPT ![b] = FALSE]
  /\ mended' = [mended EXCEPT ![b] = FALSE]
  /\ unread' = [unread EXCEPT ![b] = FALSE]
  /\ excuse' = [excuse EXCEPT ![b] = "none"]
  /\ UNCHANGED <<disk, opVersion, saves, next, stream, probe>>

-----------------------------------------------------------------------------
(* NNCompiledCache::Restore and what its callers do after it.              *)

\* CheckCacheInfo accepts what it has read: the document is whole and names the
\* builder's device.
IsAccepted(b) == info.state = "complete" /\ info.device = dev[b]

\* Mutant: a later version is not told from an earlier one.
NeverLater(b) == FALSE
\* The cache was saved for a later version than the one asked for.
IsLater(b) == ver[b] < info.version

\* The backend or cache_info cannot be looked up, or the file cannot be opened.
CannotReadInfo(b) ==
  /\ pc[b] = "readInfo"
  /\ info # Absent
  /\ unread' = [unread EXCEPT ![b] = TRUE]
  /\ OtherError(b) \/ InvalidFile(b)
  /\ UNCHANGED <<disk, opVersion, saves, local, seen, next, save, opRead, stream,
                 whole, mended, excuse, probe>>

\* CheckCacheInfo and the comparison of the versions.
ReadInfo(b) ==
  /\ pc[b] = "readInfo"
  /\ seen' = [seen EXCEPT ![b] = info]
  /\ next' = [next EXCEPT ![b] = 0]
  /\ whole' = [whole EXCEPT ![b] = IsWhole]
  /\ \/ info = Absent /\ OtherError(b)
     \/ info # Absent /\ ~IsAccepted(b) /\ InvalidFile(b)
     \/ IsAccepted(b) /\ IsLater(b) /\ Forbidden(b)
     \/ IsAccepted(b) /\ ~IsLater(b) /\ ver[b] # info.version /\ InvalidFile(b)
     \/ IsAccepted(b) /\ ver[b] = info.version /\ Goto(b, "checkFile") /\ UNCHANGED result
  /\ UNCHANGED <<disk, opVersion, saves, local, save, opRead, stream,
                 mended, unread, excuse, probe>>

\* Mutant: the checksum is not compared.
FileExists(b) == file[next[b]] # Missing
\* The next file has the checksum cache_info states.
ChecksumMatches(b) == file[next[b]] = Image(seen[b].save)[next[b]]

\* The next file is mapped, which may fail, and its checksum is compared.
CheckFile(b) ==
  /\ pc[b] = "checkFile"
  /\ \/ InvalidFile(b) /\ UNCHANGED next
     \/ /\ ChecksumMatches(b)
        /\ Goto(b, IF next[b] = LastFile THEN "prepare" ELSE "checkFile")
        /\ next' = [next EXCEPT ![b] = IF @ = LastFile THEN 0 ELSE @ + 1]
        /\ UNCHANGED result
  /\ UNCHANGED <<disk, opVersion, saves, local, seen, save, opRead, stream, noted, probe>>

\* The descriptors are read and the device makes a model of the shared mappings, or
\* refuses; it may ask for the cache to be updated (a reload ignores that).
PrepareFromCache(b) ==
  /\ pc[b] = "prepare"
  /\ \/ OtherError(b) \/ InvalidFile(b) \/ Forbidden(b)
     \/ Return(b, "success")
     \/ op[b] = "build" /\ Goto(b, "readOpVersion") /\ UNCHANGED result
  /\ UNCHANGED <<disk, opVersion, saves, local, seen, next, save, opRead, stream, noted, probe>>

\* isUpdatable: the operator version is read, ...
ReadOpVersion(b) ==
  /\ pc[b] = "readOpVersion"
  /\ \/ OtherError(b) /\ UNCHANGED opRead
     \/ /\ opRead' = [opRead EXCEPT ![b] = opVersion[dev[b]]]
        /\ Goto(b, "recheck")
        /\ UNCHANGED result
  /\ UNCHANGED <<disk, opVersion, saves, local, seen, next, save, stream, noted, probe>>

\* Mutant: the cache is relabelled whatever its operator version is.
AlwaysNewer(b) == TRUE
NewerOpVersion(b) == opRead[b] > info.opVersion

\* ... cache_info is read again and its operator version compared, ...
Recheck(b) ==
  /\ pc[b] = "recheck"
  /\ \/ InvalidFile(b) /\ UNCHANGED seen                 \* it may be gone, or not open
     \/ /\ IsAccepted(b)
        /\ seen' = [seen EXCEPT ![b] = info]
        /\ \/ NewerOpVersion(b) /\ Goto(b, "reopenInfo") /\ UNCHANGED result
           \/ ~NewerOpVersion(b) /\ Return(b, "success")
  /\ UNCHANGED <<disk, opVersion, saves, local, next, save, opRead, stream, noted, probe>>

\* ... WriteCacheInfo opens the stream, which truncates the file, ...
ReopenInfo(b) ==
  /\ pc[b] = "reopenInfo"
  /\ \/ (InvalidFile(b) \/ OtherError(b)) /\ UNCHANGED <<info, stream>>
     \/ /\ Goto(b, "relabelInfo")
        /\ info' = Torn
        /\ stream' = [stream EXCEPT ![b] = TRUE]
        /\ UNCHANGED result
  /\ UNCHANGED <<file, opVersion, saves, local, seen, next, save, opRead, noted, probe>>

\* ... and writes the information with the next lower version, so that the next
\* build of this version compiles again, and the operator version read before.
\* Nobody looks at the stream's state.
RelabelInfo(b) ==
  /\ pc[b] = "relabelInfo"
  /\ info' \in IF stream[b]
                 THEN {Complete(seen[b].version - 1, opRead[b], dev[b], seen[b].save), Torn}
                 ELSE {info}
  /\ stream' = [stream EXCEPT ![b] = FALSE]
  /\ excuse' = [excuse EXCEPT ![b] = "relabelled"]
  /\ Return(b, "success")
  /\ UNCHANGED <<file, opVersion, saves, local, seen, next, save, opRead,
                 whole, mended, unread, probe>>

\* OnlineBuild removes what Restore has rejected, whatever the reason, unless the
\* directory cannot be looked up.
RemoveInvalid(b) ==
  /\ pc[b] = "remove"
  /\ \/ Return(b, "error") /\ UNCHANGED <<info, stream>>
     \/ RemoveInfo /\ Goto(b, "compile") /\ UNCHANGED result
  /\ UNCHANGED <<file, opVersion, saves, local, seen, next, save, opRead, noted, probe>>

-----------------------------------------------------------------------------
(* NNCompiler::NormalBuild and NNCompiledCache::Save.                      *)

\* The device compiles the model and exports its buffers.
Compile(b) ==
  /\ pc[b] = "compile"
  /\ \/ Return(b, "error") /\ UNCHANGED <<saves, save, next>>
     \/ /\ Len(saves) < MaxSaves
        /\ Goto(b, "openFile")
        /\ \E g \in Images :
             saves' = Append(saves, [version |-> ver[b], opVersion |-> opVersion[dev[b]],
                                     device |-> dev[b], image |-> g])
        /\ save' = [save EXCEPT ![b] = Len(saves) + 1]
        /\ next' = [next EXCEPT ![b] = 0]
        /\ UNCHANGED result
  /\ UNCHANGED <<disk, opVersion, local, seen, opRead, stream, noted, probe>>

OpenFile(b) ==
  /\ pc[b] = "openFile"
  /\ \/ Return(b, "error") /\ UNCHANGED file
     \/ /\ Goto(b, "writeFile")
        /\ file' = [file EXCEPT ![next[b]] = Partial]
        /\ UNCHANGED result
  /\ UNCHANGED <<info, opVersion, saves, local, seen, next, save, opRead, stream, noted, probe>>

\* Mutant: the last file is not written.
InfoBeforeLastFile(b) == IF next[b] + 1 >= LastFile THEN "openInfo" ELSE "openFile"
\* After the last file comes cache_info.
AfterFile(b) == IF next[b] = LastFile THEN "openInfo" ELSE "openFile"

\* What the file may hold after the write: closing the stream writes the rest of its
\* buffer and nobody looks whether that failed, or whether a second process wrote too.
Written(b) == {Image(save[b])[next[b]], Partial}

\* A file that builder c has yet to check gets the very bytes c looks for.
Mends(c, i, x) == pc[c] = "checkFile" /\ i >= next[c] /\ x = Image(seen[c].save)[i]

WriteFile(b) ==
  /\ pc[b] = "writeFile"
  /\ \/ Return(b, "error") /\ UNCHANGED <<file, next, mended, excuse>>
     \/ /\ \E x \in Written(b) :
             /\ file' = [file EXCEPT ![next[b]] = x]
             /\ mended' = [c \in Builders |-> mended[c] \/ Mends(c, next[b], x)]
             /\ excuse' = [excuse EXCEPT ![b] = IF x = Partial THEN "writeFailed" ELSE @]
        /\ Goto(b, AfterFile(b))
        /\ next' = [next EXCEPT ![b] = @ + 1]
        /\ UNCHANGED result
  /\ UNCHANGED <<info, opVersion, saves, local, seen, save, opRead, stream, whole, unread, probe>>

\* After the last file ReadOpVersion, then WriteCacheInfo truncates the file ...
OpenInfo(b) ==
  /\ pc[b] = "openInfo"
  /\ \/ Return(b, "error") /\ UNCHANGED <<info, opRead, stream>>
     \/ /\ Goto(b, "writeInfo")
        /\ opRead' = [opRead EXCEPT ![b] = opVersion[dev[b]]]
        /\ info' = Torn
        /\ stream' = [stream EXCEPT ![b] = TRUE]
        /\ UNCHANGED result
  /\ UNCHANGED <<file, opVersion, saves, local, seen, next, save, noted, probe>>

\* ... and writes it, without looking at the stream's state; then the device releases
\* the built model, which may fail.
WriteInfo(b) ==
  /\ pc[b] = "writeInfo"
  /\ \E written \in BOOLEAN :
       /\ info' = IF ~stream[b] THEN info
                  ELSE IF written THEN Complete(ver[b], opRead[b], dev[b], save[b]) ELSE Torn
       /\ excuse' = [excuse EXCEPT ![b] = IF written THEN @ ELSE "writeFailed"]
  /\ stream' = [stream EXCEPT ![b] = FALSE]
  /\ Return(b, "success") \/ Return(b, "error")
  /\ UNCHANGED <<file, opVersion, saves, local, seen, next, save, opRead,
                 whole, mended, unread, probe>>

-----------------------------------------------------------------------------
(* OH_NNModel_HasCache.                                                    *)

\* cache_info is there.  HasCache turns to removing it if it cannot be opened, is torn,
\* is of another device than the hardware's, or misses a file; otherwise it answers
\* whether the version is the one asked for, which changes nothing.
ProbeRead(p) ==
  /\ probe[p] = "idle"
  /\ info # Absent
  /\ probe' = [probe EXCEPT ![p] = "remove"]
  /\ UNCHANGED <<disk, opVersion, saves, pc, local, seen, next, save, opRead, stream, result, noted>>

ProbeRemove(p) ==
  /\ probe[p] = "remove"
  /\ RemoveInfo
  /\ probe' = [probe EXCEPT ![p] = "idle"]
  /\ excuse' = [b \in Builders |-> "probed"]
  /\ UNCHANGED <<file, opVersion, saves, pc, local, seen, next, save, opRead, result,
                 whole, mended, unread>>

-----------------------------------------------------------------------------
(* The environment.                                                        *)

\* The process dies; what it wrote stays.
Crash(b) ==
  /\ pc[b] \notin {"idle", "done"}
  /\ Goto(b, "idle")
  /\ stream' = [stream EXCEPT ![b] = FALSE]
  /\ UNCHANGED <<disk, opVersion, saves, local, seen, next, save, opRead, result, noted, probe>>

DriverUpgrade(d) ==
  /\ opVersion[d] < MaxOpVersion
  /\ opVersion' = [opVersion EXCEPT ![d] = @ + 1]
  /\ UNCHANGED <<disk, saves, pc, local, seen, next, save, opRead, stream, result, noted, probe>>

BuilderStep(b) ==
  \/ \E o \in {"build", "reload"}, v \in Versions, d \in Devices : Begin(b, o, v, d)
  \/ CannotReadInfo(b) \/ ReadInfo(b) \/ CheckFile(b) \/ PrepareFromCache(b)
  \/ ReadOpVersion(b) \/ Recheck(b) \/ ReopenInfo(b) \/ RelabelInfo(b) \/ RemoveInvalid(b)
  \/ Compile(b) \/ OpenFile(b) \/ WriteFile(b) \/ OpenInfo(b) \/ WriteInfo(b)
  \/ Crash(b)

Next ==
  \/ \E b \in Builders : BuilderStep(b)
  \/ \E p \in Probes : ProbeRead(p) \/ ProbeRemove(p)
  \/ \E d \in Devices : DriverUpgrade(d)

Spec == Init /\ [][Next]_vars

-----------------------------------------------------------------------------
(* Properties.                                                             *)

Labels == {"idle", "readInfo", "checkFile", "prepare", "readOpVersion", "recheck", "reopenInfo",
           "relabelInfo", "remove", "compile", "openFile", "writeFile", "openInfo", "writeInfo", "done"}
InfoStates ==
  {Absent, Torn} \union
  [state : {"complete"}, version : Int, opVersion : Nat, device : Devices, save : Saves]
SaveStates == [version : Nat, opVersion : Nat, device : Devices, image : Images]

TypeOK ==
  /\ info \in InfoStates
  /\ file \in [Files -> {Missing, Partial} \union Contents]
  /\ opVersion \in [Devices -> 0..MaxOpVersion]
  /\ saves \in Seq(SaveStates)
  /\ Len(saves) <= MaxSaves
  /\ pc \in [Builders -> Labels]
  /\ op \in [Builders -> {"build", "reload"}]
  /\ ver \in [Builders -> Nat]
  /\ dev \in [Builders -> Devices]
  /\ seen \in [Builders -> InfoStates]
  /\ next \in [Builders -> 0..LastFile + 1]
  /\ save \in [Builders -> 0..MaxSaves]
  /\ opRead \in [Builders -> Nat]
  /\ stream \in [Builders -> BOOLEAN]
  /\ result \in [Builders -> {"none", "success", "forbidden", "error"}]
  /\ whole \in [Builders -> BOOLEAN]
  /\ mended \in [Builders -> BOOLEAN]
  /\ unread \in [Builders -> BOOLEAN]
  /\ excuse \in [Builders -> {"none", "relabelled", "writeFailed", "probed"}]
  /\ probe \in [Probes -> {"idle", "remove"}]

\* A restore that has passed all its checks took a cache that was complete when it
\* read cache_info, although it looked at the files one by one and other processes,
\* some of them dying half-way, rewrote them meanwhile.  The one exception is a file
\* into which another process, saving at that time, put the bytes cache_info vouches
\* for before it was looked at.
RestoreIsAtomic == \A b \in Builders : pc[b] = "prepare" => whole[b] \/ mended[b]

\* The version in cache_info is the one the cache was saved with, lowered at most
\* once for every operator version the device's driver has advanced since, although
\* the operator version is read before cache_info is read and written.
LabelFollowsOpVersion ==
  info.state = "complete" =>
    LET s == saves[info.save]
    IN  0 <= s.version - info.version /\ s.version - info.version <= info.opVersion - s.opVersion

\* The inductive invariant behind these two.
SaveLabels == {"openFile", "writeFile", "openInfo", "writeInfo"}
RestoreLabels == {"checkFile", "prepare", "readOpVersion", "recheck", "reopenInfo", "relabelInfo"}

\* A save is made for what the builder was asked for.  The operator version it is about
\* to write was read after the model was compiled.
SavesAreOwn ==
  \A b \in Builders : pc[b] \in SaveLabels =>
    /\ save[b] \in DOMAIN saves
    /\ saves[save[b]].version = ver[b]
    /\ saves[save[b]].device = dev[b]
    /\ pc[b] \in {"openFile", "writeFile"} => next[b] \in Files
    /\ pc[b] = "writeInfo" => saves[save[b]].opVersion <= opRead[b]

\* What a cache_info says, of whoever wrote it or read it.
Vouches(i) ==
  i.state = "complete" =>
    /\ i.save \in DOMAIN saves
    /\ LET s == saves[i.save]
       IN  /\ i.device = s.device
           /\ 0 <= s.version - i.version
           /\ s.version - i.version <= i.opVersion - s.opVersion

\* A restore under way read a complete cache_info of its device; if the cache was not
\* whole then and nobody has mended it, one of the files still to be checked shows it.
RestoresAreSound ==
  \A b \in Builders :
    /\ Vouches(seen[b])
    /\ pc[b] \in RestoreLabels => seen[b].state = "complete" /\ seen[b].device = dev[b]
    /\ pc[b] \in {"reopenInfo", "relabelInfo"} => opRead[b] > seen[b].opVersion
    /\ pc[b] = "checkFile" =>
         /\ next[b] \in Files
         /\ \/ whole[b] \/ mended[b]
            \/ \E i \in Files : i >= next[b] /\ file[i] # Image(seen[b].save)[i]

CacheInv ==
  /\ TypeOK
  /\ \A s \in DOMAIN saves : saves[s].opVersion <= opVersion[saves[s].device]
  /\ SavesAreOwn
  /\ Vouches(info)
  /\ RestoresAreSound
  /\ RestoreIsAtomic

\* With one process: the device is handed the very files whose checksums passed.
DeviceGetsCheckedFiles ==
  \A b \in Builders : pc[b] = "prepare" => \A i \in Files : file[i] = Image(seen[b].save)[i]

\* With one process: after a successful build the directory holds a complete cache
\* of that version and device, unless a write failed unnoticed, the label was lowered
\* for a newer driver, or HasCache removed cache_info.
SuccessLeavesCache ==
  \A b \in Builders :
    pc[b] = "done" /\ op[b] = "build" /\ result[b] = "success" /\ excuse[b] = "none"
      => IsWhole /\ info.version = ver[b] /\ info.device = dev[b]

\* With one process: a build or reload for the same device takes nothing away from a
\* cache of a later version whose cache_info it could read.  (One that could not read
\* it, or is for another device, removes it as an invalid file.)
LaterVersionsAreKept ==
  [][info.state = "complete" /\ info' # info =>
       \/ \E b \in Builders :
            pc'[b] # pc[b] /\ (ver[b] >= info.version \/ dev[b] # info.device \/ unread[b])
       \/ \E p \in Probes : probe[p] = "remove"]_vars

-----------------------------------------------------------------------------
(* What neural_network_core.h says of OH_NNCompilation_SetCache, and the code *)
(* does not do.                                                               *)

\* "Caches the compiled model to the directory", if what it writes is not all written.
SavedCacheIsComplete ==
  \A b \in Builders :
    pc[b] = "done" /\ op[b] = "build" /\ result[b] = "success" /\ excuse[b] \in {"none", "writeFailed"}
      => IsWhole

\* The same, of a cache_info HasCache may have removed.
SavedCacheOutlivesProbes ==
  \A b \in Builders :
    pc[b] = "done" /\ op[b] = "build" /\ result[b] = "success" /\ excuse[b] \in {"none", "probed"}
      => IsWhole

\* A cache of a later version is never read.
LaterVersionIsNotRead ==
  \A b \in Builders : pc[b] = "prepare" => saves[seen[b].save].version <= ver[b]

\* A later version is answered with OH_NN_INVALID_PARAMETER.
LaterVersionIsInvalidParameter ==
  \A b \in Builders :
    seen[b].state = "complete" /\ ver[b] < seen[b].version => result[b] # "forbidden"

\* An incomplete cache is answered with OH_NN_INVALID_FILE.
IncompleteCacheIsInvalidFile ==
  \A b \in Builders :
    pc[b] = "done" /\ op[b] = "build" /\ seen[b] # Absent /\ ~whole[b] => result[b] # "success"
=============================================================================
