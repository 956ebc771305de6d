----------------------------- MODULE HDIDevice -----------------------------
(* HDIDeviceV1_0, V2_0 and V2_1 with their prepared models and the          *)
(* MemoryManager that all of them share: the buffers the driver allocates,  *)
(* the addresses the process maps them to and the table from the one to the *)
(* other. Every thread makes one call at a time; a call is a sequence of    *)
(* steps because the driver, mmap, munmap and the table's mutex are four    *)
(* different places where another thread can come in between.               *)
(*                                                                          *)
(* A file descriptor is reused by the driver once its buffer is released,   *)
(* an address by mmap once it is unmapped. The serial number tells apart    *)
(* two buffers that have had the same descriptor; the code has no such      *)
(* number. Return codes are left out: what a failed call leaves behind is   *)
(* told by the state, and a call that is refused before it does anything is *)
(* a guard.                                                                 *)
EXTENDS Integers, Sequences, FiniteSets

CONSTANTS Threads, Nobody,
          Fds, INVALID_FD,
          Addresses, nullptr,
          Foreign,               \* an address that the runtime never mapped
          Lengths, ALLOCATE_BUFFER_LIMIT,
          Graphs,                \* the lite graphs that reach the device
          SECUREC_MEM_MAX_LEN,   \* memcpy_s refuses anything longer
          MaxBuffers,            \* bound: buffers the driver ever allocates
          ClientsRetry           \* clients repeat a release after a MEMORY_ERROR

ASSUME BufferAssumption ==
  /\ Nobody \notin Threads
  /\ INVALID_FD \notin Fds /\ IsFiniteSet(Fds)
  /\ nullptr \notin Addresses /\ Foreign \notin Addresses \union {nullptr}
  /\ Lengths \subseteq Nat /\ ALLOCATE_BUFFER_LIMIT \in Nat /\ SECUREC_MEM_MAX_LEN \in Nat
  /\ MaxBuffers \in Nat
  /\ ClientsRetry \in BOOLEAN

\* A graph has nodes, inputs by their index and the sizes of its tensors' data.
ASSUME GraphAssumption ==
  \A graph \in Graphs :
    /\ graph \in [nodes : Nat, custom : BOOLEAN, inputs : Seq(Nat), tensors : Seq(Nat)]
    /\ \A k \in DOMAIN graph.inputs : graph.inputs[k] \in DOMAIN graph.tensors

VARIABLES version,   \* of the driver's interface; V2_0 does what V2_1 does
          allocated, \* descriptor -> serial number of the live buffer, or 0
          serials,   \* buffers allocated so far
          mapped,    \* addresses of this process in use by mmap
          memorys,   \* MemoryManager::m_memorys
          mtx,       \* MemoryManager::m_mtx
          thread,    \* the call each thread is in
          held,      \* addresses that clients have from AllocateBuffer
          heldFds,   \* descriptors that clients have from AllocateBuffer
          prepared,  \* threads that own a prepared model
          m_addrs,   \* HDIPreparedModel::m_addrs of each thread's model
          lostFds, lostAddresses \* what a failed release has left behind

vars == <<version, allocated, serials, mapped, memorys, mtx, thread, held, heldFds, prepared,
          m_addrs, lostFds, lostAddresses>>
manager == <<mapped, memorys, mtx>>
clients == <<held, heldFds, prepared, m_addrs>>
lost == <<lostFds, lostAddresses>>

NoGraph == [nodes |-> 0, custom |-> FALSE, inputs |-> <<>>, tensors |-> <<>>]

\* The locals of a call: the buffer at hand, the address it is mapped to, the
\* graph and the segments its tensors got, the descriptors of an export not
\* mapped yet, and the driver's answer, kept until the buffers are released.
Idle ==
  [pc |-> "idle", call |-> "none", length |-> 0, fd |-> INVALID_FD, serial |-> 0,
   addr |-> nullptr, graph |-> NoGraph, segments |-> <<>>, left |-> {}, answer |-> "none"]

Goto(t, pc) == thread' = [thread EXCEPT ![t].pc = pc]
Begin(t, call, pc, frame) ==
  /\ thread[t].pc = "idle"
  /\ thread' = [thread EXCEPT ![t] = [frame EXCEPT !.pc = pc, !.call = call]]
Return(t) == thread' = [thread EXCEPT ![t] = Idle]
At(t, pc) == thread[t].pc = pc

-----------------------------------------------------------------------------
(* The tensors of a graph in the shared buffer.                             *)

\* The sum over the first tensors, and over all of them.
SizeOf(sizes) ==
  LET Sum[i \in 0..Len(sizes)] == IF i = 0 THEN 0 ELSE Sum[i - 1] + sizes[i]
  IN Sum
TensorSize(graph) == SizeOf(graph.tensors)[Len(graph.tensors)]

\* Mutant: a tensor that is not copied does not hand the offset on.
CopyTensorAtZero(size, fd, offset) ==
  IF fd = INVALID_FD \/ size = 0 \/ size > SECUREC_MEM_MAX_LEN
  THEN [fd |-> INVALID_FD, offset |-> 0, dataSize |-> 0]
  ELSE [fd |-> fd, offset |-> offset, dataSize |-> size]

\* Copy_MindIR_Tensor_Data_To_HDIBuffer for one tensor: the segment it gets.
CopyTensor(size, fd, offset) ==
  IF fd = INVALID_FD \/ size = 0 \/ size > SECUREC_MEM_MAX_LEN
  THEN [fd |-> INVALID_FD, offset |-> offset, dataSize |-> 0]
  ELSE [fd |-> fd, offset |-> offset, dataSize |-> size]

\* The loop of LiteGraph_To_HDIModel over the tensors: the offset it has
\* reached after the first of them, and the segments they get.
OffsetAfter(sizes, fd) ==
  LET Offset[i \in 0..Len(sizes)] ==
        IF i = 0 THEN 0
        ELSE LET segment == CopyTensor(sizes[i], fd, Offset[i - 1])
             IN segment.offset + segment.dataSize
  IN Offset
Segments(graph, fd) ==
  [i \in 1..Len(graph.tensors) |-> CopyTensor(graph.tensors[i], fd, OffsetAfter(graph.tensors, fd)[i - 1])]

IsOfflineModel(graph) == graph.nodes = 1 /\ graph.custom

-----------------------------------------------------------------------------
(* The driver's buffers.                                                    *)

FreeFds == {fd \in Fds : allocated[fd] = 0}

\* The driver opens one more buffer for the call of t.
Grant(t, fd, pc) ==
  /\ serials < MaxBuffers
  /\ serials' = serials + 1
  /\ allocated' = [allocated EXCEPT ![fd] = serials + 1]
  /\ thread' = [thread EXCEPT ![t].fd = fd, ![t].serial = serials + 1, ![t].pc = pc]

\* The driver releases whatever buffer has the descriptor now.
Released(fd) ==
  /\ fd # INVALID_FD /\ allocated[fd] # 0
  /\ allocated' = [allocated EXCEPT ![fd] = 0]
  /\ UNCHANGED serials

\* The driver refuses; what it did not release stays allocated for good when
\* nobody is left to ask again.
Kept(fd) ==
  /\ UNCHANGED <<allocated, serials>>
  /\ lostFds' = IF fd \in Fds /\ allocated[fd] # 0 THEN lostFds \union {fd} ELSE lostFds

-----------------------------------------------------------------------------
(* The calls.                                                               *)

Init ==
  /\ version \in {"V1_0", "V2_1"}
  /\ allocated = [fd \in Fds |-> 0] /\ serials = 0
  /\ mapped = {} /\ memorys = <<>> /\ mtx = Nobody
  /\ thread = [t \in Threads |-> Idle]
  /\ held = {} /\ heldFds = {} /\ prepared = {}
  /\ m_addrs = [t \in Threads |-> {}]
  /\ lostFds = {} /\ lostAddresses = {}

AllocateBuffer(t) ==
  /\ \E length \in Lengths \ {0} :
       Begin(t, "AllocateBuffer", "allocate", [Idle EXCEPT !.length = length])
  /\ UNCHANGED <<version, allocated, serials, manager, clients, lost>>

AllocateBufferFd(t) ==
  /\ \E length \in Lengths \ {0} :
       Begin(t, "AllocateBufferFd", "allocate", [Idle EXCEPT !.length = length])
  /\ UNCHANGED <<version, allocated, serials, manager, clients, lost>>

\* A client gives back an address; nobody else uses it meanwhile.
ReleaseBuffer(t) ==
  /\ \E a \in held \union {Foreign} :
       /\ Begin(t, "ReleaseBuffer", "lookup", [Idle EXCEPT !.addr = a])
       /\ held' = held \ {a}
  /\ UNCHANGED <<version, allocated, serials, manager, heldFds, prepared, m_addrs, lost>>

ReleaseBufferFd(t) ==
  /\ At(t, "idle")
  /\ \E fd \in heldFds :
       /\ heldFds' = heldFds \ {fd}
       /\ (Released(fd) /\ UNCHANGED lostFds) \/ Kept(fd)
  /\ UNCHANGED <<version, manager, thread, held, prepared, m_addrs, lostAddresses>>

\* PrepareModel and GetSupportedOperation ask the driver about a graph whose
\* constants lie in one temporary buffer.
WithTensors(t, call, graph) ==
  Begin(t, call, IF TensorSize(graph) > 0 THEN "allocate" ELSE "convert",
        [Idle EXCEPT !.graph = graph, !.length = TensorSize(graph)])

\* The compiler sends offline models to PrepareOfflineModel instead.
PrepareModel(t) ==
  /\ t \notin prepared
  /\ \E graph \in Graphs : graph.nodes > 0 /\ ~IsOfflineModel(graph) /\ WithTensors(t, "PrepareModel", graph)
  /\ UNCHANGED <<version, allocated, serials, manager, clients, lost>>

\* From V2_0 on a model without nodes is refused and an offline model is
\* answered for without the driver.
GetSupportedOperation(t) ==
  /\ \E graph \in Graphs :
       /\ version # "V1_0" => graph.nodes > 0 /\ ~IsOfflineModel(graph)
       /\ WithTensors(t, "GetSupportedOperation", graph)
  /\ UNCHANGED <<version, allocated, serials, manager, clients, lost>>

\* The model is the data of the last input of the only node; V1_0 forbids it.
PrepareOfflineModel(t) ==
  /\ t \notin prepared /\ version # "V1_0"
  /\ \E graph \in {g \in Graphs : IsOfflineModel(g) /\ Len(g.inputs) >= 2} :
       LET size == graph.tensors[graph.inputs[Len(graph.inputs)]]
       IN /\ size > 0
          /\ Begin(t, "PrepareOfflineModel", "allocate",
                   [Idle EXCEPT !.graph = graph, !.length = size])
  /\ UNCHANGED <<version, allocated, serials, manager, clients, lost>>

\* The descriptors of the cache go to the driver; nothing is mapped.
PrepareModelFromModelCache(t) ==
  /\ At(t, "idle") /\ t \notin prepared
  /\ prepared' = prepared \union {t}
  /\ UNCHANGED <<version, allocated, serials, manager, thread, held, heldFds, m_addrs, lost>>

\* The driver opens the buffers of the cache, two at most here; no code of
\* the runtime ever closes them.
ExportModelCache(t) ==
  /\ t \in prepared
  /\ \E fds \in SUBSET FreeFds :
       /\ Cardinality(fds) <= 2 /\ serials + Cardinality(fds) <= MaxBuffers
       /\ Begin(t, "ExportModelCache", "next", [Idle EXCEPT !.left = fds, !.length = 1])
       /\ serials' = serials + Cardinality(fds)
       /\ \E number \in [fds -> (serials + 1)..(serials + Cardinality(fds))] :
            /\ \A fd, gd \in fds : number[fd] = number[gd] => fd = gd
            /\ allocated' = [fd \in Fds |-> IF fd \in fds THEN number[fd] ELSE allocated[fd]]
       /\ lostFds' = lostFds \union fds
  /\ UNCHANGED <<version, manager, clients, lostAddresses>>

\* HDIPreparedModel::Run for one tensor, whose memory it looks up.
Run(t) ==
  /\ t \in prepared
  /\ \E a \in held \union {Foreign} :
       /\ Begin(t, "Run", "retrieve", [Idle EXCEPT !.addr = a])
       /\ held' = held \ {a}
  /\ UNCHANGED <<version, allocated, serials, manager, heldFds, prepared, m_addrs, lost>>

\* ~HDIPreparedModel
DestroyPreparedModel(t) ==
  /\ t \in prepared
  /\ Begin(t, "~HDIPreparedModel", "next", Idle)
  /\ prepared' = prepared \ {t}
  /\ UNCHANGED <<version, allocated, serials, manager, held, heldFds, m_addrs, lost>>

-----------------------------------------------------------------------------
(* Getting a buffer.                                                        *)

DriverAllocates(t) ==
  /\ At(t, "allocate")
  /\ \/ \E fd \in FreeFds :
          IF thread[t].call = "AllocateBufferFd"
          THEN /\ serials < MaxBuffers /\ serials' = serials + 1
               /\ allocated' = [allocated EXCEPT ![fd] = serials + 1]
               /\ heldFds' = heldFds \union {fd}
               /\ Return(t)
          ELSE /\ Grant(t, fd, IF thread[t].call \in {"AllocateBuffer", "PrepareOfflineModel"}
                               THEN "map" ELSE "convert")
               /\ UNCHANGED heldFds
     \/ /\ Return(t)
        /\ UNCHANGED <<allocated, serials, heldFds>>
  /\ UNCHANGED <<version, manager, held, prepared, m_addrs, lost>>

\* The driver reports success and leaves the descriptor invalid. Only the
\* tensor buffers are checked at once; MapMemory refuses it later.
DriverAllocatesNothing(t) ==
  /\ At(t, "allocate")
  /\ IF thread[t].call \in {"AllocateBuffer", "PrepareOfflineModel"} THEN Goto(t, "map") ELSE Return(t)
  /\ UNCHANGED <<version, allocated, serials, manager, clients, lost>>

\* MemoryManager::MapMemory up to mmap, which runs without the mutex.
Map(t) ==
  /\ At(t, "map")
  /\ thread[t].fd # INVALID_FD /\ thread[t].length <= ALLOCATE_BUFFER_LIMIT
  /\ \E a \in Addresses \ mapped :
       /\ mapped' = mapped \union {a}
       /\ thread' = [thread EXCEPT ![t].addr = a, ![t].pc = "register"]
  /\ UNCHANGED <<version, allocated, serials, memorys, mtx, clients, lost>>

\* mmap may fail for every descriptor and length.
MapFails(t) ==
  /\ At(t, "map")
  /\ IF thread[t].call = "ExportModelCache"
     THEN Return(t)
     ELSE Goto(t, "giveBack")
  /\ UNCHANGED <<version, allocated, serials, manager, clients, lost>>

\* emplace leaves an entry alone that is there already.
Entered(t) ==
  LET f == thread[t]
  IN IF f.addr \in DOMAIN memorys THEN memorys
     ELSE [a \in DOMAIN memorys \union {f.addr} |->
             IF a = f.addr THEN [fd |-> f.fd, serial |-> f.serial] ELSE memorys[a]]

\* The rest of MapMemory, and what its three callers do with the address.
Register(t) ==
  LET f == thread[t]
  IN /\ At(t, "register") /\ mtx = Nobody
     /\ memorys' = Entered(t)
     /\ \/ /\ f.call = "AllocateBuffer"
           /\ held' = held \union {f.addr} /\ Return(t)
           /\ UNCHANGED m_addrs
        \/ /\ f.call = "PrepareOfflineModel"
           /\ Goto(t, "retrieve") \/ Goto(t, "lookup")  \* the copy of the model may fail
           /\ UNCHANGED <<held, m_addrs>>
        \/ /\ f.call = "ExportModelCache"
           /\ m_addrs' = [m_addrs EXCEPT ![t] = @ \union {f.addr}]
           /\ Goto(t, "next")
           /\ UNCHANGED <<held>>
     /\ UNCHANGED <<version, allocated, serials, mapped, mtx, heldFds, prepared, lost>>

\* Mutant: the buffer is not given back.
GiveBackNothing(t) ==
  /\ At(t, "giveBack")
  /\ Return(t)
  /\ UNCHANGED <<version, allocated, serials, manager, clients, lost>>

\* The buffer goes back because the call has failed; whether the driver takes
\* it is not looked at.
GiveBack(t) ==
  /\ At(t, "giveBack")
  /\ Return(t)
  /\ (Released(thread[t].fd) /\ UNCHANGED lostFds) \/ Kept(thread[t].fd)
  /\ UNCHANGED <<version, manager, clients, lostAddresses>>

\* The loop of ExportModelCache over the descriptors.
NextBuffer(t) ==
  /\ At(t, "next") /\ thread[t].call = "ExportModelCache"
  /\ IF thread[t].left = {} THEN Return(t)
     ELSE /\ \E fd \in thread[t].left :
               thread' = [thread EXCEPT ![t].fd = fd, ![t].serial = allocated[fd],
                                        ![t].left = @ \ {fd}, ![t].addr = nullptr, ![t].pc = "map"]
  /\ UNCHANGED <<version, allocated, serials, manager, clients, lost>>

-----------------------------------------------------------------------------
(* Asking the driver.                                                       *)

\* LiteGraph_To_HDIModel; mmap, munmap or new may fail.
Convert(t) ==
  /\ At(t, "convert")
  /\ \/ thread' = [thread EXCEPT ![t].segments = Segments(thread[t].graph, thread[t].fd),
                                 ![t].pc = "ask"]
     \/ Goto(t, "giveBack")
  /\ UNCHANGED <<version, allocated, serials, manager, clients, lost>>

\* MemoryManager::GetMemory, for Run, PrepareOfflineModel and ReleaseBuffer.
GetMemory(t, next) ==
  LET a == thread[t].addr
  IN /\ mtx = Nobody
     /\ IF a \in DOMAIN memorys
        THEN /\ thread' = [thread EXCEPT ![t].fd = memorys[a].fd,
                                         ![t].serial = memorys[a].serial, ![t].pc = next]
        ELSE Return(t)
     /\ UNCHANGED <<version, allocated, serials, manager, clients, lost>>
Retrieve(t) == At(t, "retrieve") /\ GetMemory(t, "ask")
Lookup(t) == At(t, "lookup") /\ GetMemory(t, "release")

\* The driver reads the buffers and answers; the answer waits until the
\* buffers are given back.
DriverAnswers(t) ==
  /\ At(t, "ask") /\ thread[t].call # "Run"
  /\ \E answer \in {"model", "refused"} :
       thread' = [thread EXCEPT ![t].answer = answer,
                    ![t].pc = IF thread[t].call = "PrepareOfflineModel" THEN "lookup" ELSE "releaseShared"]
  /\ UNCHANGED <<version, allocated, serials, manager, clients, lost>>

DriverRuns(t) ==
  /\ At(t, "ask") /\ thread[t].call = "Run"
  /\ Return(t)
  /\ held' = held \union {thread[t].addr}
  /\ UNCHANGED <<version, allocated, serials, manager, heldFds, prepared, m_addrs, lost>>

\* The end of PrepareModel, PrepareOfflineModel and GetSupportedOperation. Even
\* with a model from the driver there may be no memory for the prepared model.
Answered(t) ==
  /\ Return(t)
  /\ \/ UNCHANGED prepared
     \/ /\ thread[t].answer = "model" /\ thread[t].call # "GetSupportedOperation"
        /\ prepared' = prepared \union {t}

ReleaseSharedBuffer(t) ==
  /\ At(t, "releaseShared")
  /\ \/ /\ IF thread[t].fd = INVALID_FD THEN UNCHANGED <<allocated, serials>>
           ELSE Released(thread[t].fd)
        /\ Answered(t)
        /\ UNCHANGED lostFds
     \/ /\ thread[t].fd # INVALID_FD
        /\ Kept(thread[t].fd)
        /\ Return(t)
        /\ UNCHANGED prepared
  /\ UNCHANGED <<version, manager, held, heldFds, m_addrs, lostAddresses>>

-----------------------------------------------------------------------------
(* Giving a buffer back.                                                    *)

\* The call ends with an error and the address is still in the table: the
\* client has it again, or nobody has.
LeftWith(t, retried) ==
  /\ held' = IF retried THEN held \union {thread[t].addr} ELSE held
  /\ lostAddresses' = IF retried THEN lostAddresses ELSE lostAddresses \union {thread[t].addr}

DriverReleases(t) ==
  LET f == thread[t]
  IN /\ At(t, "release")
     /\ \/ /\ Released(f.fd)
           /\ Goto(t, "unmap")
           /\ UNCHANGED <<held, lostAddresses>>
        \/ /\ UNCHANGED <<allocated, serials>>
           /\ Return(t)
           /\ LeftWith(t, f.call = "ReleaseBuffer")
     /\ UNCHANGED <<version, manager, heldFds, prepared, m_addrs, lostFds>>

\* ~HDIPreparedModel goes through its addresses.
NextAddress(t) ==
  /\ At(t, "next") /\ thread[t].call = "~HDIPreparedModel"
  /\ IF m_addrs[t] = {}
     THEN Return(t) /\ UNCHANGED m_addrs
     ELSE /\ \E a \in m_addrs[t] :
               /\ thread' = [thread EXCEPT ![t].addr = a, ![t].pc = "unmap"]
               /\ m_addrs' = [m_addrs EXCEPT ![t] = @ \ {a}]
  /\ UNCHANGED <<version, allocated, serials, manager, held, heldFds, prepared, lost>>

\* Mutant: munmap runs before the mutex is taken.
UnMapUnlocked(t) ==
  /\ At(t, "unmap")
  /\ mapped' = mapped \ {thread[t].addr}
  /\ Goto(t, "erase")
  /\ UNCHANGED <<version, allocated, serials, memorys, mtx, clients, lost>>

\* MemoryManager::UnMapMemory takes the mutex and holds it across munmap.
UnMap(t) ==
  /\ At(t, "unmap") /\ mtx = Nobody
  /\ thread[t].addr \in DOMAIN memorys
  /\ mapped' = mapped \ {thread[t].addr}
  /\ mtx' = t
  /\ Goto(t, "erase")
  /\ UNCHANGED <<version, allocated, serials, memorys, clients, lost>>

\* "Unmap memory failed. Please try again." The entry stays.
UnMapFails(t) ==
  /\ At(t, "unmap") /\ mtx = Nobody
  /\ IF thread[t].call = "~HDIPreparedModel"
     THEN Goto(t, "next")
     ELSE Return(t)
  /\ LeftWith(t, thread[t].call = "ReleaseBuffer" /\ ClientsRetry)
  /\ UNCHANGED <<version, allocated, serials, manager, heldFds, prepared, m_addrs, lostFds>>

\* Mutant: the entry stays in the table.
EraseNothing(t) ==
  /\ At(t, "erase")
  /\ mtx' = Nobody
  /\ IF thread[t].call = "~HDIPreparedModel" THEN Goto(t, "next") ELSE Return(t)
  /\ UNCHANGED <<version, allocated, serials, mapped, memorys, clients, lost>>

Erase(t) ==
  /\ At(t, "erase")
  /\ memorys' = [a \in DOMAIN memorys \ {thread[t].addr} |-> memorys[a]]
  /\ mtx' = Nobody
  /\ CASE thread[t].call = "ReleaseBuffer" -> Return(t) /\ UNCHANGED prepared
       [] thread[t].call = "PrepareOfflineModel" -> Answered(t)
       [] OTHER -> Goto(t, "next") /\ UNCHANGED <<prepared>>
  /\ UNCHANGED <<version, allocated, serials, mapped, held, heldFds, m_addrs, lost>>

-----------------------------------------------------------------------------
Call(t) ==
  \/ AllocateBuffer(t) \/ AllocateBufferFd(t) \/ ReleaseBuffer(t) \/ ReleaseBufferFd(t)
  \/ PrepareModel(t) \/ GetSupportedOperation(t) \/ PrepareOfflineModel(t)
  \/ PrepareModelFromModelCache(t) \/ ExportModelCache(t) \/ Run(t) \/ DestroyPreparedModel(t)
Step(t) ==
  \/ DriverAllocates(t) \/ DriverAllocatesNothing(t) \/ Map(t) \/ MapFails(t) \/ Register(t)
  \/ GiveBack(t) \/ NextBuffer(t) \/ Convert(t) \/ Retrieve(t) \/ Lookup(t)
  \/ DriverAnswers(t) \/ DriverRuns(t) \/ ReleaseSharedBuffer(t)
  \/ DriverReleases(t) \/ NextAddress(t) \/ UnMap(t) \/ UnMapFails(t) \/ Erase(t)

Next == \E t \in Threads : Call(t) \/ Step(t)
Spec == Init /\ [][Next]_vars

-----------------------------------------------------------------------------
(* Properties.                                                              *)

Entry == [fd : Fds, serial : 1..MaxBuffers]
Segment == [fd : Fds \union {INVALID_FD}, offset : Nat, dataSize : Nat]
Pcs == {"idle", "allocate", "map", "register", "giveBack", "next", "convert", "retrieve", "ask",
        "releaseShared", "lookup", "release", "unmap", "erase"}
Calls == {"none", "AllocateBuffer", "AllocateBufferFd", "ReleaseBuffer", "PrepareModel",
          "GetSupportedOperation", "PrepareOfflineModel", "ExportModelCache", "Run", "~HDIPreparedModel"}
Frames ==
  [pc : Pcs, call : Calls, length : Nat,
   fd : Fds \union {INVALID_FD}, serial : 0..MaxBuffers,
   addr : Addresses \union {nullptr, Foreign},
   graph : Graphs \union {NoGraph}, segments : Seq(Segment), left : SUBSET Fds,
   answer : {"none", "model", "refused"}]

\* Type invariant: the table maps addresses to buffers the driver has opened.
TypeOK ==
  /\ allocated \in [Fds -> 0..MaxBuffers] /\ serials \in 0..MaxBuffers
  /\ mapped \subseteq Addresses
  /\ DOMAIN memorys \subseteq Addresses
  /\ \A a \in DOMAIN memorys : memorys[a] \in Entry
  /\ mtx \in Threads \union {Nobody}
  /\ held \subseteq Addresses /\ heldFds \subseteq Fds
  /\ prepared \subseteq Threads
  /\ m_addrs \in [Threads -> SUBSET Addresses]
  /\ lostFds \subseteq Fds /\ lostAddresses \subseteq Addresses
  /\ thread \in [Threads -> Frames]

\* An address that AllocateBuffer returned leads, as long as the client has
\* it, to the very buffer it was made for, mapped and live at the driver:
\* neither the release of another buffer, nor a descriptor or an address used
\* a second time, nor the temporary buffers of a model come between.
HeldBuffersResolve ==
  \A a \in held : /\ a \in mapped /\ a \in DOMAIN memorys
                  /\ allocated[memorys[a].fd] = memorys[a].serial

\* Whatever the driver is asked to read is live when it reads it, and every
\* constant of the model that memcpy_s can copy lies whole in a place of its
\* own inside the buffer.
DriverReadsWholeBuffers ==
  \A t \in Threads : At(t, "ask") =>
    LET f == thread[t]
        Stored == {i \in DOMAIN f.segments : f.graph.tensors[i] \in 1..SECUREC_MEM_MAX_LEN}
        EndOf(i) == f.segments[i].offset + f.segments[i].dataSize
    IN /\ f.fd # INVALID_FD => allocated[f.fd] = f.serial
       /\ \A i \in Stored : /\ f.segments[i].fd = f.fd
                            /\ f.segments[i].dataSize = f.graph.tensors[i]
                            /\ EndOf(i) <= f.length
       /\ \A i, j \in Stored : i < j => EndOf(i) <= f.segments[j].offset

Owned(a) ==
  \/ a \in held \union lostAddresses
  \/ \E t \in Threads : a \in m_addrs[t] \/ thread[t].addr = a

\* Every buffer and every mapping has an owner who will release it: a client,
\* a prepared model, or the call under way. What is left out is what a
\* release that failed has lost, and the exported buffers.
NothingLeaks ==
  /\ \A a \in mapped \union DOMAIN memorys : Owned(a)
  /\ \A fd \in Fds : allocated[fd] # 0 =>
       \/ fd \in heldFds \union lostFds
       \/ \E t \in Threads : thread[t].fd = fd /\ thread[t].serial = allocated[fd]
       \/ \E a \in DOMAIN memorys :
            Owned(a) /\ memorys[a] = [fd |-> fd, serial |-> allocated[fd]]

\* A buffer is released only by the call that has it or by the client that
\* holds its descriptor, never by one that still knows the descriptor from an
\* earlier buffer.
OwnBufferReleased ==
  [][\A fd \in Fds : allocated[fd] # 0 /\ allocated'[fd] # allocated[fd] =>
       \/ fd \in heldFds
       \/ \E t \in Threads : /\ thread[t].fd = fd /\ thread[t].serial = allocated[fd]
                             /\ thread'[t] # thread[t]]_vars
=============================================================================
