---------------------------- MODULE NNTensor2_0 ----------------------------
(* The tensors of the newer executor interface: OH_NNTensor_Create,         *)
(* CreateWithSize and CreateWithFd, Destroy, the descriptor that            *)
(* OH_NNTensor_GetTensorDesc hands out for changes, and RunSync, which      *)
(* checks the tensors and writes the dimensions of results into them.       *)
(* Clients make one call at a time, but libraries may remove and register   *)
(* the backend on other threads, and a call looks it up twice.              *)
(*                                                                          *)
(* The driver uses a descriptor again once its buffer is released, mmap an  *)
(* address once it is unmapped. Lengths and sizes are in units of data; a   *)
(* tensor's dimensions and type are abstracted to the size of its data, 0   *)
(* for a dynamic shape. Failing heap allocations and calls that are refused *)
(* before they do anything are left out.                                    *)
EXTENDS Integers, FiniteSets

CONSTANTS Tensors,                \* handles that clients may hold
          Fds, Addresses,
          Sizes, Lengths,         \* of a tensor's data, of buffers
          ALLOCATE_BUFFER_LIMIT, SIZE_MAX,
          DimRanges,              \* sizes of inputs that the device accepts
          MaxAbandoned            \* bound: what failures ever leave to nobody

ASSUME TensorAssumption ==
  /\ Fds \intersect Addresses = {}
  /\ Sizes \subseteq Nat /\ Lengths \subseteq Nat \ {0}
  /\ ALLOCATE_BUFFER_LIMIT \in Nat /\ SIZE_MAX \in Nat
  /\ \A n \in Sizes \union Lengths \union {ALLOCATE_BUFFER_LIMIT} : n <= SIZE_MAX
  /\ DimRanges \subseteq Sizes
  /\ MaxAbandoned \in Nat

VARIABLES registered, \* the backend of all tensors is in the BackendManager
          call,       \* the call that is under way
          buffers,    \* descriptor -> length of the driver's buffer, or 0
          mapped,     \* address -> length of the mapping there, or 0
          tensors,    \* the NNTensor2_0 of each handle in use
          abandoned   \* descriptors and addresses that a failure leaves to nobody

vars == <<registered, call, buffers, mapped, tensors, abandoned>>

NoCall == [op |-> "none"]
Offsets == 0 .. ALLOCATE_BUFFER_LIMIT

\* A failure leaves these descriptors and addresses to nobody.
Abandon(left) ==
  /\ abandoned' = abandoned \union left
  /\ Cardinality(abandoned') <= MaxAbandoned

IsTensor(t) == t \in DOMAIN tensors
FreeFds == {fd \in Fds : buffers[fd] = 0}
FreeAddresses == {a \in Addresses : mapped[a] = 0}
Idle == call = NoCall

Init ==
  /\ registered = TRUE
  /\ call = NoCall
  /\ buffers = [fd \in Fds |-> 0] /\ mapped = [a \in Addresses |-> 0]
  /\ tensors = <<>>
  /\ abandoned = {}

\* A library removes its backend, or registers it, on any thread.
Registration ==
  /\ registered' = ~registered
  /\ UNCHANGED <<call, buffers, mapped, tensors, abandoned>>

-----------------------------------------------------------------------------
(* Creation. The call gets the backend first and AllocateMemory once more.  *)

CreateCall ==
  /\ Idle /\ registered
  /\ \E t \in Tensors \ DOMAIN tensors, byteSize \in Sizes :
       call' = [op |-> "create", tensor |-> t, byteSize |-> byteSize]
  /\ UNCHANGED <<registered, buffers, mapped, tensors, abandoned>>

\* The tensor that a successful CreateData leaves. fresh is no member of the
\* code: the descriptor still stands for the memory that is mapped.
Tensor(data, fd, size, offset, isUserData) ==
  [m_data |-> data, m_fd |-> fd, m_size |-> size, m_offset |-> offset,
   m_isUserData |-> isUserData, byteSize |-> call.byteSize, fresh |-> TRUE]

Created(tensor) ==
  /\ tensors' = [t \in DOMAIN tensors \union {call.tensor} |->
                   IF t = call.tensor THEN tensor ELSE tensors[t]]
  /\ mapped' = [mapped EXCEPT ![tensor.m_data] = tensor.m_size]

\* A tensor without data is destroyed by the call that has created it.
NotCreated == UNCHANGED <<mapped, tensors>>

\* The driver has given a buffer and mmap an address.
Allocated(length) ==
  \E fd \in FreeFds, a \in FreeAddresses :
    /\ buffers' = [buffers EXCEPT ![fd] = length]
    /\ Created(Tensor(a, fd, length, 0, FALSE))
    /\ UNCHANGED abandoned

\* mmap fails: nothing remembers the driver's buffer.
MapFails(length) ==
  \E fd \in FreeFds :
    /\ buffers' = [buffers EXCEPT ![fd] = length]
    /\ Abandon({fd})
    /\ NotCreated

\* No backend any more, or no buffer of the driver's.
NothingAllocated == NotCreated /\ UNCHANGED <<buffers, abandoned>>

AllocateMemory(length) ==
  \/ registered /\ length > 0 /\ (Allocated(length) \/ MapFails(length))
  \/ NothingAllocated

\* CreateData(): the device refuses a buffer for a dynamic shape.
CreateData ==
  IF call.byteSize <= ALLOCATE_BUFFER_LIMIT THEN AllocateMemory(call.byteSize) ELSE NothingAllocated

\* CreateData(size).
CreateDataWithSize ==
  \E size \in Lengths :
    IF size <= ALLOCATE_BUFFER_LIMIT /\ size >= call.byteSize
    THEN AllocateMemory(size) ELSE NothingAllocated

\* size_t is unsigned.
Minus(a, b) == (a - b) % (SIZE_MAX + 1)

\* Mutant: an offset beyond the size is not refused.
FitsUnsigned(size, offset, byteSize) == Minus(size, offset) >= byteSize
Fits(size, offset, byteSize) == size >= offset /\ Minus(size, offset) >= byteSize

\* CreateData(fd, size, offset) on the memory of another tensor, whose size
\* the client tells.
CreateDataWithFd ==
  \E u \in {v \in DOMAIN tensors : tensors[v].fresh}, offset \in Offsets :
    LET size == tensors[u].m_size
    IN /\ \/ /\ Fits(size, offset, call.byteSize)
             /\ \E a \in FreeAddresses : Created(Tensor(a, tensors[u].m_fd, size, offset, TRUE))
          \/ NotCreated
       /\ UNCHANGED <<buffers, abandoned>>

Create ==
  /\ call.op = "create"
  /\ CreateData \/ CreateDataWithSize \/ CreateDataWithFd
  /\ call' = NoCall
  /\ UNCHANGED registered

-----------------------------------------------------------------------------
(* Destruction.                                                             *)

DestroyCall ==
  /\ Idle /\ registered
  /\ \E t \in DOMAIN tensors : call' = [op |-> "destroy", tensor |-> t]
  /\ UNCHANGED <<registered, buffers, mapped, tensors, abandoned>>

\* The other tensors on the memory keep their mappings; their descriptor now
\* stands for nothing, or for what gets it next.
Others(t, released) ==
  tensors' = [u \in DOMAIN tensors \ {t} |->
                IF tensors[u].m_fd \in released THEN [tensors[u] EXCEPT !.fresh = FALSE] ELSE tensors[u]]

\* Mutant: a memory that belongs to another tensor is given back as well.
OwnsAny(t) == {tensors[t].m_fd}

\* What the tensor has to give back to the driver.
Owned(t) == IF tensors[t].m_isUserData THEN {} ELSE {tensors[t].m_fd}

UnmapFails(t) ==
  /\ Abandon({tensors[t].m_data} \union Owned(t))
  /\ UNCHANGED <<mapped, buffers>>
  /\ Others(t, {})

\* Mutant: a user's memory is neither released nor unmapped.
UnmapsOwn(t) == IF tensors[t].m_isUserData THEN mapped ELSE [mapped EXCEPT ![tensors[t].m_data] = 0]
Unmapped(t) == [mapped EXCEPT ![tensors[t].m_data] = 0]

Released(t) ==
  /\ mapped' = Unmapped(t)
  /\ buffers' = [fd \in Fds |-> IF fd \in Owned(t) THEN 0 ELSE buffers[fd]]
  /\ UNCHANGED abandoned
  /\ Others(t, Owned(t))

\* The backend has been removed since the call began, or the driver refuses.
NotReleased(t) ==
  /\ Owned(t) # {}
  /\ mapped' = Unmapped(t)
  /\ Abandon(Owned(t))
  /\ UNCHANGED buffers
  /\ Others(t, {})

ReleaseMemory(t) ==
  \/ UnmapFails(t)
  \/ (registered \/ Owned(t) = {}) /\ Released(t)
  \/ NotReleased(t)

Destroy ==
  /\ call.op = "destroy"
  /\ ReleaseMemory(call.tensor)
  /\ call' = NoCall
  /\ UNCHANGED registered

-----------------------------------------------------------------------------
(* Changes of a descriptor, and runs.                                       *)

\* OH_NNTensorDesc_SetShape or SetDataType on the tensor's own descriptor.
SetDesc ==
  /\ Idle
  /\ \E t \in DOMAIN tensors, byteSize \in Sizes :
       tensors' = [tensors EXCEPT ![t].byteSize = byteSize]
  /\ UNCHANGED <<registered, call, buffers, mapped, abandoned>>

\* Mutant: the size of the memory is compared as it is.
CheckSize(t) == tensors[t].m_size >= tensors[t].byteSize
CheckTensorData(t) == Minus(tensors[t].m_size, tensors[t].m_offset) >= tensors[t].byteSize

\* NNExecutor::CheckInputDimRanges, for a device that knows its ranges.
CheckInputDimRanges(inputs) == \A t \in inputs : tensors[t].byteSize \in DimRanges

\* RunSync hands the tensors to the device: TransIOTensor checks each of them.
\* Not every device knows its ranges. A client gives each output a tensor of
\* its own, which may also be an input.
RunCall ==
  /\ Idle
  /\ \E inputs, outputs \in SUBSET DOMAIN tensors \ {{}}, rangesKnown \in BOOLEAN :
       /\ rangesKnown => CheckInputDimRanges(inputs)
       /\ \A t \in inputs \union outputs : CheckTensorData(t)
       /\ call' = [op |-> "run", inputs |-> inputs, outputs |-> outputs]
  /\ UNCHANGED <<registered, buffers, mapped, tensors, abandoned>>

\* The device has reported dimensions. RunSync writes them into the outputs'
\* descriptors, one after the other, up to one that fails; isSufficientDataBuffer
\* is not looked at.
RunEnds ==
  /\ call.op = "run"
  /\ \E written \in SUBSET call.outputs : \E dims \in [written -> Sizes] :
       tensors' = [t \in DOMAIN tensors |->
                     IF t \in written THEN [tensors[t] EXCEPT !.byteSize = dims[t]] ELSE tensors[t]]
  /\ call' = NoCall
  /\ UNCHANGED <<registered, buffers, mapped, abandoned>>

Next ==
  \/ Registration
  \/ CreateCall \/ Create
  \/ DestroyCall \/ Destroy
  \/ SetDesc \/ RunCall \/ RunEnds

Spec == Init /\ [][Next]_vars

-----------------------------------------------------------------------------
(* Properties.                                                              *)

Memories ==
  [m_data : Addresses, m_fd : Fds, m_size : Nat \ {0}, m_offset : Nat,
   m_isUserData : BOOLEAN, byteSize : Sizes, fresh : BOOLEAN]

Calls ==
  {NoCall} \union [op : {"create"}, tensor : Tensors, byteSize : Sizes]
           \union [op : {"destroy"}, tensor : Tensors]
           \union [op : {"run"}, inputs : SUBSET Tensors, outputs : SUBSET Tensors]

\* The types of the state. A tensor always has its data, and its offset never
\* lies beyond its size, which the unsigned subtraction of CheckTensorData
\* (nntensor.cpp:320) relies on.
TypeOK ==
  /\ registered \in BOOLEAN
  /\ call \in Calls
  /\ call.op = "create" => ~IsTensor(call.tensor)
  /\ call.op = "destroy" => IsTensor(call.tensor)
  /\ call.op = "run" => call.inputs \union call.outputs \subseteq DOMAIN tensors
  /\ buffers \in [Fds -> Nat] /\ mapped \in [Addresses -> Nat]
  /\ DOMAIN tensors \subseteq Tensors
  /\ \A t \in DOMAIN tensors : tensors[t] \in Memories /\ tensors[t].m_offset <= tensors[t].m_size
  /\ abandoned \subseteq Fds \union Addresses

\* Every live buffer of the driver is to be released by exactly one tensor and
\* every mapping unmapped by exactly one, with the length it was mapped with,
\* except for what mmap, munmap, the driver or the removal of the backend
\* have left: tensors that share a memory through its descriptor
\* (OH_NNTensor_CreateWithFd) neither leak it nor release it twice.
EveryMemoryHasOneOwner ==
  /\ \A fd \in Fds :
       LET owners == {t \in DOMAIN tensors : fd \in Owned(t)}
       IN buffers[fd] # 0 <=> (fd \in abandoned \/ Cardinality(owners) = 1)
  /\ \A a \in Addresses :
       LET users == {t \in DOMAIN tensors : tensors[t].m_data = a}
       IN /\ Cardinality(users) <= 1
          /\ mapped[a] # 0 <=> (a \in abandoned \/ users # {})
          /\ \A t \in users : mapped[a] = tensors[t].m_size
  /\ abandoned \intersect ({tensors[t].m_data : t \in DOMAIN tensors} \union UNION {Owned(t) : t \in DOMAIN tensors}) = {}

\* What the device works on in RunSync is data that lie whole in the driver's
\* buffer, whatever a client or an earlier run has made of the descriptor
\* since the tensor was created and whatever offset the data have, as long as
\* the memory has not been released under the tensor.
DeviceGetsWholeTensors ==
  call.op = "run" =>
    \A t \in call.inputs \union call.outputs :
      LET tensor == tensors[t]
      IN tensor.fresh => /\ buffers[tensor.m_fd] = tensor.m_size
                         /\ tensor.m_offset + tensor.byteSize <= buffers[tensor.m_fd]

\* The memory of a tensor is released only when the tensor that has allocated
\* it is destroyed: "When you call the OH_NNTensor_Destroy method to release the
\* tensor created by this method, the tensor data memory will not be released"
\* (neural_network_core.h:650, of OH_NNTensor_CreateWithFd).
UserMemoryIsKept ==
  [][\A fd \in Fds :
       buffers[fd] # 0 /\ buffers'[fd] = 0
         => \E t \in DOMAIN tensors \ DOMAIN tensors' : tensors[t].m_fd = fd /\ ~tensors[t].m_isUserData]_vars

\* nnexecutor.cpp:766, of the results of RunSync: "NNTensor2_0::SetDimensions
\* will check if the tensor buffer is enough for the new dimensions." There is
\* no such check, and this property does not hold.
ResultsFitTheirTensors ==
  [][call.op = "run" /\ call' = NoCall =>
       \A t \in call.outputs :
         tensors'[t].m_offset + tensors'[t].byteSize <= tensors'[t].m_size]_vars
=============================================================================
