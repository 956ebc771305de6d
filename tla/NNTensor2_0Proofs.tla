------------------------- MODULE NNTensor2_0Proofs -------------------------
(* For any number of tensors, descriptors, addresses and lengths: the types *)
(* of NNTensor2_0, what the device is given, and who releases a memory.     *)
EXTENDS NNTensor2_0, FiniteSetTheorems, TLAPS

\* A descriptor that still stands for a tensor's memory has the driver's buffer
\* of that length: nobody else can have got the descriptor.
MemoriesAreThere ==
  \A t \in DOMAIN tensors :
    /\ tensors[t].m_size <= SIZE_MAX
    /\ tensors[t].fresh => buffers[tensors[t].m_fd] = tensors[t].m_size

\* What RunSync has checked of its tensors stays so until it ends.
RunsAreChecked ==
  call.op = "run" =>
    \A t \in call.inputs \union call.outputs :
      tensors[t].m_offset + tensors[t].byteSize <= tensors[t].m_size

IInv == TypeOK /\ MemoriesAreThere /\ RunsAreChecked

-----------------------------------------------------------------------------
(* Lemmas.                                                                  *)

\* size_t subtraction (nntensor.cpp:155 and 320) is exact where the offset is
\* within the size.
LEMMA MinusIsExact ==
  ASSUME NEW a \in Nat, NEW b \in Nat, b <= a, a <= SIZE_MAX
  PROVE  Minus(a, b) = a - b
<1>1. SIZE_MAX \in Nat
  BY TensorAssumption
<1>2. ASSUME NEW d \in Nat, NEW n \in Nat, d < n PROVE d % n = d
  BY <1>2, SMT
<1> QED
  BY <1>1, <1>2 DEF Minus

\* The calls under way are told apart by op.
LEMMA CallFields ==
  ASSUME call \in Calls
  PROVE  /\ call.op = "create" => call.tensor \in Tensors /\ call.byteSize \in Sizes
         /\ call.op = "destroy" => call.tensor \in Tensors
         /\ call.op = "run" => call.inputs \in SUBSET Tensors /\ call.outputs \in SUBSET Tensors
  BY DEF Calls, NoCall

\* The absent call is a call.
LEMMA CallIsNone == NoCall \in Calls /\ NoCall.op = "none"
  BY DEF Calls, NoCall

\* A new size leaves the other members of a tensor alone.
LEMMA SizeChanges ==
  ASSUME NEW r \in Memories, NEW n \in Sizes
  PROVE  LET s == [r EXCEPT !.byteSize = n]
         IN /\ s \in Memories /\ s.m_fd = r.m_fd /\ s.m_size = r.m_size
            /\ s.m_offset = r.m_offset /\ s.fresh = r.fresh
  BY DEF Memories

\* A descriptor that has lost its memory changes nothing else of its tensor.
LEMMA Stale ==
  ASSUME NEW r \in Memories
  PROVE  LET s == [r EXCEPT !.fresh = FALSE]
         IN /\ s \in Memories /\ s.m_fd = r.m_fd /\ s.m_size = r.m_size
            /\ s.m_offset = r.m_offset /\ s.fresh = FALSE
  BY DEF Memories

\* There are no tensors at first.
LEMMA InitIInv == Init => IInv
<1> SUFFICES ASSUME Init PROVE IInv
  OBVIOUS
<1>1. DOMAIN tensors = {}
  BY DEF Init
<1>2. call.op = "none" /\ call \in Calls
  BY CallIsNone DEF Init
<1> QED
  BY <1>1, <1>2 DEF Init, IInv, TypeOK, MemoriesAreThere, RunsAreChecked

-----------------------------------------------------------------------------
(* Creation.                                                                *)

\* What holds when a call ends that has not changed any tensor.
LEMMA EndOfCall ==
  ASSUME IInv, call' = NoCall, UNCHANGED <<registered, mapped, tensors>>,
         abandoned' \subseteq Fds \union Addresses,
         buffers' \in [Fds -> Nat], \A fd \in Fds : buffers[fd] # 0 => buffers'[fd] = buffers[fd]
  PROVE  IInv'
<1>1. \A t \in DOMAIN tensors : tensors[t] \in Memories
  BY DEF IInv, TypeOK
<1>2. \A t \in DOMAIN tensors : tensors[t].m_fd \in Fds /\ tensors[t].m_size # 0
  BY <1>1 DEF Memories
<1>3. MemoriesAreThere'
  BY <1>2 DEF IInv, MemoriesAreThere
<1> QED
  BY <1>3, CallIsNone DEF IInv, TypeOK, RunsAreChecked

\* What holds when a tensor has been created.
LEMMA CreatedTensor ==
  ASSUME IInv, call.op = "create", call' = NoCall, UNCHANGED <<registered, abandoned>>,
         NEW r \in Memories, Created(r), r.m_offset <= r.m_size, r.m_size <= SIZE_MAX,
         buffers' \in [Fds -> Nat], buffers'[r.m_fd] = r.m_size,
         \A fd \in Fds : buffers[fd] # 0 => buffers'[fd] = buffers[fd]
  PROVE  IInv'
<1>1. call.tensor \in Tensors
  BY CallFields DEF IInv, TypeOK
<1>2. \A t \in DOMAIN tensors : tensors[t] \in Memories
  BY DEF IInv, TypeOK
<1>3. \A t \in DOMAIN tensors : tensors[t].m_fd \in Fds /\ tensors[t].m_size # 0
  BY <1>2 DEF Memories
<1>4. /\ DOMAIN tensors' = DOMAIN tensors \union {call.tensor}
      /\ tensors'[call.tensor] = r
      /\ \A t \in DOMAIN tensors : t # call.tensor => tensors'[t] = tensors[t]
  BY DEF Created
<1>5. MemoriesAreThere'
  <2> SUFFICES ASSUME NEW t \in DOMAIN tensors'
               PROVE  /\ tensors'[t].m_size <= SIZE_MAX
                      /\ tensors'[t].fresh => buffers'[tensors'[t].m_fd] = tensors'[t].m_size
    BY DEF MemoriesAreThere
  <2>1. CASE t = call.tensor
    BY <2>1, <1>4
  <2>2. CASE t # call.tensor
    BY <2>2, <1>3, <1>4 DEF IInv, MemoriesAreThere
  <2> QED
    BY <2>1, <2>2
<1>6. mapped' \in [Addresses -> Nat]
  BY DEF Created, IInv, TypeOK, Memories
<1>7. \A t \in DOMAIN tensors' : tensors'[t] \in Memories /\ tensors'[t].m_offset <= tensors'[t].m_size
  BY <1>4 DEF IInv, TypeOK
<1> QED
  BY <1>1, <1>4, <1>5, <1>6, <1>7, CallIsNone DEF IInv, TypeOK, RunsAreChecked

\* Allocating preserves the invariant, whichever of its steps fails.
LEMMA AllocateKeeps ==
  ASSUME IInv, call.op = "create", call' = NoCall, UNCHANGED registered,
         NEW length \in Nat, length <= SIZE_MAX, AllocateMemory(length)
  PROVE  IInv'
<1>1. CASE length > 0 /\ Allocated(length)
  <2>1. PICK fd \in FreeFds, a \in FreeAddresses :
          /\ buffers' = [buffers EXCEPT ![fd] = length]
          /\ Created(Tensor(a, fd, length, 0, FALSE))
          /\ UNCHANGED abandoned
    BY <1>1 DEF Allocated
  <2> DEFINE r == Tensor(a, fd, length, 0, FALSE)
  <2>2. fd \in Fds /\ a \in Addresses /\ buffers[fd] = 0 /\ length \in Nat \ {0}
    BY <1>1 DEF FreeFds, FreeAddresses
  <2>3. r \in Memories /\ r.m_fd = fd /\ r.m_size = length /\ r.m_offset = 0
    <3>1. call.byteSize \in Sizes
      BY CallFields DEF IInv, TypeOK
    <3> QED
      BY <2>2, <3>1 DEF Tensor, Memories
  <2>4. buffers' \in [Fds -> Nat] /\ buffers'[fd] = length
        /\ \A f \in Fds : buffers[f] # 0 => buffers'[f] = buffers[f]
    BY <2>1, <2>2 DEF IInv, TypeOK
  <2> HIDE DEF r
  <2>5. Created(r)
    BY <2>1 DEF r
  <2> QED
    BY <2>1, <2>3, <2>4, <2>5, CreatedTensor
<1>2. CASE length > 0 /\ MapFails(length)
  <2>1. PICK fd \in FreeFds :
          /\ buffers' = [buffers EXCEPT ![fd] = length]
          /\ Abandon({fd}) /\ NotCreated
    BY <1>2 DEF MapFails
  <2>2. fd \in Fds /\ buffers[fd] = 0
    BY DEF FreeFds
  <2>3. buffers' \in [Fds -> Nat] /\ \A f \in Fds : buffers[f] # 0 => buffers'[f] = buffers[f]
    BY <2>1, <2>2 DEF IInv, TypeOK
  <2>4. abandoned' \subseteq Fds \union Addresses
    BY <2>1, <2>2 DEF Abandon, IInv, TypeOK
  <2> QED
    BY <2>1, <2>3, <2>4, EndOfCall DEF NotCreated
<1>3. CASE NothingAllocated
  BY <1>3, EndOfCall DEF NothingAllocated, NotCreated, IInv, TypeOK
<1> QED
  BY <1>1, <1>2, <1>3 DEF AllocateMemory

\* Creating a tensor preserves it.
LEMMA CreateKeeps == IInv /\ Create => IInv'
<1> SUFFICES ASSUME IInv, Create PROVE IInv'
  OBVIOUS
<1>1. call.op = "create" /\ call' = NoCall /\ UNCHANGED registered
  BY DEF Create
<1>2. call.byteSize \in Sizes /\ call.byteSize \in Nat
  BY <1>1, CallFields, TensorAssumption DEF IInv, TypeOK
<1>3. ASSUME NothingAllocated PROVE IInv'
  BY <1>1, <1>3, EndOfCall DEF NothingAllocated, NotCreated, IInv, TypeOK
<1>4. CASE CreateData
  <2>1. call.byteSize <= SIZE_MAX
    BY <1>2, TensorAssumption
  <2> QED
    BY <1>1, <1>2, <1>3, <1>4, <2>1, AllocateKeeps DEF CreateData
<1>5. CASE CreateDataWithSize
  <2>1. PICK size \in Lengths : AllocateMemory(size) \/ NothingAllocated
    BY <1>5 DEF CreateDataWithSize
  <2>2. size \in Nat /\ size <= SIZE_MAX
    BY TensorAssumption
  <2> QED
    BY <1>1, <1>3, <2>1, <2>2, AllocateKeeps
<1>6. CASE CreateDataWithFd
  <2>1. PICK u \in DOMAIN tensors, offset \in Offsets :
          /\ tensors[u].fresh
          /\ \/ /\ Fits(tensors[u].m_size, offset, call.byteSize)
                /\ \E a \in FreeAddresses : Created(Tensor(a, tensors[u].m_fd, tensors[u].m_size, offset, TRUE))
             \/ NotCreated
          /\ UNCHANGED <<buffers, abandoned>>
    BY <1>6 DEF CreateDataWithFd
  <2>2. tensors[u] \in Memories /\ buffers[tensors[u].m_fd] = tensors[u].m_size /\ tensors[u].m_size <= SIZE_MAX
    BY <2>1 DEF IInv, TypeOK, MemoriesAreThere
  <2> DEFINE fd == tensors[u].m_fd
             size == tensors[u].m_size
  <2>3. fd \in Fds /\ size \in Nat \ {0} /\ offset \in Nat
    BY <2>2, TensorAssumption DEF Memories, Offsets
  <2>4. CASE NotCreated
    BY <1>1, <2>1, <2>4, EndOfCall DEF NotCreated, IInv, TypeOK
  <2>5. ASSUME NEW a \in FreeAddresses, Created(Tensor(a, fd, size, offset, TRUE)),
               Fits(size, offset, call.byteSize)
        PROVE  IInv'
    <3> DEFINE r == Tensor(a, fd, size, offset, TRUE)
    <3>1. a \in Addresses
      BY DEF FreeAddresses
    <3>2. r \in Memories /\ r.m_fd = fd /\ r.m_size = size /\ r.m_offset = offset
      <4> HIDE DEF fd, size
      <4> QED
        BY <1>2, <2>3, <3>1 DEF Tensor, Memories
    <3>3. offset <= size
      BY <2>5, <2>3 DEF Fits
    <3> HIDE DEF r
    <3>4. Created(r)
      BY <2>5 DEF r
    <3>5. buffers' \in [Fds -> Nat] /\ buffers' = buffers /\ UNCHANGED abandoned
      BY <2>1 DEF IInv, TypeOK
    <3> QED
      BY <1>1, <2>2, <3>2, <3>3, <3>4, <3>5, CreatedTensor
  <2> QED
    BY <2>1, <2>4, <2>5
<1> QED
  BY <1>4, <1>5, <1>6 DEF Create

-----------------------------------------------------------------------------
(* Destruction.                                                             *)

\* What holds when a tensor is gone and its buffer, if it was its own, is
\* released or left.
LEMMA TensorGone ==
  ASSUME IInv, call.op = "destroy", call' = NoCall, UNCHANGED registered,
         NEW released \in SUBSET Fds, Others(call.tensor, released),
         mapped' \in [Addresses -> Nat], abandoned' \subseteq Fds \union Addresses,
         buffers' = [fd \in Fds |-> IF fd \in released THEN 0 ELSE buffers[fd]]
  PROVE  IInv'
<1>1. \A t \in DOMAIN tensors : tensors[t] \in Memories
  BY DEF IInv, TypeOK
<1>2. /\ DOMAIN tensors' = DOMAIN tensors \ {call.tensor}
      /\ \A t \in DOMAIN tensors' :
           tensors'[t] = IF tensors[t].m_fd \in released THEN [tensors[t] EXCEPT !.fresh = FALSE] ELSE tensors[t]
  BY DEF Others
<1>3. buffers' \in [Fds -> Nat]
  BY DEF IInv, TypeOK
<1>4. \A t \in DOMAIN tensors' :
        /\ tensors'[t] \in Memories
        /\ tensors'[t].m_offset <= tensors'[t].m_size /\ tensors'[t].m_size <= SIZE_MAX
        /\ tensors'[t].fresh => buffers'[tensors'[t].m_fd] = tensors'[t].m_size
  <2> SUFFICES ASSUME NEW t \in DOMAIN tensors'
               PROVE  /\ tensors'[t] \in Memories
                      /\ tensors'[t].m_offset <= tensors'[t].m_size /\ tensors'[t].m_size <= SIZE_MAX
                      /\ tensors'[t].fresh => buffers'[tensors'[t].m_fd] = tensors'[t].m_size
    OBVIOUS
  <2>1. t \in DOMAIN tensors /\ tensors[t] \in Memories
    BY <1>1, <1>2
  <2>2. tensors[t].m_offset <= tensors[t].m_size /\ tensors[t].m_size <= SIZE_MAX
        /\ (tensors[t].fresh => buffers[tensors[t].m_fd] = tensors[t].m_size)
    BY <2>1 DEF IInv, TypeOK, MemoriesAreThere
  <2>3. CASE tensors[t].m_fd \in released
    <3>1. tensors'[t] = [tensors[t] EXCEPT !.fresh = FALSE]
      BY <1>2, <2>3
    <3>2. /\ tensors'[t] \in Memories /\ tensors'[t].m_size = tensors[t].m_size
          /\ tensors'[t].m_offset = tensors[t].m_offset /\ tensors'[t].fresh = FALSE
      BY <2>1, <3>1, Stale
    <3> QED
      BY <2>2, <3>2
  <2>4. CASE tensors[t].m_fd \notin released
    <3>1. tensors'[t] = tensors[t]
      BY <1>2, <2>4
    <3>2. buffers'[tensors[t].m_fd] = buffers[tensors[t].m_fd]
      BY <2>1, <2>4 DEF Memories
    <3> QED
      BY <2>1, <2>2, <3>1, <3>2
  <2> QED
    BY <2>3, <2>4
<1> QED
  BY <1>2, <1>3, <1>4, CallIsNone DEF IInv, TypeOK, MemoriesAreThere, RunsAreChecked

\* Destroying a tensor preserves it.
LEMMA DestroyKeeps == IInv /\ Destroy => IInv'
<1> SUFFICES ASSUME IInv, Destroy PROVE IInv'
  OBVIOUS
<1> DEFINE t == call.tensor
<1>1. call.op = "destroy" /\ call' = NoCall /\ UNCHANGED registered /\ ReleaseMemory(t)
  BY DEF Destroy
<1>2. t \in DOMAIN tensors /\ tensors[t] \in Memories
  BY <1>1 DEF IInv, TypeOK, IsTensor
<1>3. Owned(t) \subseteq Fds /\ {tensors[t].m_data} \subseteq Addresses
  BY <1>2 DEF Owned, Memories
<1>4. /\ abandoned \subseteq Fds \union Addresses /\ mapped \in [Addresses -> Nat]
      /\ buffers \in [Fds -> Nat] /\ Unmapped(t) \in [Addresses -> Nat]
  BY DEF IInv, TypeOK, Unmapped
<1> HIDE DEF t
<1>5. CASE UnmapFails(t)
  <2>1. Others(t, {}) /\ UNCHANGED mapped /\ UNCHANGED buffers /\ abandoned' \subseteq Fds \union Addresses
    BY <1>3, <1>4, <1>5 DEF UnmapFails, Abandon
  <2>2. buffers' = [fd \in Fds |-> IF fd \in {} THEN 0 ELSE buffers[fd]]
    BY <1>4, <2>1
  <2> QED
    BY <1>1, <1>4, <2>1, <2>2, TensorGone DEF t
<1>6. CASE Released(t)
  <2>1. Others(t, Owned(t)) /\ mapped' = Unmapped(t) /\ UNCHANGED abandoned
        /\ buffers' = [fd \in Fds |-> IF fd \in Owned(t) THEN 0 ELSE buffers[fd]]
    BY <1>6 DEF Released
  <2> QED
    BY <1>1, <1>3, <1>4, <2>1, TensorGone DEF t
<1>7. CASE NotReleased(t)
  <2>1. Others(t, {}) /\ mapped' = Unmapped(t) /\ UNCHANGED buffers /\ abandoned' \subseteq Fds \union Addresses
    BY <1>3, <1>4, <1>7 DEF NotReleased, Abandon
  <2>2. buffers' = [fd \in Fds |-> IF fd \in {} THEN 0 ELSE buffers[fd]]
    BY <1>4, <2>1
  <2> QED
    BY <1>1, <1>4, <2>1, <2>2, TensorGone DEF t
<1> QED
  BY <1>1, <1>5, <1>6, <1>7 DEF ReleaseMemory

-----------------------------------------------------------------------------
(* Runs and the other steps.                                                *)

\* Beginning a run preserves it: the sizes have just been compared.
LEMMA RunCallKeeps == IInv /\ RunCall => IInv'
<1> SUFFICES ASSUME IInv, RunCall PROVE IInv'
  OBVIOUS
<1>1. PICK inputs \in SUBSET DOMAIN tensors, outputs \in SUBSET DOMAIN tensors :
        /\ \A t \in inputs \union outputs : CheckTensorData(t)
        /\ call' = [op |-> "run", inputs |-> inputs, outputs |-> outputs]
  BY DEF RunCall
<1>2. UNCHANGED <<registered, buffers, mapped, tensors, abandoned>>
  BY DEF RunCall
<1>3. call' \in Calls /\ call'.op = "run" /\ call'.inputs = inputs /\ call'.outputs = outputs
  BY <1>1 DEF Calls, IInv, TypeOK
<1>4. RunsAreChecked'
  <2> SUFFICES ASSUME NEW t \in inputs \union outputs
               PROVE  tensors[t].m_offset + tensors[t].byteSize <= tensors[t].m_size
    BY <1>2, <1>3 DEF RunsAreChecked
  <2>1. t \in DOMAIN tensors /\ CheckTensorData(t)
    BY <1>1
  <2>2. tensors[t] \in Memories /\ tensors[t].m_offset <= tensors[t].m_size /\ tensors[t].m_size <= SIZE_MAX
    BY <2>1 DEF IInv, TypeOK, MemoriesAreThere
  <2>3. tensors[t].m_size \in Nat /\ tensors[t].m_offset \in Nat /\ tensors[t].byteSize \in Nat
    BY <2>2, TensorAssumption DEF Memories
  <2> QED
    BY <2>1, <2>2, <2>3, MinusIsExact DEF CheckTensorData
<1> QED
  BY <1>1, <1>2, <1>3, <1>4 DEF IInv, TypeOK, MemoriesAreThere

\* Sizes of data may change between the calls, or when a run ends.
LEMMA SizesChange ==
  ASSUME IInv, call' = NoCall, UNCHANGED <<registered, buffers, mapped, abandoned>>,
         DOMAIN tensors' = DOMAIN tensors,
         \A t \in DOMAIN tensors : tensors'[t] = tensors[t] \/ \E n \in Sizes : tensors'[t] = [tensors[t] EXCEPT !.byteSize = n]
  PROVE  IInv'
<1>1. \A t \in DOMAIN tensors :
        /\ tensors'[t] \in Memories /\ tensors'[t].m_fd = tensors[t].m_fd
        /\ tensors'[t].m_size = tensors[t].m_size /\ tensors'[t].m_offset = tensors[t].m_offset
        /\ tensors'[t].fresh = tensors[t].fresh
  <2> SUFFICES ASSUME NEW t \in DOMAIN tensors
               PROVE  /\ tensors'[t] \in Memories /\ tensors'[t].m_fd = tensors[t].m_fd
                      /\ tensors'[t].m_size = tensors[t].m_size /\ tensors'[t].m_offset = tensors[t].m_offset
                      /\ tensors'[t].fresh = tensors[t].fresh
    OBVIOUS
  <2>1. tensors[t] \in Memories
    BY DEF IInv, TypeOK
  <2>2. CASE tensors'[t] = tensors[t]
    BY <2>1, <2>2
  <2>3. CASE \E n \in Sizes : tensors'[t] = [tensors[t] EXCEPT !.byteSize = n]
    <3>1. PICK n \in Sizes : tensors'[t] = [tensors[t] EXCEPT !.byteSize = n]
      BY <2>3
    <3> QED
      BY <2>1, <3>1, SizeChanges
  <2> QED
    BY <2>2, <2>3
<1> QED
  BY <1>1, CallIsNone DEF IInv, TypeOK, MemoriesAreThere, RunsAreChecked

\* Every step preserves the invariant.
LEMMA IInvKept == IInv /\ [Next]_vars => IInv'
<1> SUFFICES ASSUME IInv, [Next]_vars PROVE IInv'
  OBVIOUS
<1>1. CASE Registration
  BY <1>1 DEF Registration, IInv, TypeOK, IsTensor, MemoriesAreThere, RunsAreChecked
<1>2. CASE CreateCall
  <2>1. PICK t \in Tensors \ DOMAIN tensors, byteSize \in Sizes :
          call' = [op |-> "create", tensor |-> t, byteSize |-> byteSize]
    BY <1>2 DEF CreateCall
  <2>2. call' \in Calls /\ call'.op = "create" /\ call'.tensor = t
    BY <2>1 DEF Calls
  <2> QED
    BY <1>2, <2>2 DEF CreateCall, IInv, TypeOK, IsTensor, MemoriesAreThere, RunsAreChecked
<1>3. CASE Create
  BY <1>3, CreateKeeps
<1>4. CASE DestroyCall
  <2>1. PICK t \in DOMAIN tensors : call' = [op |-> "destroy", tensor |-> t]
    BY <1>4 DEF DestroyCall
  <2>2. call' \in Calls /\ call'.op = "destroy" /\ call'.tensor = t
    BY <2>1 DEF Calls, IInv, TypeOK
  <2> QED
    BY <1>4, <2>2 DEF DestroyCall, IInv, TypeOK, IsTensor, MemoriesAreThere, RunsAreChecked
<1>5. CASE Destroy
  BY <1>5, DestroyKeeps
<1>6. CASE SetDesc
  <2>1. PICK t \in DOMAIN tensors, n \in Sizes : tensors' = [tensors EXCEPT ![t].byteSize = n]
    BY <1>6 DEF SetDesc
  <2>2. call' = NoCall /\ UNCHANGED <<registered, buffers, mapped, abandoned>>
    BY <1>6 DEF SetDesc, Idle
  <2>3. /\ DOMAIN tensors' = DOMAIN tensors
        /\ tensors'[t] = [tensors[t] EXCEPT !.byteSize = n]
        /\ \A u \in DOMAIN tensors : u # t => tensors'[u] = tensors[u]
    BY <2>1
  <2> QED
    BY <2>2, <2>3, SizesChange
<1>7. CASE RunCall
  BY <1>7, RunCallKeeps
<1>8. CASE RunEnds
  <2>1. PICK written \in SUBSET call.outputs : \E dims \in [written -> Sizes] :
          tensors' = [t \in DOMAIN tensors |->
                        IF t \in written THEN [tensors[t] EXCEPT !.byteSize = dims[t]] ELSE tensors[t]]
    BY <1>8 DEF RunEnds
  <2>2. DOMAIN tensors' = DOMAIN tensors
        /\ \A t \in DOMAIN tensors : tensors'[t] = tensors[t] \/ \E n \in Sizes : tensors'[t] = [tensors[t] EXCEPT !.byteSize = n]
    BY <2>1
  <2> QED
    BY <1>8, <2>2, SizesChange DEF RunEnds
<1>9. CASE UNCHANGED vars
  BY <1>9 DEF vars, IInv, TypeOK, IsTensor, MemoriesAreThere, RunsAreChecked
<1> QED
  BY <1>1, <1>2, <1>3, <1>4, <1>5, <1>6, <1>7, <1>8, <1>9 DEF Next

-----------------------------------------------------------------------------
(* Theorems.                                                                *)

\* The inductive invariant: types, descriptors that stand for the memory they
\* were given for, and runs whose check still holds.
THEOREM Invariant == Spec => []IInv
  BY InitIInv, IInvKept, PTL DEF Spec

\* Every variable keeps its type; an offset never lies beyond its size, the
\* premise of the unsigned subtraction in CheckTensorData (nntensor.cpp:320).
THEOREM TypeCorrect == Spec => []TypeOK
<1>1. IInv => TypeOK
  BY DEF IInv
<1> QED
  BY <1>1, Invariant, PTL

\* The device works on data that lie whole in the driver's buffer, whatever has
\* been made of the descriptor and of the memory since the tensor was created.
THEOREM WholeTensors == Spec => []DeviceGetsWholeTensors
<1>1. IInv => DeviceGetsWholeTensors
  <2> SUFFICES ASSUME IInv, call.op = "run", NEW t \in call.inputs \union call.outputs, tensors[t].fresh
               PROVE  /\ buffers[tensors[t].m_fd] = tensors[t].m_size
                      /\ tensors[t].m_offset + tensors[t].byteSize <= buffers[tensors[t].m_fd]
    BY DEF DeviceGetsWholeTensors
  <2>1. t \in DOMAIN tensors
    BY DEF IInv, TypeOK
  <2> QED
    BY <2>1 DEF IInv, MemoriesAreThere, RunsAreChecked
<1> QED
  BY <1>1, Invariant, PTL

\* A memory is released only when the tensor that has allocated it is destroyed,
\* never by OH_NNTensor_Destroy of a tensor made of its descriptor.
THEOREM UserMemory == Spec => UserMemoryIsKept
<1> DEFINE Kept == \A fd \in Fds :
       buffers[fd] # 0 /\ buffers'[fd] = 0
         => \E t \in DOMAIN tensors \ DOMAIN tensors' : tensors[t].m_fd = fd /\ ~tensors[t].m_isUserData
<1>1. IInv /\ [Next]_vars => [Kept]_vars
  <2> SUFFICES ASSUME IInv, Next, NEW fd \in Fds, buffers[fd] # 0, buffers'[fd] = 0
               PROVE  \E t \in DOMAIN tensors \ DOMAIN tensors' : tensors[t].m_fd = fd /\ ~tensors[t].m_isUserData
    OBVIOUS
  <2>1. buffers \in [Fds -> Nat]
    BY DEF IInv, TypeOK
  <2>2. CASE Create
    <3> DEFINE Grown == \E length \in Nat, f \in Fds : length > 0 /\ buffers' = [buffers EXCEPT ![f] = length]
    <3>1. ASSUME NEW length \in Nat, AllocateMemory(length) PROVE UNCHANGED buffers \/ Grown
      BY <3>1 DEF AllocateMemory, Allocated, MapFails, NothingAllocated, FreeFds
    <3>2. call.byteSize \in Nat
      BY <2>2, CallFields, TensorAssumption DEF Create, IInv, TypeOK
    <3>3. CreateData => UNCHANGED buffers \/ Grown
      BY <3>1, <3>2 DEF CreateData, NothingAllocated
    <3>4. CreateDataWithSize => UNCHANGED buffers \/ Grown
      BY <3>1, TensorAssumption DEF CreateDataWithSize, NothingAllocated
    <3>5. CreateDataWithFd => UNCHANGED buffers
      BY DEF CreateDataWithFd
    <3>6. UNCHANGED buffers \/ Grown
      BY <2>2, <3>3, <3>4, <3>5 DEF Create
    <3> QED
      BY <2>1, <3>6
  <2>3. CASE Destroy
    <3>1. PICK t \in {call.tensor} : t \in DOMAIN tensors /\ ReleaseMemory(t)
      BY <2>3 DEF Destroy, IInv, TypeOK, IsTensor
    <3>2. Released(t)
      BY <3>1 DEF ReleaseMemory, UnmapFails, NotReleased
    <3>3. fd \in Owned(t) /\ t \notin DOMAIN tensors'
      BY <2>1, <3>2 DEF Released, Others
    <3>4. tensors[t].m_fd = fd /\ ~tensors[t].m_isUserData
      BY <3>3 DEF Owned
    <3> QED
      BY <3>1, <3>3, <3>4
  <2> QED
    BY <2>2, <2>3 DEF Next, Registration, CreateCall, DestroyCall, SetDesc, RunCall, RunEnds
<1> QED
  BY <1>1, Invariant, PTL DEF Spec, UserMemoryIsKept

-----------------------------------------------------------------------------
(* Who releases a memory. The mappings and the buffers are followed apart:  *)
(* a tensor made of another one's descriptor has a mapping and no buffer.   *)

\* Every mapping is one tensor's, of the size it was mapped with, or nobody's.
Mappings ==
  /\ \A t, u \in DOMAIN tensors : tensors[t].m_data = tensors[u].m_data => t = u
  /\ \A t \in DOMAIN tensors : /\ mapped[tensors[t].m_data] = tensors[t].m_size
                               /\ tensors[t].m_data \notin abandoned
  /\ \A a \in Addresses : a \in abandoned => mapped[a] # 0
  /\ \A a \in Addresses :
       mapped[a] # 0 /\ a \notin abandoned => \E t \in DOMAIN tensors : tensors[t].m_data = a

\* Every buffer is one tensor's that has allocated it, or nobody's.
Allocations ==
  /\ \A t, u \in DOMAIN tensors :
       ~tensors[t].m_isUserData /\ ~tensors[u].m_isUserData /\ tensors[t].m_fd = tensors[u].m_fd
         => t = u
  /\ \A t \in DOMAIN tensors : ~tensors[t].m_isUserData =>
       buffers[tensors[t].m_fd] # 0 /\ tensors[t].m_fd \notin abandoned
  /\ \A fd \in Fds : fd \in abandoned => buffers[fd] # 0
  /\ \A fd \in Fds :
       buffers[fd] # 0 /\ fd \notin abandoned
         => \E t \in DOMAIN tensors : ~tensors[t].m_isUserData /\ tensors[t].m_fd = fd

Ownership == Mappings /\ Allocations

\* The types that ownership is about.
LEMMA TensorTypes ==
  ASSUME IInv
  PROVE  /\ buffers \in [Fds -> Nat] /\ mapped \in [Addresses -> Nat]
         /\ \A t \in DOMAIN tensors :
              /\ tensors[t].m_data \in Addresses /\ tensors[t].m_fd \in Fds
              /\ tensors[t].m_size \in Nat \ {0}
              /\ tensors[t].m_isUserData \in BOOLEAN
  BY DEF IInv, TypeOK, Memories

\* Nothing is owned at first.
LEMMA InitOwnership == Init => Ownership
<1> SUFFICES ASSUME Init PROVE Ownership
  OBVIOUS
<1>1. DOMAIN tensors = {}
  BY DEF Init
<1> QED
  BY <1>1 DEF Init, Ownership, Mappings, Allocations

\* A new tensor has a mapping of its own.
LEMMA MappingCreated ==
  ASSUME IInv, Ownership, call.op = "create", UNCHANGED abandoned,
         NEW r \in Memories, Created(r), mapped[r.m_data] = 0
  PROVE  Mappings'
<1>1. r.m_data \in Addresses /\ r.m_size # 0 /\ call.tensor \notin DOMAIN tensors
  BY DEF Memories, IInv, TypeOK, IsTensor
<1>2. /\ DOMAIN tensors' = DOMAIN tensors \union {call.tensor}
      /\ tensors'[call.tensor] = r
      /\ \A t \in DOMAIN tensors : tensors'[t] = tensors[t]
  BY <1>1 DEF Created
<1>3. /\ mapped'[r.m_data] = r.m_size
      /\ \A a \in Addresses : a # r.m_data => mapped'[a] = mapped[a]
  BY <1>1, TensorTypes DEF Created
<1>4. \A t \in DOMAIN tensors : tensors[t].m_data \in Addresses /\ tensors[t].m_data # r.m_data
  BY TensorTypes DEF Ownership, Mappings
<1>5. r.m_data \notin abandoned
  BY <1>1 DEF Ownership, Mappings
<1> QED
  BY <1>1, <1>2, <1>3, <1>4, <1>5 DEF Ownership, Mappings

\* And either a buffer of its own or none.
LEMMA BufferCreated ==
  ASSUME IInv, Ownership, call.op = "create", UNCHANGED abandoned,
         NEW r \in Memories, Created(r), ~r.m_isUserData,
         buffers[r.m_fd] = 0, buffers' = [buffers EXCEPT ![r.m_fd] = r.m_size]
  PROVE  Allocations'
<1>1. r.m_fd \in Fds /\ r.m_size # 0 /\ call.tensor \notin DOMAIN tensors
  BY DEF Memories, IInv, TypeOK, IsTensor
<1>2. /\ DOMAIN tensors' = DOMAIN tensors \union {call.tensor}
      /\ tensors'[call.tensor] = r
      /\ \A t \in DOMAIN tensors : tensors'[t] = tensors[t]
  BY <1>1 DEF Created
<1>3. /\ buffers'[r.m_fd] = r.m_size
      /\ \A fd \in Fds : fd # r.m_fd => buffers'[fd] = buffers[fd]
  BY <1>1, TensorTypes
<1>4. \A t \in DOMAIN tensors : tensors[t].m_fd \in Fds
  BY TensorTypes
<1>5. \A t \in DOMAIN tensors : ~tensors[t].m_isUserData => tensors[t].m_fd # r.m_fd
  BY DEF Ownership, Allocations
<1>6. r.m_fd \notin abandoned
  BY <1>1 DEF Ownership, Allocations
<1>7. /\ \A t, u \in DOMAIN tensors' :
           ~tensors'[t].m_isUserData /\ ~tensors'[u].m_isUserData /\ tensors'[t].m_fd = tensors'[u].m_fd => t = u
      /\ \A t \in DOMAIN tensors' : ~tensors'[t].m_isUserData =>
           buffers'[tensors'[t].m_fd] # 0 /\ tensors'[t].m_fd \notin abandoned'
  BY <1>1, <1>2, <1>3, <1>4, <1>5, <1>6 DEF Ownership, Allocations
<1>8. /\ \A fd \in Fds : fd \in abandoned' => buffers'[fd] # 0
      /\ \A fd \in Fds : buffers'[fd] # 0 /\ fd \notin abandoned'
           => \E t \in DOMAIN tensors' : ~tensors'[t].m_isUserData /\ tensors'[t].m_fd = fd
  <2>1. ASSUME NEW fd \in Fds, buffers'[fd] # 0, fd \notin abandoned'
        PROVE  \E t \in DOMAIN tensors' : ~tensors'[t].m_isUserData /\ tensors'[t].m_fd = fd
    <3>1. CASE fd = r.m_fd
      BY <1>2, <3>1
    <3>2. CASE fd # r.m_fd
      BY <1>2, <1>3, <2>1, <3>2 DEF Ownership, Allocations
    <3> QED
      BY <3>1, <3>2
  <2> QED
    BY <2>1, <1>1, <1>3 DEF Ownership, Allocations
<1> QED
  BY <1>7, <1>8 DEF Allocations

\* A tensor over memory of another allocates nothing.
LEMMA UserMemoryCreated ==
  ASSUME IInv, Ownership, call.op = "create", UNCHANGED <<buffers, abandoned>>,
         NEW r \in Memories, Created(r), r.m_isUserData
  PROVE  Allocations'
<1>1. call.tensor \notin DOMAIN tensors
  BY DEF IInv, TypeOK, IsTensor
<1>2. /\ DOMAIN tensors' = DOMAIN tensors \union {call.tensor}
      /\ tensors'[call.tensor] = r
      /\ \A t \in DOMAIN tensors : tensors'[t] = tensors[t]
  BY <1>1 DEF Created
<1> QED
  BY <1>1, <1>2 DEF Ownership, Allocations

\* Allocating gives each memory one owner, or abandons it.
LEMMA AllocateOwns ==
  ASSUME IInv, Ownership, call.op = "create", NEW length \in Nat, AllocateMemory(length)
  PROVE  Ownership'
<1>1. CASE length > 0 /\ Allocated(length)
  <2>1. PICK fd \in FreeFds, a \in FreeAddresses :
          /\ buffers' = [buffers EXCEPT ![fd] = length]
          /\ Created(Tensor(a, fd, length, 0, FALSE))
          /\ UNCHANGED abandoned
    BY <1>1 DEF Allocated
  <2> DEFINE r == Tensor(a, fd, length, 0, FALSE)
  <2>2. fd \in Fds /\ a \in Addresses /\ buffers[fd] = 0 /\ mapped[a] = 0 /\ length \in Nat \ {0}
    BY <1>1 DEF FreeFds, FreeAddresses
  <2>3. call.byteSize \in Sizes
    BY CallFields DEF IInv, TypeOK
  <2>4. r \in Memories /\ r.m_fd = fd /\ r.m_data = a /\ r.m_size = length /\ ~r.m_isUserData
    BY <2>2, <2>3 DEF Tensor, Memories
  <2> HIDE DEF r
  <2>5. Created(r)
    BY <2>1 DEF r
  <2> QED
    BY <2>1, <2>2, <2>4, <2>5, MappingCreated, BufferCreated DEF Ownership
<1>2. CASE length > 0 /\ MapFails(length)
  <2>1. PICK fd \in FreeFds :
          /\ buffers' = [buffers EXCEPT ![fd] = length]
          /\ abandoned' = abandoned \union {fd}
          /\ UNCHANGED <<mapped, tensors>>
    BY <1>2 DEF MapFails, Abandon, NotCreated
  <2>2. fd \in Fds /\ fd \notin Addresses /\ buffers[fd] = 0
    BY TensorAssumption DEF FreeFds
  <2>3. /\ buffers'[fd] # 0
        /\ \A f \in Fds : f # fd => buffers'[f] = buffers[f]
    BY <1>2, <2>1, <2>2, TensorTypes
  <2>4. Mappings'
    BY <2>1, <2>2, TensorTypes DEF Ownership, Mappings
  <2>5. \A t \in DOMAIN tensors : ~tensors[t].m_isUserData => tensors[t].m_fd # fd
    BY <2>2 DEF Ownership, Allocations
  <2>6. Allocations'
    BY <2>1, <2>2, <2>3, <2>5, TensorTypes DEF Ownership, Allocations
  <2> QED
    BY <2>4, <2>6 DEF Ownership
<1>3. CASE NothingAllocated
  BY <1>3 DEF NothingAllocated, NotCreated, Ownership, Mappings, Allocations
<1> QED
  BY <1>1, <1>2, <1>3 DEF AllocateMemory

\* Creating a tensor does.
LEMMA CreateOwns == IInv /\ Ownership /\ Create => Ownership'
<1> SUFFICES ASSUME IInv, Ownership, Create PROVE Ownership'
  OBVIOUS
<1>1. call.op = "create" /\ call.byteSize \in Sizes /\ call.byteSize \in Nat
  BY CallFields, TensorAssumption DEF Create, IInv, TypeOK
<1>2. ASSUME NothingAllocated PROVE Ownership'
  BY <1>2 DEF NothingAllocated, NotCreated, Ownership, Mappings, Allocations
<1>3. CASE CreateData
  BY <1>1, <1>2, <1>3, AllocateOwns DEF CreateData
<1>4. CASE CreateDataWithSize
  BY <1>1, <1>2, <1>4, AllocateOwns, TensorAssumption DEF CreateDataWithSize
<1>5. CASE CreateDataWithFd
  <2>1. PICK u \in DOMAIN tensors, offset \in Offsets :
          /\ \/ \E a \in FreeAddresses : Created(Tensor(a, tensors[u].m_fd, tensors[u].m_size, offset, TRUE))
             \/ NotCreated
          /\ UNCHANGED <<buffers, abandoned>>
    BY <1>5 DEF CreateDataWithFd
  <2> DEFINE fd == tensors[u].m_fd
             size == tensors[u].m_size
  <2>2. fd \in Fds /\ size \in Nat \ {0} /\ offset \in Nat
    BY TensorTypes, TensorAssumption DEF Offsets
  <2> HIDE DEF fd, size
  <2>3. ASSUME NEW a \in FreeAddresses, Created(Tensor(a, fd, size, offset, TRUE))
        PROVE  Ownership'
    <3> DEFINE r == Tensor(a, fd, size, offset, TRUE)
    <3>1. a \in Addresses /\ mapped[a] = 0
      BY DEF FreeAddresses
    <3>2. r \in Memories /\ r.m_data = a /\ r.m_isUserData
      BY <1>1, <2>2, <3>1 DEF Tensor, Memories
    <3> HIDE DEF r
    <3>3. Created(r)
      BY <2>3 DEF r
    <3> QED
      BY <1>1, <2>1, <3>1, <3>2, <3>3, MappingCreated, UserMemoryCreated DEF Ownership
  <2>4. CASE NotCreated
    BY <2>1, <2>4 DEF NotCreated, Ownership, Mappings, Allocations
  <2> QED
    BY <2>1, <2>3, <2>4 DEF fd, size
<1> QED
  BY <1>3, <1>4, <1>5 DEF Create

\* A tensor that goes gives back its mapping and its buffer, or leaves them.
LEMMA TensorForgotten ==
  ASSUME IInv, Ownership, NEW t \in DOMAIN tensors, NEW released, Others(t, released),
         \A a \in Addresses : a # tensors[t].m_data =>
            mapped'[a] = mapped[a] /\ (a \in abandoned' <=> a \in abandoned),
         mapped'[tensors[t].m_data] # 0 <=> tensors[t].m_data \in abandoned',
         \A fd \in Fds : fd \notin Owned(t) =>
            buffers'[fd] = buffers[fd] /\ (fd \in abandoned' <=> fd \in abandoned),
         \A fd \in Owned(t) : buffers'[fd] # 0 <=> fd \in abandoned'
  PROVE  Ownership'
<1>1. DOMAIN tensors' = DOMAIN tensors \ {t}
  BY DEF Others
<1>2. \A u \in DOMAIN tensors' :
        /\ u \in DOMAIN tensors /\ u # t
        /\ tensors'[u].m_data = tensors[u].m_data /\ tensors'[u].m_fd = tensors[u].m_fd
        /\ tensors'[u].m_size = tensors[u].m_size /\ tensors'[u].m_isUserData = tensors[u].m_isUserData
  <2> TAKE u \in DOMAIN tensors'
  <2>1. u \in DOMAIN tensors /\ u # t /\ tensors[u] \in Memories
    BY <1>1 DEF IInv, TypeOK
  <2>2. tensors'[u] = tensors[u] \/ tensors'[u] = [tensors[u] EXCEPT !.fresh = FALSE]
    BY <1>1, <2>1 DEF Others
  <2> QED
    BY <2>1, <2>2 DEF Memories
<1>3. \A u \in DOMAIN tensors' : tensors[u].m_data # tensors[t].m_data
  BY <1>2 DEF Ownership, Mappings
<1>4. \A u \in DOMAIN tensors' : ~tensors[u].m_isUserData => tensors[u].m_fd \notin Owned(t)
  BY <1>2 DEF Ownership, Allocations, Owned
<1>5. Mappings'
  <2>1. \A u, v \in DOMAIN tensors' : tensors'[u].m_data = tensors'[v].m_data => u = v
    BY <1>2 DEF Ownership, Mappings
  <2>2. \A u \in DOMAIN tensors' : /\ mapped'[tensors'[u].m_data] = tensors'[u].m_size
                                   /\ tensors'[u].m_data \notin abandoned'
    BY <1>2, <1>3, TensorTypes DEF Ownership, Mappings
  <2>3. \A a \in Addresses : a \in abandoned' => mapped'[a] # 0
    BY DEF Ownership, Mappings
  <2>4. ASSUME NEW a \in Addresses, mapped'[a] # 0, a \notin abandoned'
        PROVE  \E u \in DOMAIN tensors' : tensors'[u].m_data = a
    <3>1. a # tensors[t].m_data
      BY <2>4
    <3>2. PICK u \in DOMAIN tensors : tensors[u].m_data = a
      BY <2>4, <3>1 DEF Ownership, Mappings
    <3> QED
      BY <1>1, <1>2, <3>1, <3>2
  <2> QED
    BY <2>1, <2>2, <2>3, <2>4 DEF Mappings
<1>6. Allocations'
  <2>1. \A u, v \in DOMAIN tensors' :
          ~tensors'[u].m_isUserData /\ ~tensors'[v].m_isUserData /\ tensors'[u].m_fd = tensors'[v].m_fd => u = v
    BY <1>2 DEF Ownership, Allocations
  <2>2. \A u \in DOMAIN tensors' : ~tensors'[u].m_isUserData =>
          buffers'[tensors'[u].m_fd] # 0 /\ tensors'[u].m_fd \notin abandoned'
    BY <1>2, <1>4, TensorTypes DEF Ownership, Allocations
  <2>3. \A fd \in Fds : fd \in abandoned' => buffers'[fd] # 0
    BY DEF Ownership, Allocations
  <2>4. ASSUME NEW fd \in Fds, buffers'[fd] # 0, fd \notin abandoned'
        PROVE  \E u \in DOMAIN tensors' : ~tensors'[u].m_isUserData /\ tensors'[u].m_fd = fd
    <3>1. fd \notin Owned(t)
      BY <2>4
    <3>2. PICK u \in DOMAIN tensors : ~tensors[u].m_isUserData /\ tensors[u].m_fd = fd
      BY <2>4, <3>1 DEF Ownership, Allocations
    <3>3. u # t
      BY <3>1, <3>2 DEF Owned
    <3> QED
      BY <1>1, <1>2, <3>2, <3>3
  <2> QED
    BY <2>1, <2>2, <2>3, <2>4 DEF Allocations
<1> QED
  BY <1>5, <1>6 DEF Ownership

\* Destroying a tensor releases or abandons what it owned.
LEMMA DestroyOwns == IInv /\ Ownership /\ Destroy => Ownership'
<1> SUFFICES ASSUME IInv, Ownership, Destroy PROVE Ownership'
  OBVIOUS
<1>1. PICK t \in DOMAIN tensors : ReleaseMemory(t)
  BY DEF Destroy, IInv, TypeOK, IsTensor
<1> DEFINE a == tensors[t].m_data
<1>2. /\ a \in Addresses /\ mapped[a] # 0 /\ a \notin abandoned /\ Owned(t) \subseteq Fds
      /\ \A fd \in Owned(t) : buffers[fd] # 0 /\ fd \notin abandoned
  <2>1. Owned(t) \subseteq Fds /\ \A fd \in Owned(t) : ~tensors[t].m_isUserData /\ fd = tensors[t].m_fd
    BY TensorTypes DEF Owned
  <2>2. a \in Addresses /\ mapped[a] # 0 /\ a \notin abandoned
    BY TensorTypes DEF Ownership, Mappings
  <2>3. \A fd \in Owned(t) : buffers[fd] # 0 /\ fd \notin abandoned
    BY <2>1 DEF Ownership, Allocations
  <2> QED
    BY <2>1, <2>2, <2>3
<1>3. a \notin Fds /\ \A fd \in Fds : fd \notin Addresses
  BY <1>2, TensorAssumption
<1>4. Unmapped(t)[a] = 0 /\ \A b \in Addresses : b # a => Unmapped(t)[b] = mapped[b]
  BY <1>2, TensorTypes DEF Unmapped
<1> HIDE DEF a
<1>5. CASE UnmapFails(t)
  <2>1. Others(t, {}) /\ UNCHANGED <<mapped, buffers>> /\ abandoned' = abandoned \union {a} \union Owned(t)
    BY <1>5 DEF UnmapFails, Abandon, a
  <2> QED
    BY <1>2, <1>3, <2>1, TensorForgotten DEF a
<1>6. CASE Released(t)
  <2>1. /\ Others(t, Owned(t)) /\ UNCHANGED abandoned /\ mapped' = Unmapped(t)
        /\ \A fd \in Fds : buffers'[fd] = IF fd \in Owned(t) THEN 0 ELSE buffers[fd]
    BY <1>6 DEF Released
  <2> QED
    BY <1>2, <1>4, <2>1, TensorForgotten DEF a
<1>7. CASE NotReleased(t)
  <2>1. /\ Others(t, {}) /\ UNCHANGED buffers /\ mapped' = Unmapped(t)
        /\ abandoned' = abandoned \union Owned(t)
    BY <1>7 DEF NotReleased, Abandon
  <2> QED
    BY <1>2, <1>3, <1>4, <2>1, TensorForgotten DEF a
<1> QED
  BY <1>1, <1>5, <1>6, <1>7 DEF ReleaseMemory

\* New sizes of data change nothing of it.
LEMMA SizesOwn ==
  ASSUME IInv, Ownership, UNCHANGED <<buffers, mapped, abandoned>>,
         DOMAIN tensors' = DOMAIN tensors,
         \A t \in DOMAIN tensors : tensors'[t] = tensors[t] \/ \E n \in Sizes : tensors'[t] = [tensors[t] EXCEPT !.byteSize = n]
  PROVE  Ownership'
<1>1. \A t \in DOMAIN tensors :
        /\ tensors'[t].m_data = tensors[t].m_data /\ tensors'[t].m_fd = tensors[t].m_fd
        /\ tensors'[t].m_size = tensors[t].m_size /\ tensors'[t].m_isUserData = tensors[t].m_isUserData
  <2> TAKE t \in DOMAIN tensors
  <2>1. tensors[t] \in Memories
    BY DEF IInv, TypeOK
  <2> QED
    BY <2>1 DEF Memories
<1>2. Mappings'
  BY <1>1 DEF Ownership, Mappings
<1>3. Allocations'
  BY <1>1 DEF Ownership, Allocations
<1> QED
  BY <1>2, <1>3 DEF Ownership

\* Every step leaves each memory with one owner.
LEMMA OwnershipKept == IInv /\ Ownership /\ [Next]_vars => Ownership'
<1> SUFFICES ASSUME IInv, Ownership, [Next]_vars PROVE Ownership'
  OBVIOUS
<1>1. CASE UNCHANGED <<buffers, mapped, tensors, abandoned>>
  BY <1>1 DEF Ownership, Mappings, Allocations
<1>2. CASE SetDesc
  <2>1. PICK t \in DOMAIN tensors, n \in Sizes : tensors' = [tensors EXCEPT ![t].byteSize = n]
    BY <1>2 DEF SetDesc
  <2>2. /\ DOMAIN tensors' = DOMAIN tensors
        /\ tensors'[t] = [tensors[t] EXCEPT !.byteSize = n]
        /\ \A u \in DOMAIN tensors : u # t => tensors'[u] = tensors[u]
    BY <2>1
  <2> QED
    BY <1>2, <2>2, SizesOwn DEF SetDesc
<1>3. CASE RunEnds
  <2>1. PICK written \in SUBSET call.outputs : \E dims \in [written -> Sizes] :
          tensors' = [t \in DOMAIN tensors |->
                        IF t \in written THEN [tensors[t] EXCEPT !.byteSize = dims[t]] ELSE tensors[t]]
    BY <1>3 DEF RunEnds
  <2>2. /\ DOMAIN tensors' = DOMAIN tensors
        /\ \A t \in DOMAIN tensors : tensors'[t] = tensors[t] \/ \E n \in Sizes : tensors'[t] = [tensors[t] EXCEPT !.byteSize = n]
    BY <2>1
  <2> QED
    BY <1>3, <2>2, SizesOwn DEF RunEnds
<1> QED
  BY <1>1, <1>2, <1>3, CreateOwns, DestroyOwns DEF Next, vars, Registration, CreateCall, DestroyCall, RunCall

\* Nothing of the driver is leaked but by a failure, nothing released twice:
\* each buffer and each mapping has one tensor that gives it back
\* (NNTensor2_0::ReleaseMemory, nntensor.cpp:394), whatever tensors share it.
THEOREM OneOwner == Spec => []EveryMemoryHasOneOwner
<1>1. ASSUME IInv, Ownership PROVE EveryMemoryHasOneOwner
  <2>1. ASSUME NEW fd \in Fds
        PROVE  buffers[fd] # 0 <=> (fd \in abandoned \/ Cardinality({t \in DOMAIN tensors : fd \in Owned(t)}) = 1)
    <3> DEFINE owners == {t \in DOMAIN tensors : fd \in Owned(t)}
    <3>1. \A t : t \in owners <=> t \in DOMAIN tensors /\ ~tensors[t].m_isUserData /\ tensors[t].m_fd = fd
      BY DEF Owned
    <3> HIDE DEF owners
    <3>2. CASE owners = {}
      <4>1. Cardinality(owners) = 0
        BY <3>2, FS_EmptySet
      <4> QED
        BY <1>1, <3>1, <3>2, <4>1 DEF Ownership, Allocations, owners
    <3>3. CASE owners # {}
      <4>1. PICK t : t \in owners
        BY <3>3
      <4>2. owners = {t}
        BY <1>1, <3>1, <4>1 DEF Ownership, Allocations
      <4>3. Cardinality(owners) = 1
        BY <4>2, FS_Singleton
      <4> QED
        BY <1>1, <3>1, <4>1, <4>3 DEF Ownership, Allocations, owners
    <3> QED
      BY <3>2, <3>3
  <2>2. ASSUME NEW a \in Addresses
        PROVE  LET users == {t \in DOMAIN tensors : tensors[t].m_data = a}
               IN /\ Cardinality(users) <= 1
                  /\ mapped[a] # 0 <=> (a \in abandoned \/ users # {})
                  /\ \A t \in users : mapped[a] = tensors[t].m_size
    <3> DEFINE users == {t \in DOMAIN tensors : tensors[t].m_data = a}
    <3>1. Cardinality(users) <= 1
      <4>1. CASE users = {}
        <5> HIDE DEF users
        <5> QED
          BY <4>1, FS_EmptySet
      <4>2. CASE users # {}
        <5>1. PICK t : t \in users
          BY <4>2
        <5>2. users = {t}
          BY <1>1, <5>1 DEF Ownership, Mappings
        <5> HIDE DEF users
        <5> QED
          BY <5>2, FS_Singleton
      <4> QED
        BY <4>1, <4>2
    <3>2. \A t \in users : mapped[a] = tensors[t].m_size /\ tensors[t].m_size # 0
      BY <1>1, TensorTypes DEF Ownership, Mappings
    <3>3. mapped[a] # 0 <=> (a \in abandoned \/ users # {})
      BY <1>1, <3>2 DEF Ownership, Mappings
    <3> QED
      BY <3>1, <3>2, <3>3
  <2>3. abandoned \intersect ({tensors[t].m_data : t \in DOMAIN tensors} \union UNION {Owned(t) : t \in DOMAIN tensors}) = {}
    BY <1>1 DEF Ownership, Mappings, Allocations, Owned
  <2> QED
    BY <2>1, <2>2, <2>3 DEF EveryMemoryHasOneOwner
<1>2. IInv /\ Ownership /\ [Next]_vars => (IInv /\ Ownership)'
  BY IInvKept, OwnershipKept
<1>3. Init => IInv /\ Ownership
  BY InitIInv, InitOwnership
<1> QED
  BY <1>1, <1>2, <1>3, PTL DEF Spec
=============================================================================
