----------------------------- MODULE ExecutorIO -----------------------------
(* The inputs and outputs of the older executor interface: SetInput and     *)
(* SetOutput, for which NNExecutor allocates device buffers of its own; the *)
(* memories that clients create and set instead; Run; and ~NNExecutor.      *)
(* All of them belong to one client, one call after the other: what is hard *)
(* is who has to release which buffer after any sequence of them.           *)
(*                                                                          *)
(* The device hands out addresses and uses an address again once it has     *)
(* been released (HDIDevice has the details). Lengths and sizes are in      *)
(* units of data; the dimensions of a tensor are abstracted to the size of  *)
(* its data, 0 for a dynamic shape. A call that is refused before it        *)
(* changes anything is a guard. Failing heap allocations are left out.      *)
EXTENDS Integers, FiniteSets

CONSTANTS Inputs, Outputs,   \* indices of m_inputTensorDescs and m_outputTensorDescs
          Addresses, nullptr,
          Lengths,           \* of the buffers that clients pass or ask for
          Sizes,             \* of the data of a tensor
          BadDimensions,     \* dimensions from the device that no tensor can have
          GrowthMayFail      \* the device may have no buffer for a larger output

ASSUME IOAssumption ==
  /\ Inputs \subseteq Nat /\ Outputs \subseteq Nat /\ Inputs \intersect Outputs = {}
  /\ nullptr \notin Addresses
  /\ Lengths \subseteq Nat \ {0} /\ Sizes \subseteq Nat
  /\ BadDimensions \notin Nat
  /\ GrowthMayFail \in BOOLEAN

VARIABLES tensors,    \* m_inputTensors and m_outputTensors
          byteSize,   \* of m_outputTensorDescs: what SetOutput asks for at least
          createdMem, \* m_inputCreatedMem and m_outputCreatedMem
          memories,   \* the OH_NN_Memory instances of the client
          live,       \* address -> length of the device buffer there, or 0
          abandoned,  \* buffers that nobody is left to release
          withdrawn,  \* inputs and outputs whose memory the client has destroyed
          misused,    \* addresses released by one that did not own them
          deleted,    \* addresses that a dying NNTensor has deleted
          alive       \* the executor exists

vars == <<tensors, byteSize, createdMem, memories, live, abandoned, withdrawn, misused, deleted, alive>>

Ends == Inputs \union Outputs
IsSet(i) == i \in DOMAIN tensors
IsInner(i) == IsSet(i) /\ tensors[i].isInnerMem
Free == {a \in Addresses : live[a] = 0}

-----------------------------------------------------------------------------
(* Buffers.                                                                 *)

\* The buffer that the executor has allocated for the end, if any.
Inner(i) == IF IsInner(i) THEN {tensors[i].buffer} ELSE {}

Owners(a) == {<<"tensor", i>> : i \in {j \in DOMAIN tensors : a \in Inner(j)}}
               \union {<<"memory", i>> : i \in {j \in Ends : a \in createdMem[j]}}

Outgoing(i) == Inner(i)

\* The executor releases buffers. The device refuses some of them, which the
\* executor does not look at, and an address that is not one of its buffers.
Refused(refused) == abandoned' = abandoned \union {a \in refused : live[a] # 0}
Releases(buffers) ==
  misused' = misused \union {a \in buffers : live[a] = 0 \/ Cardinality(Owners(a)) # 1}
After(buffers, refused) == [a \in Addresses |-> IF a \in buffers \ refused THEN 0 ELSE live[a]]

\* SetBuffer(nullptr, 0), before a tensor dies.
Detached(tensor) == [tensor EXCEPT !.buffer = nullptr, !.length = 0]

\* ~NNTensor deletes the buffer it still has.
Dies(dying) == deleted' = deleted \union ({Detached(t).buffer : t \in dying} \ {nullptr})

Replaced(i) == IF IsSet(i) THEN {tensors[i]} ELSE {}
Put(i, tensor) == tensors' = [j \in DOMAIN tensors \union {i} |-> IF j = i THEN tensor ELSE tensors[j]]
Set(i) == withdrawn' = withdrawn \ {i}

-----------------------------------------------------------------------------
(* Inputs.                                                                  *)

Init ==
  /\ tensors = <<>>
  /\ byteSize \in [Outputs -> Sizes]
  /\ createdMem = [i \in Ends |-> {}] /\ memories = {}
  /\ live = [a \in Addresses |-> 0]
  /\ abandoned = {} /\ withdrawn = {} /\ misused = {} /\ deleted = {}
  /\ alive = TRUE

\* Mutant: off by one, the data may be one unit longer than the buffer.
CurrentAndOne(i) == IF IsInner(i) THEN tensors[i].length + 1 ELSE 0

\* curBufferLength
CurrentLength(i) == IF IsInner(i) THEN tensors[i].length ELSE 0

InputTensor(buffer, length, dataLength, isInnerMem) ==
  [buffer |-> buffer, length |-> length, dataLength |-> dataLength,
   userBufferLength |-> 0, isInnerMem |-> isInnerMem]

\* SetInputTensorWithCurrentBuffer: the new tensor takes over the buffer.
ReuseInputBuffer(i, dataLength) ==
  /\ Put(i, InputTensor(tensors[i].buffer, tensors[i].length, dataLength, tensors[i].isInnerMem))
  /\ Dies(Replaced(i))
  /\ UNCHANGED <<byteSize, createdMem, memories, live, abandoned, withdrawn, misused, alive>>

\* SetInputTensorWithNewBuffer after the allocation and the copy.
NewInputBuffer(i, dataLength, length) ==
  \E a \in Free, refused \in SUBSET Outgoing(i) :
    /\ Releases(Outgoing(i)) /\ Refused(refused)
    /\ live' = [After(Outgoing(i), refused) EXCEPT ![a] = length]
    /\ Put(i, InputTensor(a, length, dataLength, TRUE))
    /\ Dies(Replaced(i))
    /\ Set(i)
    /\ UNCHANGED <<byteSize, createdMem, memories, alive>>

\* memcpy_s fails: the new buffer goes back, or stays when the device refuses.
InputCopyFails(length) ==
  \E a \in Free :
    /\ live' = [live EXCEPT ![a] = length]
    /\ abandoned' = abandoned \union {a}
    /\ UNCHANGED <<tensors, byteSize, createdMem, memories, withdrawn, misused, deleted, alive>>

SetInput ==
  \E i \in Inputs, dataLength \in Sizes \ {0}, length \in Lengths :
    /\ length >= dataLength
    /\ IF dataLength <= CurrentLength(i)
       THEN ReuseInputBuffer(i, dataLength)
       ELSE NewInputBuffer(i, dataLength, length) \/ InputCopyFails(length)

\* Mutant: the memory is taken for a buffer of the executor.
OwnMemory(m, dataLength) == InputTensor(m.data, m.length, dataLength, TRUE)
SharedMemory(m, dataLength) == InputTensor(m.data, m.length, dataLength, FALSE)

\* The memory may have been created for any end: nobody compares.
SetInputFromMemory ==
  \E i \in Inputs, dataLength \in Sizes \ {0}, m \in memories :
    /\ m.length >= dataLength
    /\ \E refused \in SUBSET Outgoing(i) :
         Releases(Outgoing(i)) /\ Refused(refused) /\ live' = After(Outgoing(i), refused)
    /\ Put(i, SharedMemory(m, dataLength))
    /\ Dies(Replaced(i))
    /\ Set(i)
    /\ UNCHANGED <<byteSize, createdMem, memories, alive>>

-----------------------------------------------------------------------------
(* Outputs. A tensor for an output is built once and then only changed.     *)

NewOutput(i) ==
  [buffer |-> nullptr, length |-> 0, dataLength |-> byteSize[i],
   userBufferLength |-> 0, isInnerMem |-> FALSE]
Output(i) == IF IsSet(i) THEN tensors[i] ELSE NewOutput(i)

\* Mutant: the buffer is kept if the data fit.
DataFit(i, length) == IsInner(i) /\ byteSize[i] <= tensors[i].length

\* The device buffer is as long as the client's: only the latter is replaced.
BufferFits(i, length) == IsInner(i) /\ length <= tensors[i].length

UpdateUserBuffer(i, length) ==
  /\ Put(i, [tensors[i] EXCEPT !.userBufferLength = length])
  /\ UNCHANGED <<byteSize, createdMem, memories, live, abandoned, withdrawn, misused, deleted, alive>>

\* The buffer that is too small is released before there is a new one, which
\* may get the same address.
NewOutputBuffer(i, length) ==
  \E refused \in SUBSET Outgoing(i) :
    LET left == After(Outgoing(i), refused)
    IN /\ Releases(Outgoing(i)) /\ Refused(refused)
       /\ \E a \in {b \in Addresses : left[b] = 0} :
            /\ live' = [left EXCEPT ![a] = length]
            /\ Put(i, [Output(i) EXCEPT !.buffer = a, !.length = length,
                                        !.userBufferLength = length, !.isInnerMem = TRUE])
       /\ Set(i)
       /\ UNCHANGED <<byteSize, createdMem, memories, deleted, alive>>

\* The device has no buffer. The entry stays as it is, even when its inner
\* buffer has just been released.
NoOutputBuffer(i) ==
  /\ IsInner(i) => GrowthMayFail
  /\ \E refused \in SUBSET Outgoing(i) :
       Releases(Outgoing(i)) /\ Refused(refused) /\ live' = After(Outgoing(i), refused)
  /\ Put(i, Output(i))
  /\ UNCHANGED <<byteSize, createdMem, memories, withdrawn, deleted, alive>>

SetOutput ==
  \E i \in Outputs, length \in Lengths :
    /\ length >= byteSize[i]
    /\ IF BufferFits(i, length)
       THEN UpdateUserBuffer(i, length)
       ELSE NewOutputBuffer(i, length) \/ NoOutputBuffer(i)

SetOutputFromMemory ==
  \E i \in Outputs, m \in memories :
    /\ m.length >= byteSize[i]
    /\ \E refused \in SUBSET Outgoing(i) :
         Releases(Outgoing(i)) /\ Refused(refused) /\ live' = After(Outgoing(i), refused)
    /\ Put(i, [Output(i) EXCEPT !.buffer = m.data, !.length = m.length,
                                !.userBufferLength = 0, !.isInnerMem = FALSE])
    /\ Set(i)
    /\ UNCHANGED <<byteSize, createdMem, memories, deleted, alive>>

-----------------------------------------------------------------------------
(* Memories.                                                                *)

\* CreateInputMemory and CreateOutputMemory
CreateMemory ==
  \E i \in Ends, length \in Lengths, a \in Free :
    /\ live' = [live EXCEPT ![a] = length]
    /\ memories' = memories \union {[data |-> a, length |-> length]}
    /\ createdMem' = [createdMem EXCEPT ![i] = @ \union {a}]
    /\ UNCHANGED <<tensors, byteSize, abandoned, withdrawn, misused, deleted, alive>>

\* Mutant: the address stays among those the executor has created.
KeepsAddress(i, a) == createdMem[i]
Without(i, a) == createdMem[i] \ {a}

\* DestroyInputMemory and DestroyOutputMemory; when the device refuses, the
\* client keeps the memory. Whether the memory is still set is not looked at.
DestroyMemory ==
  \E i \in Ends, m \in memories :
    /\ m.data \in createdMem[i]
    /\ live' = After({m.data}, {})
    /\ Releases({m.data})
    /\ memories' = memories \ {m}
    /\ createdMem' = [createdMem EXCEPT ![i] = Without(i, m.data)]
    /\ withdrawn' = withdrawn \union {j \in DOMAIN tensors : tensors[j].buffer = m.data /\ ~IsInner(j)}
    /\ UNCHANGED <<tensors, byteSize, abandoned, deleted, alive>>

-----------------------------------------------------------------------------
(* Run and the destructor.                                                  *)

\* HDIPreparedModel::Run finds the memory of every tensor.
BuffersFound == \A i \in DOMAIN tensors : tensors[i].buffer \in Addresses /\ live[tensors[i].buffer] # 0

\* Mutant: the shape of the tensor descriptor is not updated.
OldByteSize(reached, reported) == byteSize
NewByteSize(reached, reported) ==
  [i \in Outputs |-> IF i \in reached THEN reported[i] ELSE byteSize[i]]

\* The device reports the dimensions of the outputs, which the loop takes over
\* one by one until it meets some that cannot be. Then the results are copied
\* to the client's buffers, as far as those are long enough.
Run ==
  /\ DOMAIN tensors = Ends /\ BuffersFound
  /\ \E reported \in [Outputs -> Sizes \union {BadDimensions}] :
       LET Reached == {i \in Outputs : \A j \in Outputs : j <= i => reported[j] # BadDimensions}
       IN /\ tensors' = [i \in Ends |-> IF i \in Reached
                                        THEN [tensors[i] EXCEPT !.dataLength = reported[i]] ELSE tensors[i]]
          /\ byteSize' = NewByteSize(Reached, reported)
  /\ UNCHANGED <<createdMem, memories, live, abandoned, withdrawn, misused, deleted, alive>>

\* ~NNExecutor releases its own buffers and forgets the memories.
Destroy ==
  LET inner == UNION {Inner(i) : i \in DOMAIN tensors}
  IN /\ \E refused \in SUBSET inner :
          /\ abandoned' = abandoned \union {a \in refused : live[a] # 0} \union UNION {createdMem[i] : i \in Ends}
          /\ Releases(inner)
          /\ live' = After(inner, refused)
     /\ Dies({tensors[i] : i \in DOMAIN tensors})
     /\ tensors' = <<>>
     /\ createdMem' = [i \in Ends |-> {}] /\ memories' = {}
     /\ withdrawn' = {} /\ alive' = FALSE
     /\ UNCHANGED byteSize

Next ==
  alive /\ (SetInput \/ SetInputFromMemory \/ SetOutput \/ SetOutputFromMemory
              \/ CreateMemory \/ DestroyMemory \/ Run \/ Destroy)
Spec == Init /\ [][Next]_vars

-----------------------------------------------------------------------------
(* Properties.                                                              *)

NNTensors ==
  [buffer : Addresses \union {nullptr}, length : Lengths \union {0}, dataLength : Sizes,
   userBufferLength : Lengths \union {0}, isInnerMem : BOOLEAN]

\* Type invariant. What SetOutput asks for is what the tensor is known to hold.
TypeOK ==
  /\ DOMAIN tensors \subseteq Ends
  /\ \A i \in DOMAIN tensors :
       /\ tensors[i] \in NNTensors
       /\ i \in Outputs => tensors[i].dataLength = byteSize[i]
  /\ byteSize \in [Outputs -> Sizes]
  /\ createdMem \in [Ends -> SUBSET Addresses]
  /\ memories \subseteq [data : Addresses, length : Lengths]
  /\ live \in [Addresses -> Lengths \union {0}]

\* Every buffer the executor has allocated, for an end or as a memory, has
\* exactly one owner who releases it, whatever sequence of SetInput, SetOutput
\* and the calls on memories came before, and no owner is left with a buffer
\* that is released. Nobody owns only what the device has refused to take back
\* and the memories of a destroyed executor.
BuffersHaveOneOwner ==
  \A a \in Addresses :
    IF live[a] = 0 THEN Owners(a) = {}
    ELSE Cardinality(Owners(a)) = 1 \/ (Owners(a) = {} /\ a \in abandoned)

\* What Run gives the device is there and long enough: the buffer of an end
\* has the length its tensor says, which covers the data of an input, unless
\* the client has destroyed a memory that was set.
BuffersAreWhole ==
  \A i \in DOMAIN tensors \ withdrawn : tensors[i].buffer # nullptr =>
    /\ live[tensors[i].buffer] = tensors[i].length
    /\ i \in Inputs => tensors[i].dataLength <= tensors[i].length

\* SetOutput compares the client's buffer with the one an earlier call has
\* allocated, while runs change the size of the result. Run copies a result
\* that is no longer than the client's buffer (nnexecutor.cpp:1541), whatever
\* size the device has reported: the buffer that lives at the device's address
\* by then is at least as long, so that the copy does not read behind it.
ResultsFitTheirBuffers ==
  \A i \in Outputs :
    IsInner(i) => tensors[i].userBufferLength <= live[tensors[i].buffer]

\* nn_tensor.cpp:347: "Buffer set inside NNTensor will be released during
\* deconstruction, make sure the buffer won't be released twice." No buffer is
\* released a second time, nor one that by now belongs to somebody else, and a
\* tensor that dies never deletes a device's buffer as heap memory.
BuffersAreReleasedOnce == misused = {} /\ deleted = {}
=============================================================================
