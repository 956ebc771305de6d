--------------------------- MODULE ExecutorIOProofs ---------------------------
(* For any number of inputs and outputs, addresses and lengths: the types   *)
(* of ExecutorIO, who releases a buffer of the device, and what Run gives   *)
(* the device.                                                              *)
EXTENDS ExecutorIO, FiniteSetTheorems, TLAPS

-----------------------------------------------------------------------------
(* The inductive invariant.                                                 *)

\* A buffer allocated for an end is the end's alone.
InnerBuffers ==
  \A i \in DOMAIN tensors : tensors[i].isInnerMem =>
    /\ tensors[i].buffer \in Addresses
    /\ live[tensors[i].buffer] = tensors[i].length /\ tensors[i].length # 0
    /\ i \notin withdrawn
    /\ \A j \in DOMAIN tensors :
         tensors[j].isInnerMem /\ tensors[j].buffer = tensors[i].buffer => i = j
    /\ \A k \in Ends : tensors[i].buffer \notin createdMem[k]

\* A created memory is in one list of the executor, and lives.
CreatedMemories ==
  /\ \A k \in Ends : \A a \in createdMem[k] :
       live[a] # 0 /\ \A l \in Ends : a \in createdMem[l] => k = l
  /\ \A m \in memories : /\ live[m.data] = m.length
                         /\ \E k \in Ends : m.data \in createdMem[k]

\* An end with a client's memory has one that lives, until it is withdrawn.
SharedMemories ==
  \A i \in DOMAIN tensors \ withdrawn :
    ~tensors[i].isInnerMem /\ tensors[i].buffer # nullptr =>
      /\ live[tensors[i].buffer] = tensors[i].length
      /\ \E k \in Ends : tensors[i].buffer \in createdMem[k]

InputsFit ==
  \A i \in DOMAIN tensors : i \in Inputs => tensors[i].dataLength <= tensors[i].length

\* Nothing is live that nobody owns, but for what has been abandoned.
NothingForgotten ==
  \A a \in Addresses : live[a] # 0 =>
    \/ a \in abandoned
    \/ \E i \in DOMAIN tensors : tensors[i].isInnerMem /\ tensors[i].buffer = a
    \/ \E k \in Ends : a \in createdMem[k]

Ownership == InnerBuffers /\ CreatedMemories /\ SharedMemories /\ InputsFit /\ NothingForgotten

IInv == TypeOK /\ Ownership /\ misused = {}

-----------------------------------------------------------------------------
(* Lemmas about the owners of a buffer and what a release does.             *)

\* The owners of a buffer are entries and lists of created memories.
LEMMA OwnersOf ==
  ASSUME NEW a
  PROVE  Owners(a) =
           {<<"tensor", i>> : i \in {j \in DOMAIN tensors : tensors[j].isInnerMem /\ tensors[j].buffer = a}}
             \union {<<"memory", i>> : i \in {j \in Ends : a \in createdMem[j]}}
  BY DEF Owners, Inner, IsInner, IsSet

\* An inner buffer has one owner.
LEMMA InnerOwner ==
  ASSUME IInv, NEW i \in DOMAIN tensors, tensors[i].isInnerMem
  PROVE  Cardinality(Owners(tensors[i].buffer)) = 1
<1> DEFINE a == tensors[i].buffer
<1>1. {j \in DOMAIN tensors : tensors[j].isInnerMem /\ tensors[j].buffer = a} = {i}
  BY DEF IInv, Ownership, InnerBuffers
<1>2. {j \in Ends : a \in createdMem[j]} = {}
  BY DEF IInv, Ownership, InnerBuffers
<1>3. Owners(a) = {<<"tensor", i>>}
  BY <1>1, <1>2, OwnersOf
<1> QED
  BY <1>3, FS_Singleton

\* A created memory has one owner.
LEMMA MemoryOwner ==
  ASSUME IInv, NEW k \in Ends, NEW a \in createdMem[k]
  PROVE  Cardinality(Owners(a)) = 1
<1>1. {j \in DOMAIN tensors : tensors[j].isInnerMem /\ tensors[j].buffer = a} = {}
  BY DEF IInv, Ownership, InnerBuffers
<1>2. {j \in Ends : a \in createdMem[j]} = {k}
  BY DEF IInv, Ownership, CreatedMemories
<1>3. Owners(a) = {<<"memory", k>>}
  BY <1>1, <1>2, OwnersOf
<1> QED
  BY <1>3, FS_Singleton

\* A buffer in no entry and in no list has none.
LEMMA NoOwner ==
  ASSUME NEW a,
         \A i \in DOMAIN tensors : ~(tensors[i].isInnerMem /\ tensors[i].buffer = a),
         \A k \in Ends : a \notin createdMem[k]
  PROVE  Owners(a) = {}
  BY OwnersOf

\* The executor releases buffers of its own, and each of them lives.
LEMMA ReleasesOwn ==
  ASSUME IInv, NEW buffers, Releases(buffers),
         \A a \in buffers : \E i \in DOMAIN tensors : tensors[i].isInnerMem /\ tensors[i].buffer = a
  PROVE  misused' = {}
<1>1. \A a \in buffers : live[a] # 0 /\ Cardinality(Owners(a)) = 1
  <2> TAKE a \in buffers
  <2>1. PICK i \in DOMAIN tensors : tensors[i].isInnerMem /\ tensors[i].buffer = a
    OBVIOUS
  <2>2. live[a] # 0
    BY <2>1 DEF IInv, Ownership, InnerBuffers
  <2> QED
    BY <2>1, <2>2, InnerOwner
<1> QED
  BY <1>1 DEF Releases, IInv

\* What an entry has to release is its inner buffer.
LEMMA OutgoingBuffers ==
  ASSUME NEW i
  PROVE  /\ Outgoing(i) = IF i \in DOMAIN tensors /\ tensors[i].isInnerMem THEN {tensors[i].buffer} ELSE {}
         /\ \A a \in Outgoing(i) : i \in DOMAIN tensors /\ tensors[i].isInnerMem /\ tensors[i].buffer = a
  BY DEF Outgoing, Inner, IsInner, IsSet

\* One entry is replaced.
LEMMA PutFacts ==
  ASSUME NEW i, NEW t, Put(i, t)
  PROVE  /\ DOMAIN tensors' = DOMAIN tensors \union {i}
         /\ tensors'[i] = t
         /\ \A j \in DOMAIN tensors : j # i => tensors'[j] = tensors[j]
  BY DEF Put

\* What is live once the buffer of an end has gone: what the executor created
\* and the other ends' buffers are left alone.
LEMMA AfterRelease ==
  ASSUME IInv, NEW i \in Ends, NEW refused \in SUBSET Outgoing(i)
  PROVE  LET left == After(Outgoing(i), refused)
         IN /\ left \in [Addresses -> Lengths \union {0}]
            /\ \A a \in Addresses : left[a] = live[a] \/ left[a] = 0
            /\ \A k \in Ends : \A a \in createdMem[k] : left[a] = live[a]
            /\ \A j \in DOMAIN tensors :
                 tensors[j].isInnerMem /\ j # i => left[tensors[j].buffer] = live[tensors[j].buffer]
            /\ \A a \in Addresses : left[a] # 0 /\ a \in Outgoing(i) => a \in refused
<1> DEFINE left == After(Outgoing(i), refused)
<1>1. /\ live \in [Addresses -> Lengths \union {0}]
      /\ createdMem \in [Ends -> SUBSET Addresses]
  BY DEF IInv, TypeOK
<1>2. \A a \in Addresses : left[a] = IF a \in Outgoing(i) \ refused THEN 0 ELSE live[a]
  BY DEF After
<1>3. left \in [Addresses -> Lengths \union {0}]
  BY <1>1 DEF After
<1>4. ASSUME NEW k \in Ends, NEW a \in createdMem[k] PROVE left[a] = live[a]
  <2>1. a \notin Outgoing(i) /\ a \in Addresses
    BY <1>1, OutgoingBuffers DEF IInv, Ownership, InnerBuffers
  <2> QED
    BY <2>1, <1>2
<1>5. ASSUME NEW j \in DOMAIN tensors, tensors[j].isInnerMem, j # i
      PROVE  left[tensors[j].buffer] = live[tensors[j].buffer]
  <2>1. tensors[j].buffer \notin Outgoing(i) /\ tensors[j].buffer \in Addresses
    BY <1>5, OutgoingBuffers DEF IInv, Ownership, InnerBuffers
  <2> QED
    BY <2>1, <1>2
<1> HIDE DEF left
<1> QED
  BY <1>2, <1>3, <1>4, <1>5 DEF left

\* The types of the tensors when one of them is put in place.
LEMMA PutTypes ==
  ASSUME TypeOK, NEW i \in Ends, NEW t \in NNTensors, Put(i, t),
         i \in Outputs => t.dataLength = byteSize[i],
         live' \in [Addresses -> Lengths \union {0}],
         UNCHANGED <<byteSize, createdMem, memories>>
  PROVE  TypeOK'
<1>1. /\ DOMAIN tensors' = DOMAIN tensors \union {i}
      /\ tensors'[i] = t
      /\ \A j \in DOMAIN tensors : j # i => tensors'[j] = tensors[j]
  BY PutFacts
<1>2. ASSUME NEW j \in DOMAIN tensors'
      PROVE  tensors'[j] \in NNTensors /\ (j \in Outputs => tensors'[j].dataLength = byteSize'[j])
  <2>1. CASE j = i
    BY <1>1, <2>1
  <2>2. CASE j # i
    BY <1>1, <2>2 DEF TypeOK
  <2> QED
    BY <2>1, <2>2
<1> QED
  BY <1>1, <1>2 DEF TypeOK, NNTensors

\* An end gets a buffer of its own, at an address that is free or becomes so.
LEMMA NewInnerBuffer ==
  ASSUME IInv, NEW i \in Ends, NEW refused \in SUBSET Outgoing(i),
         Releases(Outgoing(i)), Refused(refused),
         NEW a \in Addresses, After(Outgoing(i), refused)[a] = 0,
         NEW t \in NNTensors, t.buffer = a, t.length \in Lengths, t.isInnerMem,
         live' = [After(Outgoing(i), refused) EXCEPT ![a] = t.length],
         i \in Inputs => t.dataLength <= t.length,
         i \in Outputs => t.dataLength = byteSize[i],
         Put(i, t), Set(i), UNCHANGED <<byteSize, createdMem, memories>>
  PROVE  IInv'
<1> DEFINE left == After(Outgoing(i), refused)
<1>1. /\ DOMAIN tensors' = DOMAIN tensors \union {i}
      /\ tensors'[i] = t
      /\ \A j \in DOMAIN tensors : j # i => tensors'[j] = tensors[j]
  BY PutFacts
<1>2. /\ left \in [Addresses -> Lengths \union {0}]
      /\ \A b \in Addresses : left[b] = live[b] \/ left[b] = 0
      /\ \A k \in Ends : \A b \in createdMem[k] : left[b] = live[b]
      /\ \A j \in DOMAIN tensors :
           tensors[j].isInnerMem /\ j # i => left[tensors[j].buffer] = live[tensors[j].buffer]
      /\ \A b \in Addresses : left[b] # 0 /\ b \in Outgoing(i) => b \in refused
  BY AfterRelease
<1> HIDE DEF left
<1>3. live' = [left EXCEPT ![a] = t.length] /\ left[a] = 0
  BY DEF left
<1>4. /\ live'[a] = t.length /\ t.length # 0
      /\ \A b \in Addresses : b # a => live'[b] = left[b]
      /\ live' \in [Addresses -> Lengths \union {0}]
  BY <1>2, <1>3, IOAssumption
<1>5. TypeOK'
  BY <1>4, PutTypes DEF IInv
<1>6. createdMem \in [Ends -> SUBSET Addresses]
  BY DEF IInv, TypeOK
<1>7. \A k \in Ends : a \notin createdMem[k]
  BY <1>2, <1>3 DEF IInv, Ownership, CreatedMemories
<1>8. \A j \in DOMAIN tensors : tensors[j].isInnerMem /\ j # i => tensors[j].buffer # a
  BY <1>2, <1>3 DEF IInv, Ownership, InnerBuffers
<1>9. withdrawn' = withdrawn \ {i} /\ abandoned' = abandoned \union {b \in refused : live[b] # 0}
  BY DEF Set, Refused
<1>10. InnerBuffers'
  <2> SUFFICES ASSUME NEW j \in DOMAIN tensors', tensors'[j].isInnerMem
               PROVE  /\ tensors'[j].buffer \in Addresses
                      /\ live'[tensors'[j].buffer] = tensors'[j].length /\ tensors'[j].length # 0
                      /\ j \notin withdrawn'
                      /\ \A n \in DOMAIN tensors' :
                           tensors'[n].isInnerMem /\ tensors'[n].buffer = tensors'[j].buffer => j = n
                      /\ \A k \in Ends : tensors'[j].buffer \notin createdMem[k]
    BY DEF InnerBuffers
  <2>1. CASE j = i
    BY <2>1, <1>1, <1>4, <1>7, <1>8, <1>9
  <2>2. CASE j # i
    <3>1. j \in DOMAIN tensors /\ tensors'[j] = tensors[j]
      BY <1>1, <2>2
    <3>2. /\ tensors[j].buffer \in Addresses /\ tensors[j].buffer # a
          /\ live'[tensors[j].buffer] = tensors[j].length /\ tensors[j].length # 0
      BY <3>1, <2>2, <1>2, <1>4, <1>8 DEF IInv, Ownership, InnerBuffers
    <3>3. \A n \in DOMAIN tensors' :
            tensors'[n].isInnerMem /\ tensors'[n].buffer = tensors'[j].buffer => j = n
      BY <3>1, <3>2, <1>1 DEF IInv, Ownership, InnerBuffers
    <3>4. j \notin withdrawn' /\ \A k \in Ends : tensors'[j].buffer \notin createdMem[k]
      BY <3>1, <1>9 DEF IInv, Ownership, InnerBuffers
    <3> QED
      BY <3>1, <3>2, <3>3, <3>4
  <2> QED
    BY <2>1, <2>2
<1>11. CreatedMemories'
  BY <1>2, <1>4, <1>6, <1>7 DEF IInv, Ownership, CreatedMemories
<1>12. SharedMemories'
  <2> SUFFICES ASSUME NEW j \in DOMAIN tensors' \ withdrawn',
                      ~tensors'[j].isInnerMem, tensors'[j].buffer # nullptr
               PROVE  /\ live'[tensors'[j].buffer] = tensors'[j].length
                      /\ \E k \in Ends : tensors'[j].buffer \in createdMem[k]
    BY DEF SharedMemories
  <2>1. j \in DOMAIN tensors \ withdrawn /\ j # i /\ tensors'[j] = tensors[j]
    BY <1>1, <1>9
  <2>2. PICK k \in Ends : tensors[j].buffer \in createdMem[k]
    BY <2>1 DEF IInv, Ownership, SharedMemories
  <2>3. live'[tensors[j].buffer] = live[tensors[j].buffer]
    BY <2>2, <1>2, <1>4, <1>6, <1>7
  <2> QED
    BY <2>1, <2>2, <2>3 DEF IInv, Ownership, SharedMemories
<1>13. InputsFit'
  BY <1>1 DEF IInv, Ownership, InputsFit
<1>14. NothingForgotten'
  <2> SUFFICES ASSUME NEW b \in Addresses, live'[b] # 0, b \notin abandoned'
               PROVE  \/ \E j \in DOMAIN tensors' : tensors'[j].isInnerMem /\ tensors'[j].buffer = b
                      \/ \E k \in Ends : b \in createdMem[k]
    BY DEF NothingForgotten
  <2>1. CASE b = a
    BY <2>1, <1>1
  <2>2. CASE b # a
    <3>1. live[b] # 0 /\ b \notin Outgoing(i) /\ b \notin abandoned
      BY <2>2, <1>2, <1>4, <1>9
    <3>2. CASE \E k \in Ends : b \in createdMem[k]
      BY <3>2
    <3>3. CASE \E j \in DOMAIN tensors : tensors[j].isInnerMem /\ tensors[j].buffer = b
      <4>1. PICK j \in DOMAIN tensors : tensors[j].isInnerMem /\ tensors[j].buffer = b
        BY <3>3
      <4>2. j # i
        BY <4>1, <3>1, OutgoingBuffers
      <4> QED
        BY <4>1, <4>2, <1>1
    <3> QED
      BY <3>1, <3>2, <3>3 DEF IInv, Ownership, NothingForgotten
  <2> QED
    BY <2>1, <2>2
<1>15. misused' = {}
  BY ReleasesOwn, OutgoingBuffers
<1> QED
  BY <1>5, <1>10, <1>11, <1>12, <1>13, <1>14, <1>15 DEF IInv, Ownership

\* An end is given a memory that a client has created.
LEMMA MemoryIsSet ==
  ASSUME IInv, NEW i \in Ends, NEW refused \in SUBSET Outgoing(i),
         Releases(Outgoing(i)), Refused(refused), live' = After(Outgoing(i), refused),
         NEW m \in memories,
         NEW t \in NNTensors, t.buffer = m.data, t.length = m.length, ~t.isInnerMem,
         i \in Inputs => t.dataLength <= t.length,
         i \in Outputs => t.dataLength = byteSize[i],
         Put(i, t), Set(i), UNCHANGED <<byteSize, createdMem, memories>>
  PROVE  IInv'
<1>1. /\ DOMAIN tensors' = DOMAIN tensors \union {i}
      /\ tensors'[i] = t
      /\ \A j \in DOMAIN tensors : j # i => tensors'[j] = tensors[j]
  BY PutFacts
<1>2. /\ live' \in [Addresses -> Lengths \union {0}]
      /\ \A b \in Addresses : live'[b] = live[b] \/ live'[b] = 0
      /\ \A k \in Ends : \A b \in createdMem[k] : live'[b] = live[b]
      /\ \A j \in DOMAIN tensors :
           tensors[j].isInnerMem /\ j # i => live'[tensors[j].buffer] = live[tensors[j].buffer]
      /\ \A b \in Addresses : live'[b] # 0 /\ b \in Outgoing(i) => b \in refused
  BY AfterRelease
<1>3. TypeOK'
  BY <1>2, PutTypes DEF IInv
<1>4. withdrawn' = withdrawn \ {i} /\ abandoned' = abandoned \union {b \in refused : live[b] # 0}
  BY DEF Set, Refused
<1>5. InnerBuffers'
  BY <1>1, <1>2, <1>4 DEF IInv, Ownership, InnerBuffers
<1>6. CreatedMemories'
  BY <1>2 DEF IInv, Ownership, CreatedMemories
<1>7. SharedMemories'
  <2> SUFFICES ASSUME NEW j \in DOMAIN tensors' \ withdrawn',
                      ~tensors'[j].isInnerMem, tensors'[j].buffer # nullptr
               PROVE  /\ live'[tensors'[j].buffer] = tensors'[j].length
                      /\ \E k \in Ends : tensors'[j].buffer \in createdMem[k]
    BY DEF SharedMemories
  <2>1. CASE j = i
    BY <2>1, <1>1, <1>2 DEF IInv, Ownership, CreatedMemories
  <2>2. CASE j # i
    BY <2>2, <1>1, <1>2, <1>4 DEF IInv, Ownership, SharedMemories
  <2> QED
    BY <2>1, <2>2
<1>8. InputsFit'
  BY <1>1 DEF IInv, Ownership, InputsFit
<1>9. NothingForgotten'
  <2> SUFFICES ASSUME NEW b \in Addresses, live'[b] # 0, b \notin abandoned'
               PROVE  \/ \E j \in DOMAIN tensors' : tensors'[j].isInnerMem /\ tensors'[j].buffer = b
                      \/ \E k \in Ends : b \in createdMem[k]
    BY DEF NothingForgotten
  <2>1. live[b] # 0 /\ b \notin Outgoing(i) /\ b \notin abandoned
    BY <1>2, <1>4
  <2>2. CASE \E j \in DOMAIN tensors : tensors[j].isInnerMem /\ tensors[j].buffer = b
    <3>1. PICK j \in DOMAIN tensors : tensors[j].isInnerMem /\ tensors[j].buffer = b
      BY <2>2
    <3>2. j # i
      BY <3>1, <2>1, OutgoingBuffers
    <3> QED
      BY <3>1, <3>2, <1>1
  <2> QED
    BY <2>1, <2>2 DEF IInv, Ownership, NothingForgotten
<1>10. misused' = {}
  BY ReleasesOwn, OutgoingBuffers
<1> QED
  BY <1>3, <1>5, <1>6, <1>7, <1>8, <1>9, <1>10 DEF IInv, Ownership

\* A tensor changes without its buffer; input data still fit.
LEMMA BufferIsKept ==
  ASSUME IInv, NEW i \in DOMAIN tensors, NEW t \in NNTensors,
         t.buffer = tensors[i].buffer, t.length = tensors[i].length,
         t.isInnerMem = tensors[i].isInnerMem,
         i \in Inputs => t.dataLength <= t.length,
         i \in Outputs => t.dataLength = byteSize[i],
         Put(i, t),
         UNCHANGED <<byteSize, createdMem, memories, live, abandoned, withdrawn, misused>>
  PROVE  IInv'
<1>1. i \in Ends
  BY DEF IInv, TypeOK
<1>2. /\ DOMAIN tensors' = DOMAIN tensors
      /\ tensors'[i] = t
      /\ \A j \in DOMAIN tensors : j # i => tensors'[j] = tensors[j]
  BY PutFacts
<1>3. \A j \in DOMAIN tensors : /\ tensors'[j].buffer = tensors[j].buffer
                                /\ tensors'[j].length = tensors[j].length
                                /\ tensors'[j].isInnerMem = tensors[j].isInnerMem
  BY <1>2
<1>4. TypeOK'
  BY <1>1, PutTypes DEF IInv, TypeOK
<1>5. InnerBuffers' /\ SharedMemories' /\ CreatedMemories'
  BY <1>2, <1>3 DEF IInv, Ownership, InnerBuffers, SharedMemories, CreatedMemories
<1>6. InputsFit' /\ NothingForgotten'
  BY <1>2, <1>3 DEF IInv, Ownership, InputsFit, NothingForgotten
<1> QED
  BY <1>4, <1>5, <1>6 DEF IInv, Ownership

-----------------------------------------------------------------------------
(* The steps.                                                               *)

\* Nothing is set at first.
LEMMA InitIInv == Init => IInv
<1> SUFFICES ASSUME Init PROVE IInv
  OBVIOUS
<1>1. DOMAIN tensors = {}
  BY DEF Init
<1> QED
  BY <1>1 DEF Init, IInv, TypeOK, Ownership, InnerBuffers, CreatedMemories, SharedMemories,
              InputsFit, NothingForgotten

\* SetInput preserves the invariant.
LEMMA SetInputKeeps ==
  ASSUME IInv, SetInput
  PROVE  IInv'
<1>1. PICK i \in Inputs, dataLength \in Sizes \ {0}, length \in Lengths :
        /\ length >= dataLength
        /\ IF dataLength <= CurrentLength(i)
           THEN ReuseInputBuffer(i, dataLength)
           ELSE NewInputBuffer(i, dataLength, length) \/ InputCopyFails(length)
  BY DEF SetInput
<1>2. i \in Ends /\ i \notin Outputs
  BY IOAssumption DEF Ends
<1>3. /\ dataLength \in Nat \ {0} /\ length \in Nat \ {0}
      /\ dataLength \in Sizes /\ length \in Lengths /\ 0 \in Lengths \union {0}
  BY IOAssumption
<1>4. CASE ReuseInputBuffer(i, dataLength) /\ dataLength <= CurrentLength(i)
  <2> DEFINE t == InputTensor(tensors[i].buffer, tensors[i].length, dataLength, tensors[i].isInnerMem)
  <2>1. i \in DOMAIN tensors /\ dataLength <= tensors[i].length
    BY <1>3, <1>4 DEF CurrentLength, IsInner, IsSet
  <2>2. /\ t \in NNTensors /\ t.buffer = tensors[i].buffer /\ t.length = tensors[i].length
        /\ t.isInnerMem = tensors[i].isInnerMem /\ t.dataLength = dataLength
    BY <2>1, <1>3 DEF IInv, TypeOK, NNTensors, InputTensor
  <2>3. /\ Put(i, t)
        /\ UNCHANGED <<byteSize, createdMem, memories, live, abandoned, withdrawn, misused>>
    BY <1>4 DEF ReuseInputBuffer
  <2> HIDE DEF t
  <2> QED
    BY <1>2, <2>1, <2>2, <2>3, BufferIsKept
<1>5. CASE NewInputBuffer(i, dataLength, length)
  <2>1. PICK a \in Free, refused \in SUBSET Outgoing(i) :
          /\ Releases(Outgoing(i)) /\ Refused(refused)
          /\ live' = [After(Outgoing(i), refused) EXCEPT ![a] = length]
          /\ Put(i, InputTensor(a, length, dataLength, TRUE))
    BY <1>5 DEF NewInputBuffer
  <2> DEFINE t == InputTensor(a, length, dataLength, TRUE)
  <2>2. a \in Addresses /\ After(Outgoing(i), refused)[a] = 0
    BY DEF Free, After
  <2>3. /\ t \in NNTensors /\ t.buffer = a /\ t.length = length
        /\ t.isInnerMem /\ t.dataLength = dataLength
    BY <1>3, <2>2 DEF NNTensors, InputTensor
  <2>4. Set(i) /\ UNCHANGED <<byteSize, createdMem, memories>>
    BY <1>5 DEF NewInputBuffer
  <2> HIDE DEF t
  <2>5. Put(i, t) /\ dataLength <= length
    BY <2>1, <1>1, <1>3 DEF t
  <2> QED
    BY <1>2, <2>1, <2>2, <2>3, <2>4, <2>5, NewInnerBuffer
<1>6. CASE InputCopyFails(length)
  <2>1. PICK a \in Free : live' = [live EXCEPT ![a] = length] /\ abandoned' = abandoned \union {a}
    BY <1>6 DEF InputCopyFails
  <2>2. UNCHANGED <<tensors, byteSize, createdMem, memories, withdrawn, misused>>
    BY <1>6 DEF InputCopyFails
  <2>3. a \in Addresses /\ live[a] = 0
    BY DEF Free
  <2>4. TypeOK'
    BY <2>1, <2>2, <1>3 DEF IInv, TypeOK
  <2>5. \A b \in Addresses : b # a => live'[b] = live[b]
    BY <2>1 DEF IInv, TypeOK
  <2>6. InnerBuffers' /\ CreatedMemories'
    <3>1. createdMem \in [Ends -> SUBSET Addresses] /\ memories \subseteq [data : Addresses, length : Lengths]
      BY DEF IInv, TypeOK
    <3>2. \A m \in memories : m.data \in Addresses /\ m.length # 0
      BY <3>1, IOAssumption
    <3> QED
      BY <2>2, <2>3, <2>5, <3>1, <3>2 DEF IInv, Ownership, InnerBuffers, CreatedMemories
  <2>7. SharedMemories'
    <3>1. createdMem \in [Ends -> SUBSET Addresses]
      BY DEF IInv, TypeOK
    <3> QED
      BY <2>2, <2>3, <2>5, <3>1 DEF IInv, Ownership, SharedMemories, CreatedMemories
  <2>8. InputsFit' /\ NothingForgotten'
    BY <2>1, <2>2, <2>5 DEF IInv, Ownership, InputsFit, NothingForgotten
  <2> QED
    BY <2>2, <2>4, <2>6, <2>7, <2>8 DEF IInv, Ownership
<1> QED
  BY <1>1, <1>4, <1>5, <1>6

\* SetInputFromMemory preserves it.
LEMMA SetInputFromMemoryKeeps ==
  ASSUME IInv, SetInputFromMemory
  PROVE  IInv'
<1>1. PICK i \in Inputs, dataLength \in Sizes \ {0}, m \in memories :
        /\ m.length >= dataLength
        /\ \E refused \in SUBSET Outgoing(i) :
             Releases(Outgoing(i)) /\ Refused(refused) /\ live' = After(Outgoing(i), refused)
        /\ Put(i, SharedMemory(m, dataLength))
        /\ Set(i)
        /\ UNCHANGED <<byteSize, createdMem, memories>>
  BY DEF SetInputFromMemory
<1> DEFINE t == SharedMemory(m, dataLength)
<1>2. i \in Ends /\ i \notin Outputs
  BY IOAssumption DEF Ends
<1>3. m.data \in Addresses /\ m.length \in Lengths /\ m.length \in Nat /\ dataLength \in Nat
  BY IOAssumption DEF IInv, TypeOK
<1>4. /\ t \in NNTensors /\ t.buffer = m.data /\ t.length = m.length
      /\ ~t.isInnerMem /\ t.dataLength = dataLength
  BY <1>3 DEF NNTensors, SharedMemory, InputTensor
<1>5. PICK refused \in SUBSET Outgoing(i) :
        Releases(Outgoing(i)) /\ Refused(refused) /\ live' = After(Outgoing(i), refused)
  BY <1>1
<1> HIDE DEF t
<1>6. Put(i, t) /\ t.dataLength <= t.length
  BY <1>1, <1>3, <1>4 DEF t
<1> QED
  BY <1>1, <1>2, <1>4, <1>5, <1>6, MemoryIsSet

\* What an output is before it is set, and what it is otherwise.
LEMMA OutputTypes ==
  ASSUME TypeOK, NEW i \in Outputs
  PROVE  /\ Output(i) \in NNTensors
         /\ Output(i).dataLength = byteSize[i]
         /\ i \in DOMAIN tensors => Output(i) = tensors[i]
         /\ i \notin DOMAIN tensors => ~Output(i).isInnerMem /\ Output(i).buffer = nullptr
<1>1. byteSize[i] \in Sizes
  BY DEF TypeOK
<1> QED
  BY <1>1 DEF TypeOK, Output, NewOutput, NNTensors, IsSet

\* An entry whose buffer the executor has released is left only where the
\* device may refuse a larger buffer.
LEMMA SetOutputKeeps ==
  ASSUME IInv, ~GrowthMayFail, SetOutput
  PROVE  IInv'
<1>1. PICK i \in Outputs, length \in Lengths :
        /\ length >= byteSize[i]
        /\ IF BufferFits(i, length)
           THEN UpdateUserBuffer(i, length)
           ELSE NewOutputBuffer(i, length) \/ NoOutputBuffer(i)
  BY DEF SetOutput
<1>2. i \in Ends /\ i \notin Inputs /\ TypeOK
  BY IOAssumption DEF Ends, IInv
<1>3. CASE BufferFits(i, length) /\ UpdateUserBuffer(i, length)
  <2> DEFINE t == [tensors[i] EXCEPT !.userBufferLength = length]
  <2>1. i \in DOMAIN tensors
    BY <1>3 DEF BufferFits, IsInner, IsSet
  <2>2. /\ t \in NNTensors /\ t.buffer = tensors[i].buffer /\ t.length = tensors[i].length
        /\ t.isInnerMem = tensors[i].isInnerMem /\ t.dataLength = byteSize[i]
    BY <2>1, <1>2 DEF TypeOK, NNTensors
  <2>3. Put(i, t) /\ UNCHANGED <<byteSize, createdMem, memories, live, abandoned, withdrawn, misused>>
    BY <1>3 DEF UpdateUserBuffer
  <2> HIDE DEF t
  <2> QED
    BY <1>2, <2>1, <2>2, <2>3, BufferIsKept
<1>4. CASE NewOutputBuffer(i, length)
  <2>1. PICK refused \in SUBSET Outgoing(i) :
          /\ Releases(Outgoing(i)) /\ Refused(refused)
          /\ \E a \in {b \in Addresses : After(Outgoing(i), refused)[b] = 0} :
               /\ live' = [After(Outgoing(i), refused) EXCEPT ![a] = length]
               /\ Put(i, [Output(i) EXCEPT !.buffer = a, !.length = length,
                                           !.userBufferLength = length, !.isInnerMem = TRUE])
    BY <1>4 DEF NewOutputBuffer
  <2>2. PICK a \in Addresses :
          /\ After(Outgoing(i), refused)[a] = 0
          /\ live' = [After(Outgoing(i), refused) EXCEPT ![a] = length]
          /\ Put(i, [Output(i) EXCEPT !.buffer = a, !.length = length,
                                      !.userBufferLength = length, !.isInnerMem = TRUE])
    BY <2>1
  <2> DEFINE t == [Output(i) EXCEPT !.buffer = a, !.length = length,
                                    !.userBufferLength = length, !.isInnerMem = TRUE]
  <2>3. /\ t \in NNTensors /\ t.buffer = a /\ t.length = length
        /\ t.isInnerMem /\ t.dataLength = byteSize[i]
    BY <1>2, OutputTypes DEF NNTensors
  <2>4. Set(i) /\ UNCHANGED <<byteSize, createdMem, memories>>
    BY <1>4 DEF NewOutputBuffer
  <2> HIDE DEF t
  <2>5. /\ Put(i, t) /\ After(Outgoing(i), refused)[a] = 0
        /\ live' = [After(Outgoing(i), refused) EXCEPT ![a] = t.length]
    BY <2>2, <2>3 DEF t
  <2>6. Releases(Outgoing(i)) /\ Refused(refused)
    BY <2>1
  <2> QED
    BY <1>2, <2>3, <2>4, <2>5, <2>6, NewInnerBuffer
<1>5. CASE NoOutputBuffer(i)
  <2>1. ~IsInner(i)
    BY <1>5 DEF NoOutputBuffer
  <2>2. Outgoing(i) = {}
    BY <2>1 DEF Outgoing, Inner
  <2>3. misused' = misused /\ abandoned' = abandoned /\ live' = live
    <3>1. /\ Releases({})
          /\ \E refused \in SUBSET {} : Refused(refused) /\ live' = After({}, refused)
      BY <1>5, <2>2 DEF NoOutputBuffer
    <3>2. Refused({}) /\ live' = After({}, {})
      BY <3>1
    <3>3. live \in [Addresses -> Lengths \union {0}]
      BY <1>2 DEF TypeOK
    <3> QED
      BY <3>1, <3>2, <3>3 DEF Releases, Refused, After
  <2>4. Put(i, Output(i)) /\ UNCHANGED <<byteSize, createdMem, memories, withdrawn>>
    BY <1>5 DEF NoOutputBuffer
  <2>5. CASE i \in DOMAIN tensors
    BY <2>3, <2>4, <2>5, <1>2, OutputTypes, BufferIsKept
  <2>6. CASE i \notin DOMAIN tensors
    <3>1. /\ DOMAIN tensors' = DOMAIN tensors \union {i}
          /\ tensors'[i] = Output(i)
          /\ \A j \in DOMAIN tensors : j # i => tensors'[j] = tensors[j]
      BY <2>4, PutFacts
    <3>2. ~tensors'[i].isInnerMem /\ tensors'[i].buffer = nullptr
      BY <3>1, <2>6, <1>2, OutputTypes
    <3>3. TypeOK'
      BY <2>3, <2>4, <1>2, OutputTypes, PutTypes DEF TypeOK
    <3>4. InnerBuffers' /\ CreatedMemories'
      BY <3>1, <3>2, <2>3, <2>4, <2>6 DEF IInv, Ownership, InnerBuffers, CreatedMemories
    <3>5. SharedMemories' /\ InputsFit'
      BY <3>1, <3>2, <2>3, <2>4, <2>6, <1>2 DEF IInv, Ownership, SharedMemories, InputsFit
    <3>6. NothingForgotten'
      BY <3>1, <2>3, <2>4, <2>6 DEF IInv, Ownership, NothingForgotten
    <3> QED
      BY <2>3, <3>3, <3>4, <3>5, <3>6 DEF IInv, Ownership
  <2> QED
    BY <2>5, <2>6
<1> QED
  BY <1>1, <1>3, <1>4, <1>5

\* SetOutputFromMemory preserves it.
LEMMA SetOutputFromMemoryKeeps ==
  ASSUME IInv, SetOutputFromMemory
  PROVE  IInv'
<1>1. PICK i \in Outputs, m \in memories :
        /\ \E refused \in SUBSET Outgoing(i) :
             Releases(Outgoing(i)) /\ Refused(refused) /\ live' = After(Outgoing(i), refused)
        /\ Put(i, [Output(i) EXCEPT !.buffer = m.data, !.length = m.length,
                                    !.userBufferLength = 0, !.isInnerMem = FALSE])
        /\ Set(i)
        /\ UNCHANGED <<byteSize, createdMem, memories>>
  BY DEF SetOutputFromMemory
<1> DEFINE t == [Output(i) EXCEPT !.buffer = m.data, !.length = m.length,
                                  !.userBufferLength = 0, !.isInnerMem = FALSE]
<1>2. i \in Ends /\ i \notin Inputs /\ TypeOK
  BY IOAssumption DEF Ends, IInv
<1>3. m.data \in Addresses /\ m.length \in Lengths
  BY DEF IInv, TypeOK
<1>4. /\ t \in NNTensors /\ t.buffer = m.data /\ t.length = m.length
      /\ ~t.isInnerMem /\ t.dataLength = byteSize[i]
  BY <1>2, <1>3, OutputTypes DEF NNTensors
<1>5. PICK refused \in SUBSET Outgoing(i) :
        Releases(Outgoing(i)) /\ Refused(refused) /\ live' = After(Outgoing(i), refused)
  BY <1>1
<1> HIDE DEF t
<1>6. Put(i, t) /\ Set(i) /\ UNCHANGED <<byteSize, createdMem, memories>>
  BY <1>1 DEF t
<1> QED
  BY <1>2, <1>4, <1>5, <1>6, MemoryIsSet

\* Creating a memory preserves it.
LEMMA CreateMemoryKeeps ==
  ASSUME IInv, CreateMemory
  PROVE  IInv'
<1>1. PICK i \in Ends, length \in Lengths, a \in Free :
        /\ live' = [live EXCEPT ![a] = length]
        /\ memories' = memories \union {[data |-> a, length |-> length]}
        /\ createdMem' = [createdMem EXCEPT ![i] = @ \union {a}]
        /\ UNCHANGED <<tensors, byteSize, abandoned, withdrawn, misused>>
  BY DEF CreateMemory
<1>2. /\ live \in [Addresses -> Lengths \union {0}] /\ createdMem \in [Ends -> SUBSET Addresses]
      /\ \A m \in memories : m.data \in Addresses /\ m.length # 0
      /\ a \in Addresses /\ live[a] = 0 /\ length # 0
  BY IOAssumption DEF IInv, TypeOK, Free
<1>3. TypeOK'
  BY <1>1, <1>2 DEF IInv, TypeOK
<1>4. /\ live'[a] = length
      /\ \A b \in Addresses : b # a => live'[b] = live[b]
  BY <1>1, <1>2
<1>5. \A k \in Ends : /\ createdMem[k] \subseteq createdMem'[k]
                      /\ \A b \in createdMem'[k] : b \in createdMem[k] \/ (b = a /\ k = i)
  BY <1>1, <1>2
<1>6. \A k \in Ends : a \notin createdMem[k]
  BY <1>2 DEF IInv, Ownership, CreatedMemories
<1>7. InnerBuffers'
  BY <1>1, <1>2, <1>4, <1>5 DEF IInv, Ownership, InnerBuffers
<1>8. CreatedMemories'
  <2>1. \A k \in Ends : \A b \in createdMem'[k] :
          live'[b] # 0 /\ \A l \in Ends : b \in createdMem'[l] => k = l
    BY <1>2, <1>4, <1>5, <1>6 DEF IInv, Ownership, CreatedMemories
  <2>2. ASSUME NEW m \in memories'
        PROVE  live'[m.data] = m.length /\ \E k \in Ends : m.data \in createdMem'[k]
    <3>1. CASE m \in memories
      BY <3>1, <1>2, <1>4, <1>5 DEF IInv, Ownership, CreatedMemories
    <3>2. CASE m = [data |-> a, length |-> length]
      BY <3>2, <1>1, <1>2, <1>4
    <3> QED
      BY <3>1, <3>2, <1>1
  <2> QED
    BY <2>1, <2>2 DEF CreatedMemories
<1>9. SharedMemories'
  BY <1>1, <1>2, <1>4, <1>5, <1>6 DEF IInv, Ownership, SharedMemories
<1>10. InputsFit'
  BY <1>1 DEF IInv, Ownership, InputsFit
<1>11. NothingForgotten'
  <2>1. a \in createdMem'[i]
    BY <1>1, <1>2
  <2> QED
    BY <2>1, <1>1, <1>4, <1>5 DEF IInv, Ownership, NothingForgotten
<1> QED
  BY <1>1, <1>3, <1>7, <1>8, <1>9, <1>10, <1>11 DEF IInv, Ownership

\* Destroying a memory preserves it.
LEMMA DestroyMemoryKeeps ==
  ASSUME IInv, DestroyMemory
  PROVE  IInv'
<1>1. PICK i \in Ends, m \in memories :
        /\ m.data \in createdMem[i]
        /\ live' = After({m.data}, {})
        /\ Releases({m.data})
        /\ memories' = memories \ {m}
        /\ createdMem' = [createdMem EXCEPT ![i] = Without(i, m.data)]
        /\ withdrawn' = withdrawn \union {j \in DOMAIN tensors : tensors[j].buffer = m.data /\ ~IsInner(j)}
        /\ UNCHANGED <<tensors, byteSize, abandoned>>
  BY DEF DestroyMemory
<1> DEFINE a == m.data
<1>2. /\ live \in [Addresses -> Lengths \union {0}] /\ createdMem \in [Ends -> SUBSET Addresses]
      /\ memories \subseteq [data : Addresses, length : Lengths]
  BY DEF IInv, TypeOK
<1>3. live' = [b \in Addresses |-> IF b = a THEN 0 ELSE live[b]]
  BY <1>1 DEF After
<1>4. /\ \A k \in Ends : createdMem'[k] = createdMem[k] \ {a}
      /\ createdMem' \in [Ends -> SUBSET Addresses]
  <2>1. \A k \in Ends : k # i => a \notin createdMem[k]
    BY <1>1 DEF IInv, Ownership, CreatedMemories
  <2> QED
    BY <2>1, <1>1, <1>2 DEF Without
<1>5. TypeOK'
  <2>1. live' \in [Addresses -> Lengths \union {0}]
    BY <1>2, <1>3
  <2>2. memories' \subseteq [data : Addresses, length : Lengths]
    BY <1>1, <1>2
  <2> QED
    BY <1>1, <1>4, <2>1, <2>2 DEF IInv, TypeOK
<1>6. \A j \in withdrawn' : j \in withdrawn \/ (j \in DOMAIN tensors /\ ~tensors[j].isInnerMem)
  BY <1>1 DEF IsInner, IsSet
<1>7. \A j \in DOMAIN tensors : tensors[j].isInnerMem => tensors[j].buffer # a
  BY <1>1 DEF IInv, Ownership, InnerBuffers
<1>8. InnerBuffers'
  <2>1. tensors' = tensors /\ InnerBuffers
    BY <1>1 DEF IInv, Ownership
  <2>2. \A j \in DOMAIN tensors : tensors[j].isInnerMem =>
          live'[tensors[j].buffer] = live[tensors[j].buffer] /\ j \notin withdrawn'
    BY <2>1, <1>3, <1>6, <1>7 DEF InnerBuffers
  <2>3. \A k \in Ends : createdMem'[k] \subseteq createdMem[k]
    BY <1>4
  <2> QED
    BY <2>1, <2>2, <2>3 DEF InnerBuffers
<1>9. \A n \in memories' : n \in memories /\ n.data \in Addresses /\ n.data # a
  <2> SUFFICES ASSUME NEW n \in memories', n.data = a PROVE FALSE
    BY <1>1, <1>2
  <2>1. n \in memories /\ n # m /\ n.length = m.length
    BY <1>1 DEF IInv, Ownership, CreatedMemories
  <2>2. n = [data |-> n.data, length |-> n.length] /\ m = [data |-> m.data, length |-> m.length]
    BY <2>1, <1>2
  <2> QED
    BY <2>1, <2>2
<1>10. CreatedMemories'
  <2>1. \A k \in Ends : \A b \in createdMem'[k] :
          live'[b] # 0 /\ \A l \in Ends : b \in createdMem'[l] => k = l
    BY <1>2, <1>3, <1>4 DEF IInv, Ownership, CreatedMemories
  <2>2. \A n \in memories' : live'[n.data] = n.length /\ \E k \in Ends : n.data \in createdMem'[k]
    BY <1>3, <1>4, <1>9 DEF IInv, Ownership, CreatedMemories
  <2> QED
    BY <2>1, <2>2 DEF CreatedMemories
<1>11. SharedMemories'
  <2> SUFFICES ASSUME NEW j \in DOMAIN tensors \ withdrawn',
                      ~tensors[j].isInnerMem, tensors[j].buffer # nullptr
               PROVE  /\ live'[tensors[j].buffer] = tensors[j].length
                      /\ \E k \in Ends : tensors[j].buffer \in createdMem'[k]
    BY <1>1 DEF SharedMemories
  <2>1. j \notin withdrawn /\ tensors[j].buffer # a
    BY <1>1 DEF IsInner, IsSet
  <2>2. PICK k \in Ends : live[tensors[j].buffer] = tensors[j].length /\ tensors[j].buffer \in createdMem[k]
    BY <2>1 DEF IInv, Ownership, SharedMemories
  <2> QED
    BY <2>1, <2>2, <1>2, <1>3, <1>4
<1>12. InputsFit'
  BY <1>1 DEF IInv, Ownership, InputsFit
<1>13. NothingForgotten'
  BY <1>1, <1>3, <1>4 DEF IInv, Ownership, NothingForgotten
<1>14. misused' = {}
  <2>1. live[a] # 0
    BY <1>1 DEF IInv, Ownership, CreatedMemories
  <2>2. Cardinality(Owners(a)) = 1
    BY <1>1, MemoryOwner
  <2> QED
    BY <2>1, <2>2, <1>1 DEF Releases, IInv
<1> QED
  BY <1>5, <1>8, <1>10, <1>11, <1>12, <1>13, <1>14 DEF IInv, Ownership

\* A run preserves it, whatever dimensions it reports.
LEMMA RunKeeps ==
  ASSUME IInv, Run
  PROVE  IInv'
<1>1. PICK reported \in [Outputs -> Sizes \union {BadDimensions}] :
        LET Reached == {i \in Outputs : \A j \in Outputs : j <= i => reported[j] # BadDimensions}
        IN /\ tensors' = [i \in Ends |-> IF i \in Reached
                                         THEN [tensors[i] EXCEPT !.dataLength = reported[i]] ELSE tensors[i]]
           /\ byteSize' = NewByteSize(Reached, reported)
  BY DEF Run
<1> DEFINE Reached == {i \in Outputs : \A j \in Outputs : j <= i => reported[j] # BadDimensions}
<1>2. /\ DOMAIN tensors = Ends
      /\ UNCHANGED <<createdMem, memories, live, abandoned, withdrawn, misused>>
  BY DEF Run
<1>3. Reached \subseteq Outputs /\ \A i \in Reached : reported[i] \in Sizes /\ i \notin Inputs
  BY IOAssumption
<1> HIDE DEF Reached
<1>4. /\ tensors' = [i \in Ends |-> IF i \in Reached
                                   THEN [tensors[i] EXCEPT !.dataLength = reported[i]] ELSE tensors[i]]
      /\ byteSize' = [i \in Outputs |-> IF i \in Reached THEN reported[i] ELSE byteSize[i]]
  BY <1>1 DEF Reached, NewByteSize
<1>5. \A i \in Ends : /\ tensors'[i] \in NNTensors
                      /\ tensors'[i].buffer = tensors[i].buffer
                      /\ tensors'[i].length = tensors[i].length
                      /\ tensors'[i].isInnerMem = tensors[i].isInnerMem
                      /\ i \in Inputs => tensors'[i].dataLength = tensors[i].dataLength
                      /\ i \in Outputs => tensors'[i].dataLength = byteSize'[i]
  <2> TAKE i \in Ends
  <2>1. tensors[i] \in NNTensors /\ (i \in Outputs => tensors[i].dataLength = byteSize[i])
    BY <1>2 DEF IInv, TypeOK
  <2>2. CASE i \in Reached
    BY <2>1, <2>2, <1>3, <1>4 DEF NNTensors
  <2>3. CASE i \notin Reached
    BY <2>1, <2>3, <1>4
  <2> QED
    BY <2>2, <2>3
<1>6. TypeOK'
  BY <1>2, <1>3, <1>4, <1>5 DEF IInv, TypeOK
<1>7. DOMAIN tensors' = DOMAIN tensors
  BY <1>2, <1>4
<1>8. InnerBuffers' /\ CreatedMemories' /\ SharedMemories'
  BY <1>2, <1>5, <1>7 DEF IInv, Ownership, InnerBuffers, CreatedMemories, SharedMemories
<1>9. InputsFit' /\ NothingForgotten'
  BY <1>2, <1>5, <1>7 DEF IInv, Ownership, InputsFit, NothingForgotten
<1> QED
  BY <1>2, <1>6, <1>8, <1>9 DEF IInv, Ownership

\* Destroying the executor preserves it.
LEMMA DestroyKeeps ==
  ASSUME IInv, Destroy
  PROVE  IInv'
<1> DEFINE inner == UNION {Inner(i) : i \in DOMAIN tensors}
           created == UNION {createdMem[i] : i \in Ends}
<1>1. PICK refused \in SUBSET inner :
        /\ abandoned' = abandoned \union {a \in refused : live[a] # 0} \union created
        /\ Releases(inner)
        /\ live' = After(inner, refused)
  BY DEF Destroy
<1>2. /\ tensors' = <<>> /\ createdMem' = [i \in Ends |-> {}] /\ memories' = {}
      /\ withdrawn' = {} /\ UNCHANGED byteSize
  BY DEF Destroy
<1>3. DOMAIN tensors' = {}
  BY <1>2
<1>4. \A a \in inner : \E i \in DOMAIN tensors : tensors[i].isInnerMem /\ tensors[i].buffer = a
  BY DEF Inner, IsInner, IsSet
<1>5. \A i \in DOMAIN tensors : tensors[i].isInnerMem => tensors[i].buffer \in inner
  BY DEF Inner, IsInner, IsSet
<1>6. \A k \in Ends : createdMem[k] \subseteq created
  OBVIOUS
<1> HIDE DEF inner, created
<1>7. misused' = {}
  BY <1>1, <1>4, ReleasesOwn
<1>8. live' = [a \in Addresses |-> IF a \in inner \ refused THEN 0 ELSE live[a]]
  BY <1>1 DEF After
<1>9. TypeOK'
  BY <1>2, <1>3, <1>8 DEF IInv, TypeOK
<1>10. NothingForgotten'
  <2> SUFFICES ASSUME NEW a \in Addresses, live'[a] # 0 PROVE a \in abandoned'
    BY DEF NothingForgotten
  <2>1. live[a] # 0 /\ a \notin inner \ refused
    BY <1>8
  <2>2. a \in abandoned \/ a \in inner \/ a \in created
    BY <2>1, <1>5, <1>6 DEF IInv, Ownership, NothingForgotten
  <2> QED
    BY <2>1, <2>2, <1>1
<1> QED
  BY <1>2, <1>3, <1>7, <1>9, <1>10 DEF IInv, Ownership, InnerBuffers, CreatedMemories, SharedMemories, InputsFit

\* Every call preserves the invariant when a larger output finds its buffer.
LEMMA Step ==
  ASSUME IInv, ~GrowthMayFail, Next
  PROVE  IInv'
  BY SetInputKeeps, SetInputFromMemoryKeeps, SetOutputKeeps, SetOutputFromMemoryKeeps,
     CreateMemoryKeeps, DestroyMemoryKeeps, RunKeeps, DestroyKeeps DEF Next

\* A step that changes nothing.
LEMMA Stutter ==
  ASSUME IInv, UNCHANGED vars
  PROVE  IInv'
  BY DEF vars, IInv, TypeOK, Ownership, InnerBuffers, CreatedMemories, SharedMemories,
         InputsFit, NothingForgotten, NNTensors

-----------------------------------------------------------------------------
(* Theorems.                                                                *)

\* The inductive invariant holds as long as the device has a buffer for every
\* larger output (nnexecutor.cpp:1249).
THEOREM Invariant == ~GrowthMayFail => (Spec => []IInv)
<1> SUFFICES ASSUME ~GrowthMayFail PROVE Spec => []IInv
  OBVIOUS
<1>1. Init => IInv
  BY InitIInv
<1>2. IInv /\ [Next]_vars => IInv'
  BY Step, Stutter
<1> QED
  BY <1>1, <1>2, PTL DEF Spec

\* Every device buffer of the executor has exactly one owner.
THEOREM OneOwner == ~GrowthMayFail => (Spec => []BuffersHaveOneOwner)
<1> SUFFICES ASSUME ~GrowthMayFail PROVE Spec => []BuffersHaveOneOwner
  OBVIOUS
<1>1. ASSUME IInv PROVE BuffersHaveOneOwner
  <2> SUFFICES ASSUME NEW a \in Addresses
               PROVE  IF live[a] = 0 THEN Owners(a) = {}
                      ELSE Cardinality(Owners(a)) = 1 \/ (Owners(a) = {} /\ a \in abandoned)
    BY DEF BuffersHaveOneOwner
  <2>1. CASE \E i \in DOMAIN tensors : tensors[i].isInnerMem /\ tensors[i].buffer = a
    BY <1>1, <2>1, InnerOwner DEF IInv, Ownership, InnerBuffers
  <2>2. CASE \E k \in Ends : a \in createdMem[k]
    BY <1>1, <2>2, MemoryOwner DEF IInv, Ownership, CreatedMemories
  <2>3. CASE /\ \A i \in DOMAIN tensors : ~(tensors[i].isInnerMem /\ tensors[i].buffer = a)
             /\ \A k \in Ends : a \notin createdMem[k]
    <3>1. Owners(a) = {}
      BY <2>3, NoOwner
    <3> QED
      BY <1>1, <2>3, <3>1 DEF IInv, Ownership, NothingForgotten
  <2> QED
    BY <2>1, <2>2, <2>3
<1> QED
  BY <1>1, Invariant, PTL

\* What Run gives the device is there and long enough.
THEOREM WholeBuffers == ~GrowthMayFail => (Spec => []BuffersAreWhole)
<1> SUFFICES ASSUME ~GrowthMayFail PROVE Spec => []BuffersAreWhole
  OBVIOUS
<1>1. ASSUME IInv PROVE BuffersAreWhole
  BY <1>1 DEF IInv, Ownership, InnerBuffers, SharedMemories, InputsFit, BuffersAreWhole, TypeOK, NNTensors
<1> QED
  BY <1>1, Invariant, PTL

-----------------------------------------------------------------------------
(* What holds whether or not the device may refuse a larger buffer.         *)

\* The client's buffer is no longer than the tensor's is recorded to be. After
\* a growth that failed there is no such buffer any more (nnexecutor.cpp:1249).
RecordedLengthsFit ==
  \A i \in Outputs : IsInner(i) => tensors[i].userBufferLength <= tensors[i].length

TInv == TypeOK /\ RecordedLengthsFit /\ deleted = {}

\* Tensors that were detached delete no buffer.
LEMMA NothingIsDeleted ==
  ASSUME NEW dying, dying \subseteq NNTensors, Dies(dying)
  PROVE  deleted' = deleted
<1>1. \A t \in dying : Detached(t).buffer = nullptr
  BY DEF NNTensors, Detached
<1> QED
  BY <1>1 DEF Dies

\* An entry that is replaced was an NNTensor.
LEMMA ReplacedTypes ==
  ASSUME TypeOK, NEW i
  PROVE  Replaced(i) \subseteq NNTensors
  BY DEF TypeOK, Replaced, IsSet

\* The device's buffers have lengths after a release.
LEMMA AfterTypes ==
  ASSUME TypeOK, NEW buffers, NEW refused
  PROVE  After(buffers, refused) \in [Addresses -> Lengths \union {0}]
  BY DEF TypeOK, After

\* An entry that fits its buffer is set.
LEMMA TensorIsSet ==
  ASSUME TInv, NEW i \in Ends, NEW t \in NNTensors, Put(i, t),
         i \in Outputs => t.dataLength = byteSize[i],
         i \in Outputs /\ t.isInnerMem => t.userBufferLength <= t.length,
         live' \in [Addresses -> Lengths \union {0}],
         UNCHANGED <<byteSize, createdMem, memories, deleted>>
  PROVE  TInv'
<1>1. TypeOK'
  BY PutTypes DEF TInv
<1>2. /\ DOMAIN tensors' = DOMAIN tensors \union {i}
      /\ tensors'[i] = t
      /\ \A j \in DOMAIN tensors : j # i => tensors'[j] = tensors[j]
  BY PutFacts
<1>3. ASSUME NEW j \in Outputs, j \in DOMAIN tensors', tensors'[j].isInnerMem
      PROVE  tensors'[j].userBufferLength <= tensors'[j].length
  <2>1. CASE j = i
    BY <2>1, <1>2, <1>3
  <2>2. CASE j # i
    BY <2>2, <1>2, <1>3 DEF TInv, RecordedLengthsFit, IsInner, IsSet
  <2> QED
    BY <2>1, <2>2
<1>4. RecordedLengthsFit'
  BY <1>3 DEF RecordedLengthsFit, IsInner, IsSet
<1> QED
  BY <1>1, <1>4 DEF TInv

\* Setting an input preserves types and sizes.
LEMMA InputTypesKept ==
  ASSUME TInv, SetInput \/ SetInputFromMemory
  PROVE  TInv'
<1>1. CASE SetInput
  <2>1. PICK i \in Inputs, dataLength \in Sizes \ {0}, length \in Lengths :
          \/ dataLength <= CurrentLength(i) /\ ReuseInputBuffer(i, dataLength)
          \/ NewInputBuffer(i, dataLength, length)
          \/ InputCopyFails(length)
    BY <1>1 DEF SetInput
  <2>2. i \in Ends /\ i \notin Outputs /\ dataLength \in Nat \ {0}
    BY IOAssumption DEF Ends
  <2>3. CASE dataLength <= CurrentLength(i) /\ ReuseInputBuffer(i, dataLength)
    <3>1. i \in DOMAIN tensors
      BY <2>2, <2>3 DEF CurrentLength, IsInner, IsSet
    <3>2. tensors[i] \in NNTensors
      BY <3>1 DEF TInv, TypeOK
    <3> DEFINE t == InputTensor(tensors[i].buffer, tensors[i].length, dataLength, tensors[i].isInnerMem)
    <3>3. t \in NNTensors
      BY <3>2 DEF InputTensor, NNTensors
    <3>4. deleted' = deleted
      BY <2>3, ReplacedTypes, NothingIsDeleted DEF ReuseInputBuffer, TInv
    <3>5. Put(i, t) /\ UNCHANGED <<byteSize, createdMem, memories, live>>
      BY <2>3 DEF ReuseInputBuffer
    <3> HIDE DEF t
    <3> QED
      BY <2>2, <3>3, <3>4, <3>5, TensorIsSet DEF TInv, TypeOK
  <2>4. CASE NewInputBuffer(i, dataLength, length)
    <3>1. PICK a \in Free, refused \in SUBSET Outgoing(i) :
            /\ live' = [After(Outgoing(i), refused) EXCEPT ![a] = length]
            /\ Put(i, InputTensor(a, length, dataLength, TRUE))
      BY <2>4 DEF NewInputBuffer
    <3> DEFINE t == InputTensor(a, length, dataLength, TRUE)
    <3>2. t \in NNTensors
      BY DEF InputTensor, NNTensors, Free
    <3>3. deleted' = deleted /\ UNCHANGED <<byteSize, createdMem, memories>>
      BY <2>4, ReplacedTypes, NothingIsDeleted DEF NewInputBuffer, TInv
    <3>4. live' \in [Addresses -> Lengths \union {0}]
      BY <3>1, AfterTypes DEF TInv
    <3>5. Put(i, t)
      BY <3>1
    <3> HIDE DEF t
    <3> QED
      BY <2>2, <3>2, <3>3, <3>4, <3>5, TensorIsSet
  <2>5. CASE InputCopyFails(length)
    <3>1. PICK a \in Free :
            /\ live' = [live EXCEPT ![a] = length]
            /\ UNCHANGED <<tensors, byteSize, createdMem, memories, deleted>>
      BY <2>5 DEF InputCopyFails
    <3>2. live' \in [Addresses -> Lengths \union {0}]
      BY <3>1 DEF TInv, TypeOK
    <3>3. TypeOK'
      BY <3>1, <3>2 DEF TInv, TypeOK
    <3> QED
      BY <3>1, <3>3 DEF TInv, RecordedLengthsFit, IsInner, IsSet
  <2> QED
    BY <2>1, <2>3, <2>4, <2>5
<1>2. CASE SetInputFromMemory
  <2>1. PICK i \in Inputs, dataLength \in Sizes \ {0}, m \in memories :
          /\ \E refused \in SUBSET Outgoing(i) : live' = After(Outgoing(i), refused)
          /\ Put(i, SharedMemory(m, dataLength))
          /\ Dies(Replaced(i))
          /\ UNCHANGED <<byteSize, createdMem, memories>>
    BY <1>2 DEF SetInputFromMemory
  <2>2. i \in Ends /\ i \notin Outputs
    BY IOAssumption DEF Ends
  <2>3. SharedMemory(m, dataLength) \in NNTensors
    BY DEF SharedMemory, InputTensor, NNTensors, TInv, TypeOK
  <2>4. deleted' = deleted
    BY <2>1, ReplacedTypes, NothingIsDeleted DEF TInv
  <2>5. live' \in [Addresses -> Lengths \union {0}]
    BY <2>1, AfterTypes DEF TInv
  <2> QED
    BY <2>1, <2>2, <2>3, <2>4, <2>5, TensorIsSet
<1> QED
  BY <1>1, <1>2

\* Setting an output preserves them.
LEMMA OutputTypesKept ==
  ASSUME TInv, SetOutput \/ SetOutputFromMemory
  PROVE  TInv'
<1>0. TypeOK /\ 0 \in Lengths \union {0}
  BY DEF TInv
<1>1. CASE SetOutput
  <2>1. PICK i \in Outputs, length \in Lengths :
          \/ BufferFits(i, length) /\ UpdateUserBuffer(i, length)
          \/ NewOutputBuffer(i, length)
          \/ NoOutputBuffer(i)
    BY <1>1 DEF SetOutput
  <2>2. i \in Ends /\ length \in Nat
    BY IOAssumption DEF Ends
  <2>3. CASE BufferFits(i, length) /\ UpdateUserBuffer(i, length)
    <3> DEFINE t == [tensors[i] EXCEPT !.userBufferLength = length]
    <3>1. i \in DOMAIN tensors /\ length <= tensors[i].length
      BY <2>3 DEF BufferFits, IsInner, IsSet
    <3>2. tensors[i] \in NNTensors /\ tensors[i].dataLength = byteSize[i]
      BY <3>1, <1>0 DEF TypeOK
    <3>3. t \in NNTensors /\ t.dataLength = byteSize[i] /\ t.userBufferLength <= t.length
      BY <3>1, <3>2 DEF NNTensors
    <3>4. Put(i, t) /\ UNCHANGED <<byteSize, createdMem, memories, live, deleted>>
      BY <2>3 DEF UpdateUserBuffer
    <3>5. live' \in [Addresses -> Lengths \union {0}]
      BY <3>4, <1>0 DEF TypeOK
    <3> HIDE DEF t
    <3> QED
      BY <2>2, <3>3, <3>4, <3>5, TensorIsSet
  <2>4. CASE NewOutputBuffer(i, length)
    <3>1. PICK refused \in SUBSET Outgoing(i), a \in Addresses :
            /\ live' = [After(Outgoing(i), refused) EXCEPT ![a] = length]
            /\ Put(i, [Output(i) EXCEPT !.buffer = a, !.length = length,
                                        !.userBufferLength = length, !.isInnerMem = TRUE])
      BY <2>4 DEF NewOutputBuffer
    <3> DEFINE t == [Output(i) EXCEPT !.buffer = a, !.length = length,
                                      !.userBufferLength = length, !.isInnerMem = TRUE]
    <3>2. t \in NNTensors /\ t.dataLength = byteSize[i]
      BY <1>0, OutputTypes DEF NNTensors
    <3>3. t.userBufferLength = length /\ t.length = length /\ length <= length
      BY <1>0, <2>2, OutputTypes DEF NNTensors
    <3>4. live' \in [Addresses -> Lengths \union {0}]
      BY <3>1, <1>0, AfterTypes
    <3>5. Put(i, t) /\ UNCHANGED <<byteSize, createdMem, memories, deleted>>
      BY <2>4, <3>1 DEF NewOutputBuffer
    <3> HIDE DEF t
    <3> QED
      BY <2>2, <3>2, <3>3, <3>4, <3>5, TensorIsSet
  <2>5. CASE NoOutputBuffer(i)
    <3>1. /\ \E refused \in SUBSET Outgoing(i) : live' = After(Outgoing(i), refused)
          /\ Put(i, Output(i))
          /\ UNCHANGED <<byteSize, createdMem, memories, deleted>>
      BY <2>5 DEF NoOutputBuffer
    <3>2. live' \in [Addresses -> Lengths \union {0}]
      BY <3>1, <1>0, AfterTypes
    <3>3. Output(i) \in NNTensors /\ Output(i).dataLength = byteSize[i]
      BY <1>0, OutputTypes
    <3>4. Output(i).isInnerMem => Output(i).userBufferLength <= Output(i).length
      <4>1. CASE i \in DOMAIN tensors
        BY <4>1, <1>0, OutputTypes DEF TInv, RecordedLengthsFit, IsInner, IsSet
      <4>2. CASE i \notin DOMAIN tensors
        BY <4>2, <1>0, OutputTypes
      <4> QED
        BY <4>1, <4>2
    <3> QED
      BY <2>2, <3>1, <3>2, <3>3, <3>4, TensorIsSet
  <2> QED
    BY <2>1, <2>3, <2>4, <2>5
<1>2. CASE SetOutputFromMemory
  <2>1. PICK i \in Outputs, m \in memories :
          /\ \E refused \in SUBSET Outgoing(i) : live' = After(Outgoing(i), refused)
          /\ Put(i, [Output(i) EXCEPT !.buffer = m.data, !.length = m.length,
                                      !.userBufferLength = 0, !.isInnerMem = FALSE])
          /\ UNCHANGED <<byteSize, createdMem, memories, deleted>>
    BY <1>2 DEF SetOutputFromMemory
  <2> DEFINE t == [Output(i) EXCEPT !.buffer = m.data, !.length = m.length,
                                    !.userBufferLength = 0, !.isInnerMem = FALSE]
  <2>2. i \in Ends /\ m.data \in Addresses /\ m.length \in Lengths
    BY <1>0 DEF Ends, TypeOK
  <2>3. t \in NNTensors /\ t.dataLength = byteSize[i] /\ ~t.isInnerMem
    BY <1>0, <2>2, OutputTypes DEF NNTensors
  <2>4. live' \in [Addresses -> Lengths \union {0}]
    BY <2>1, <1>0, AfterTypes
  <2>5. Put(i, t)
    BY <2>1
  <2> HIDE DEF t
  <2> QED
    BY <2>1, <2>2, <2>3, <2>4, <2>5, TensorIsSet
<1> QED
  BY <1>1, <1>2

\* Creating and destroying memories preserves them.
LEMMA MemoryTypesKept ==
  ASSUME TInv, CreateMemory \/ DestroyMemory
  PROVE  TInv'
<1>1. TypeOK'
  <2>1. CASE CreateMemory
    BY <2>1 DEF CreateMemory, Free, TInv, TypeOK
  <2>2. CASE DestroyMemory
    <3>1. PICK i \in Ends, m \in memories :
            /\ live' = After({m.data}, {})
            /\ memories' = memories \ {m}
            /\ createdMem' = [createdMem EXCEPT ![i] = Without(i, m.data)]
            /\ UNCHANGED <<tensors, byteSize>>
      BY <2>2 DEF DestroyMemory
    <3>2. live' \in [Addresses -> Lengths \union {0}]
      BY <3>1, AfterTypes DEF TInv
    <3> QED
      BY <3>1, <3>2 DEF TInv, TypeOK, Without
  <2> QED
    BY <2>1, <2>2
<1>2. UNCHANGED <<tensors, deleted>>
  BY DEF CreateMemory, DestroyMemory
<1> QED
  BY <1>1, <1>2 DEF TInv, RecordedLengthsFit, IsInner, IsSet

\* A run preserves them.
LEMMA RunTypesKept ==
  ASSUME TInv, Run
  PROVE  TInv'
<1>1. PICK reported \in [Outputs -> Sizes \union {BadDimensions}] :
        LET Reached == {i \in Outputs : \A j \in Outputs : j <= i => reported[j] # BadDimensions}
        IN /\ tensors' = [i \in Ends |-> IF i \in Reached
                                         THEN [tensors[i] EXCEPT !.dataLength = reported[i]] ELSE tensors[i]]
           /\ byteSize' = NewByteSize(Reached, reported)
  BY DEF Run
<1> DEFINE Reached == {i \in Outputs : \A j \in Outputs : j <= i => reported[j] # BadDimensions}
<1>2. /\ DOMAIN tensors = Ends
      /\ UNCHANGED <<createdMem, memories, live, deleted>>
  BY DEF Run
<1>3. Reached \subseteq Outputs /\ \A i \in Reached : reported[i] \in Sizes
  BY IOAssumption
<1> HIDE DEF Reached
<1>4. /\ tensors' = [i \in Ends |-> IF i \in Reached
                                   THEN [tensors[i] EXCEPT !.dataLength = reported[i]] ELSE tensors[i]]
      /\ byteSize' = [i \in Outputs |-> IF i \in Reached THEN reported[i] ELSE byteSize[i]]
  BY <1>1 DEF Reached, NewByteSize
<1>5. \A i \in Ends : /\ tensors'[i] \in NNTensors
                      /\ tensors'[i].length = tensors[i].length
                      /\ tensors'[i].userBufferLength = tensors[i].userBufferLength
                      /\ tensors'[i].isInnerMem = tensors[i].isInnerMem
                      /\ i \in Outputs => tensors'[i].dataLength = byteSize'[i]
  <2> TAKE i \in Ends
  <2>1. tensors[i] \in NNTensors /\ (i \in Outputs => tensors[i].dataLength = byteSize[i])
    BY <1>2 DEF TInv, TypeOK
  <2>2. CASE i \in Reached
    BY <2>1, <2>2, <1>3, <1>4 DEF NNTensors
  <2>3. CASE i \notin Reached
    BY <2>1, <2>3, <1>4
  <2> QED
    BY <2>2, <2>3
<1>6. DOMAIN tensors' = Ends
  BY <1>4
<1>7. TypeOK'
  BY <1>2, <1>3, <1>4, <1>5 DEF TInv, TypeOK
<1>8. RecordedLengthsFit'
  BY <1>2, <1>5, <1>6 DEF TInv, RecordedLengthsFit, IsInner, IsSet, Ends
<1> QED
  BY <1>2, <1>7, <1>8 DEF TInv

\* Destroying the executor preserves them.
LEMMA DestroyTypesKept ==
  ASSUME TInv, Destroy
  PROVE  TInv'
<1>1. /\ tensors' = <<>> /\ createdMem' = [i \in Ends |-> {}] /\ memories' = {} /\ UNCHANGED byteSize
      /\ \E inner, refused : live' = After(inner, refused)
  BY DEF Destroy
<1>2. DOMAIN tensors' = {}
  BY <1>1
<1>3. live' \in [Addresses -> Lengths \union {0}]
  BY <1>1, AfterTypes DEF TInv
<1>4. {tensors[i] : i \in DOMAIN tensors} \subseteq NNTensors
  BY DEF TInv, TypeOK
<1>5. deleted' = deleted
  BY <1>4, NothingIsDeleted DEF Destroy
<1>6. TypeOK'
  BY <1>1, <1>2, <1>3 DEF TInv, TypeOK
<1> QED
  BY <1>2, <1>5, <1>6 DEF TInv, RecordedLengthsFit, IsInner, IsSet

\* Whatever the device refuses, what the tensors hold is what the executor
\* takes them to hold, and no NNTensor that dies has a buffer to delete.
THEOREM TypesAndResults == Spec => []TInv
<1>1. Init => TInv
  <2> SUFFICES ASSUME Init PROVE TInv
    OBVIOUS
  <2>1. DOMAIN tensors = {}
    BY DEF Init
  <2> QED
    BY <2>1 DEF Init, TInv, TypeOK, RecordedLengthsFit, IsInner, IsSet
<1>2. TInv /\ [Next]_vars => TInv'
  <2>1. ASSUME TInv, Next PROVE TInv'
    BY <2>1, InputTypesKept, OutputTypesKept, MemoryTypesKept, RunTypesKept, DestroyTypesKept DEF Next
  <2>2. ASSUME TInv, UNCHANGED vars PROVE TInv'
    BY <2>2 DEF vars, TInv, TypeOK, RecordedLengthsFit, IsInner, IsSet, NNTensors
  <2> QED
    BY <2>1, <2>2
<1> QED
  BY <1>1, <1>2, PTL DEF Spec

\* Type correctness, which is also what makes SetOutput ask for enough.
THEOREM TypeCorrect == Spec => []TypeOK
<1>1. TInv => TypeOK
  BY DEF TInv
<1> QED
  BY <1>1, TypesAndResults, PTL

\* A result that passes Run's check against the client's buffer can be copied
\* out of the buffer that lives at the device's address, whatever sizes the
\* device reports, as long as it has a buffer for every larger output.
THEOREM ResultsFit == ~GrowthMayFail => (Spec => []ResultsFitTheirBuffers)
<1> SUFFICES ASSUME ~GrowthMayFail PROVE Spec => []ResultsFitTheirBuffers
  OBVIOUS
<1>1. IInv /\ TInv => ResultsFitTheirBuffers
  BY DEF IInv, Ownership, InnerBuffers, TInv, RecordedLengthsFit, ResultsFitTheirBuffers, IsInner, IsSet
<1> QED
  BY <1>1, Invariant, TypesAndResults, PTL

\* No buffer is released a second time, nor one that is somebody else's, as
\* nn_tensor.cpp:347 asks, where the device never refuses a larger buffer; the
\* executor of a device that may is the run MCExecutorIO_BuffersAreReleasedOnce.
THEOREM ReleasedOnce == ~GrowthMayFail => (Spec => []BuffersAreReleasedOnce)
<1> SUFFICES ASSUME ~GrowthMayFail PROVE Spec => []BuffersAreReleasedOnce
  OBVIOUS
<1>1. IInv /\ TInv => BuffersAreReleasedOnce
  BY DEF IInv, TInv, BuffersAreReleasedOnce
<1> QED
  BY <1>1, Invariant, TypesAndResults, PTL
=============================================================================
