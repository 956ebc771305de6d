-------------------------- MODULE HDIDeviceProofs --------------------------
(* For any number of threads, descriptors, addresses, lengths and graphs:   *)
(* the types of HDIDevice, the addresses and the buffers that the runtime   *)
(* and its clients hold, and the constants of a model in the buffer they    *)
(* share. What concerns a release that is asked for twice assumes that      *)
(* clients do not repeat one after a MEMORY_ERROR.                          *)
EXTENDS HDIDevice, FiniteSetTheorems, LoopLemmas

-----------------------------------------------------------------------------
(* Types, and where each call can be.                                       *)

SharedCalls == {"PrepareModel", "GetSupportedOperation"}

Paths ==
  {<<"none", "idle">>}
    \union ({"AllocateBuffer"} \X {"allocate", "map", "giveBack", "register"})
    \union ({"AllocateBufferFd"} \X {"allocate"})
    \union ({"ReleaseBuffer"} \X {"lookup", "release", "unmap", "erase"})
    \union (SharedCalls \X {"allocate", "convert", "giveBack", "ask", "releaseShared"})
    \union ({"PrepareOfflineModel"} \X {"allocate", "map", "giveBack", "register", "retrieve", "ask",
                                        "lookup", "release", "unmap", "erase"})
    \union ({"ExportModelCache"} \X {"next", "map", "register"})
    \union ({"Run"} \X {"retrieve", "ask"})
    \union ({"~HDIPreparedModel"} \X {"next", "unmap", "erase"})

\* The locals of a call have the values that its steps rely on.
ControlOf(t) ==
  LET f == thread[t]
  IN /\ <<f.call, f.pc>> \in Paths
     /\ f.call \in SharedCalls => f.addr = nullptr /\ f.graph \in Graphs
     /\ f.pc \in {"register", "release", "unmap", "erase"} => f.addr \in Addresses
     /\ f.call = "PrepareOfflineModel" /\ f.pc \in {"retrieve", "lookup", "ask"} => f.addr \in Addresses
     /\ f.call = "Run" /\ f.pc = "ask" => f.addr \in Addresses
     /\ f.pc \in {"register", "release"} => f.fd \in Fds
     /\ f.pc = "allocate" => f.fd = INVALID_FD
     /\ f.call # "ExportModelCache" => f.left = {}
Control == \A t \in Threads : ControlOf(t)

-----------------------------------------------------------------------------
(* Who keeps an entry of the table, and which addresses are mapped.         *)

\* The call of t is the one that has the address and its entry.
UsesEntry(t) ==
  /\ thread[t].pc \in {"retrieve", "lookup", "ask", "release", "unmap", "erase"}
  /\ thread[t].addr \in Addresses

Apart ==
  /\ held \union lostAddresses \subseteq DOMAIN memorys
  /\ held \intersect lostAddresses = {}
  /\ \A t \in Threads : m_addrs[t] \subseteq DOMAIN memorys \ (held \union lostAddresses)
  /\ \A t, u \in Threads : t # u => m_addrs[t] \intersect m_addrs[u] = {}
  /\ \A t \in Threads : UsesEntry(t) =>
       /\ thread[t].addr \in DOMAIN memorys \ (held \union lostAddresses)
       /\ \A u \in Threads : thread[t].addr \notin m_addrs[u]
  /\ \A t, u \in Threads : t # u /\ UsesEntry(t) /\ UsesEntry(u) => thread[t].addr # thread[u].addr

EveryEntryIsKept ==
  \A a \in DOMAIN memorys :
    \/ a \in held \union lostAddresses
    \/ \E t \in Threads : a \in m_addrs[t] \/ (UsesEntry(t) /\ thread[t].addr = a)

\* Between munmap and the end of UnMapMemory the address may be mapped again.
Erasing(a) == \E t \in Threads : At(t, "erase") /\ thread[t].addr = a
Registering(a) == \E t \in Threads : At(t, "register") /\ thread[t].addr = a

Mappings ==
  /\ \A t \in Threads : At(t, "erase") <=> mtx = t
  /\ \A t \in Threads : At(t, "register") => thread[t].addr \in mapped
  /\ \A t, u \in Threads : t # u /\ At(t, "register") /\ At(u, "register") => thread[t].addr # thread[u].addr
  /\ \A a \in DOMAIN memorys : (a \in mapped /\ ~Registering(a)) \/ Erasing(a)
  /\ \A a \in mapped : (a \in DOMAIN memorys /\ ~Erasing(a)) \/ Registering(a)

-----------------------------------------------------------------------------
(* Who releases a buffer of the driver.                                     *)

\* The buffer belongs to the call of t.
HasBuffer(t) ==
  /\ thread[t].fd \in Fds
  /\ \/ thread[t].pc \in {"giveBack", "convert", "releaseShared"}
     \/ thread[t].pc \in {"map", "register"} /\ thread[t].call # "ExportModelCache"
     \/ thread[t].pc = "ask" /\ thread[t].call \in SharedCalls

\* The buffer of the entry belongs to whoever has the address.
IsLive(a) ==
  \/ a \in held
  \/ \E t \in Threads : thread[t].pc \in {"retrieve", "lookup", "ask", "release"} /\ thread[t].addr = a

Live ==
  /\ \A fd \in heldFds : allocated[fd] # 0
  /\ \A t \in Threads : HasBuffer(t) =>
       allocated[thread[t].fd] = thread[t].serial /\ thread[t].serial # 0
  /\ \A a \in Addresses : IsLive(a) /\ a \in DOMAIN memorys => allocated[memorys[a].fd] = memorys[a].serial
  /\ \A t \in Threads : \A fd \in thread[t].left : allocated[fd] # 0 /\ fd \in lostFds

\* No two of them have the same descriptor.
Exclusive ==
  /\ \A t \in Threads : HasBuffer(t) => thread[t].fd \notin heldFds
  /\ \A t, u \in Threads : t # u /\ HasBuffer(t) /\ HasBuffer(u) => thread[t].fd # thread[u].fd
  /\ \A a \in DOMAIN memorys : IsLive(a) =>
       /\ memorys[a].fd \notin heldFds
       /\ \A t \in Threads : HasBuffer(t) => thread[t].fd # memorys[a].fd
  /\ \A a, b \in DOMAIN memorys : a # b /\ IsLive(a) /\ IsLive(b) => memorys[a].fd # memorys[b].fd
  /\ \A t \in Threads : \A fd \in thread[t].left :
       /\ fd \notin heldFds
       /\ \A u \in Threads : HasBuffer(u) => thread[u].fd # fd
       /\ \A a \in DOMAIN memorys : IsLive(a) => memorys[a].fd # fd

\* What a call knows of the buffer it is about to release or to map, and what
\* is no longer to be released.
KnownOf(t) ==
  LET f == thread[t]
  IN /\ f.pc \in {"ask", "release"} /\ f.call \notin SharedCalls =>
          memorys[f.addr] = [fd |-> f.fd, serial |-> f.serial]
     /\ f.pc \in {"map", "register"} /\ f.fd \in Fds =>
          f.serial # 0 /\ (f.call = "ExportModelCache" => f.fd \in lostFds)
     /\ f.pc \in {"unmap", "erase"} =>
          \/ memorys[f.addr].fd \in lostFds
          \/ allocated[memorys[f.addr].fd] # memorys[f.addr].serial
     /\ f.serial <= serials
     /\ \A a \in m_addrs[t] : memorys[a].fd \in lostFds
Known ==
  /\ \A t \in Threads : KnownOf(t)
  /\ \A a \in DOMAIN memorys : memorys[a].serial <= serials
  /\ \A fd \in Fds : allocated[fd] <= serials

Remembered ==
  \A fd \in Fds : allocated[fd] # 0 =>
    \/ fd \in heldFds \union lostFds
    \/ \E t \in Threads : HasBuffer(t) /\ thread[t].fd = fd /\ thread[t].serial = allocated[fd]
    \/ \E a \in DOMAIN memorys : memorys[a] = [fd |-> fd, serial |-> allocated[fd]]

\* The graph that the driver is asked about.
GraphOf(t) ==
  LET f == thread[t]
  IN /\ f.call \notin SharedCalls => f.segments = <<>>
     /\ f.call \in SharedCalls => f.length = TensorSize(f.graph)
     /\ f.pc \in {"convert", "ask"} /\ f.fd = INVALID_FD => f.length = 0
     /\ f.call \in SharedCalls /\ f.pc = "ask" => f.segments = Segments(f.graph, f.fd)
GraphsCopied == \A t \in Threads : GraphOf(t)

-----------------------------------------------------------------------------
(* The inductive invariant: the calls, the addresses, the buffers.          *)

LocalsOf(t) == ControlOf(t) /\ GraphOf(t)
Locals == Control /\ GraphsCopied
Places == Apart /\ EveryEntryIsKept /\ Mappings
Buffers == Live /\ Exclusive /\ Known /\ Remembered
IInv == TypeOK /\ Locals /\ Places /\ Buffers

-----------------------------------------------------------------------------
(* The constants of a graph in the buffer.                                  *)

\* The recursive function of SizeOf exists: the sizes are added one by one.
LEMMA SizeOfIsSum ==
  ASSUME NEW sizes \in Seq(Nat)
  PROVE  /\ SizeOf(sizes) \in [0..Len(sizes) -> Nat]
         /\ SizeOf(sizes)[0] = 0
         /\ \A i \in 1..Len(sizes) : SizeOf(sizes)[i] = SizeOf(sizes)[i - 1] + sizes[i]
<1> DEFINE n == Len(sizes)
           body == [p \in (1..n) \X Nat |-> p[2] + sizes[p[1]]]
<1>1. n \in Nat /\ 0 \in Nat /\ \A i \in 1..n, v \in Nat : body[<<i, v>>] \in Nat
  OBVIOUS
<1>2. \A i \in 1..n : sizes[i] \in Nat /\ \A v \in Nat : body[<<i, v>>] = v + sizes[i]
  OBVIOUS
<1>3. PICK f \in [0..n -> Nat] : f[0] = 0 /\ \A i \in 1..n : f[i] = body[<<i, f[i - 1]>>]
  <2> HIDE DEF body, n
  <2>1. IsBody(body, n, Nat)
    BY <1>1 DEF IsBody
  <2>2. \E f \in [0..n -> Nat] : IsLoop(f, n, 0, body)
    BY <1>1, <2>1, LoopExists
  <2> QED
    BY <2>2 DEF IsLoop
<1> HIDE DEF body
<1>4. \A i \in 1..n : f[i] = f[i - 1] + sizes[i]
  <2> TAKE i \in 1..n
  <2>1. i - 1 \in 0..n
    BY <1>1
  <2> QED
    BY <1>2, <1>3, <2>1
<1>5. f = [i \in 0..n |-> IF i = 0 THEN 0 ELSE f[i - 1] + sizes[i]]
  <2>1. \A i \in 0..n : f[i] = IF i = 0 THEN 0 ELSE f[i - 1] + sizes[i]
    BY <1>1, <1>3, <1>4
  <2> QED
    BY <1>3, <2>1
<1>6. \E g : g = [i \in 0..Len(sizes) |-> IF i = 0 THEN 0 ELSE g[i - 1] + sizes[i]]
  BY <1>5
<1>7. SizeOf(sizes) = [i \in 0..Len(sizes) |-> IF i = 0 THEN 0 ELSE SizeOf(sizes)[i - 1] + sizes[i]]
  BY <1>6 DEF SizeOf
<1> DEFINE g == SizeOf(sizes)
<1>8. /\ g[0] = 0 /\ DOMAIN g = 0..n /\ g = [i \in 0..n |-> g[i]]
      /\ \A i \in 1..n : g[i] = g[i - 1] + sizes[i]
  <2> DEFINE r == [i \in 0..n |-> IF i = 0 THEN 0 ELSE g[i - 1] + sizes[i]]
  <2>1. g = r
    BY <1>7
  <2>2. DOMAIN r = 0..n /\ \A i \in 0..n : r[i] = IF i = 0 THEN 0 ELSE g[i - 1] + sizes[i]
    OBVIOUS
  <2> HIDE DEF g, r
  <2> QED
    BY <1>1, <2>1, <2>2
<1> HIDE DEF g
<1> DEFINE Numbers == {i \in 0..n : g[i] \in Nat}
<1>9. Numbers = 0..n
  <2>1. 0 \in Numbers /\ Numbers \in SUBSET (0..n)
    BY <1>1, <1>8
  <2>2. ASSUME NEW i \in Numbers, i < n PROVE i + 1 \in Numbers
    <3>1. i \in 0..n /\ i + 1 \in 1..n /\ (i + 1) - 1 = i /\ g[i] \in Nat
      BY <1>1, <2>2
    <3>2. g[i + 1] = g[i] + sizes[i + 1]
      BY <1>8, <3>1
    <3> QED
      BY <1>2, <3>1, <3>2
  <2> HIDE DEF Numbers
  <2> QED
    BY <1>1, <2>1, <2>2, EveryTurn
<1>10. g \in [0..n -> Nat]
  BY <1>8, <1>9
<1> QED
  BY <1>8, <1>10 DEF g

\* The copy of one constant is a segment no longer than the constant.
LEMMA CopyTensorFacts ==
  ASSUME NEW size \in Nat, NEW fd \in Fds \union {INVALID_FD}, NEW offset \in Nat
  PROVE  LET segment == CopyTensor(size, fd, offset)
         IN /\ segment \in Segment
            /\ segment.offset = offset /\ segment.dataSize \in Nat
            /\ segment.dataSize <= size
            /\ segment.offset + segment.dataSize \in Nat
            /\ fd # INVALID_FD /\ size \in 1..SECUREC_MEM_MAX_LEN => segment.fd = fd /\ segment.dataSize = size
  BY BufferAssumption DEF CopyTensor, Segment

\* The recursive function of OffsetAfter exists: each constant follows the one before.
LEMMA OffsetAfterIsLoop ==
  ASSUME NEW sizes \in Seq(Nat), NEW fd \in Fds \union {INVALID_FD}
  PROVE  LET offset == OffsetAfter(sizes, fd)
         IN /\ offset \in [0..Len(sizes) -> Nat]
            /\ offset[0] = 0
            /\ \A i \in 1..Len(sizes) :
                 LET segment == CopyTensor(sizes[i], fd, offset[i - 1])
                 IN offset[i] = segment.offset + segment.dataSize
<1> DEFINE n == Len(sizes)
           End(i, v) == CopyTensor(sizes[i], fd, v).offset + CopyTensor(sizes[i], fd, v).dataSize
           body == [p \in (1..n) \X Nat |-> End(p[1], p[2])]
<1>1. n \in Nat /\ 0 \in Nat /\ \A i \in 1..n : sizes[i] \in Nat
  OBVIOUS
<1>2. \A i \in 1..n, v \in Nat : End(i, v) \in Nat
  BY <1>1, CopyTensorFacts
<1>3. \A i \in 1..n, v \in Nat : body[<<i, v>>] = End(i, v)
  <2> HIDE DEF End
  <2> QED
    OBVIOUS
<1>4. PICK f \in [0..n -> Nat] : f[0] = 0 /\ \A i \in 1..n : f[i] = body[<<i, f[i - 1]>>]
  <2> HIDE DEF body, n, End
  <2>1. IsBody(body, n, Nat)
    BY <1>2, <1>3 DEF IsBody
  <2>2. \E f \in [0..n -> Nat] : IsLoop(f, n, 0, body)
    BY <1>1, <2>1, LoopExists
  <2> QED
    BY <2>2 DEF IsLoop
<1>5. \A i \in 1..n : f[i] = End(i, f[i - 1])
  <2> HIDE DEF body, End
  <2> TAKE i \in 1..n
  <2>1. i - 1 \in 0..n
    BY <1>1
  <2> QED
    BY <1>3, <1>4, <2>1
<1>6. f = [i \in 0..n |-> IF i = 0 THEN 0 ELSE End(i, f[i - 1])]
  <2> HIDE DEF End, n, body
  <2>1. \A i \in 0..n : f[i] = IF i = 0 THEN 0 ELSE End(i, f[i - 1])
    BY <1>1, <1>4, <1>5
  <2> QED
    BY <1>4, <2>1
<1> DEFINE g == OffsetAfter(sizes, fd)
<1>7. g = [i \in 0..n |-> IF i = 0 THEN 0 ELSE End(i, g[i - 1])]
  <2>1. \E h : h = [i \in 0..Len(sizes) |->
                      IF i = 0 THEN 0
                      ELSE LET segment == CopyTensor(sizes[i], fd, h[i - 1])
                           IN segment.offset + segment.dataSize]
    BY <1>6
  <2> QED
    BY <2>1 DEF OffsetAfter
<1>8. /\ g[0] = 0 /\ DOMAIN g = 0..n /\ g = [i \in 0..n |-> g[i]]
      /\ \A i \in 1..n : g[i] = End(i, g[i - 1])
  <2> DEFINE r == [i \in 0..n |-> IF i = 0 THEN 0 ELSE End(i, g[i - 1])]
  <2>1. g = r
    BY <1>7
  <2>2. DOMAIN r = 0..n /\ \A i \in 0..n : r[i] = IF i = 0 THEN 0 ELSE End(i, g[i - 1])
    OBVIOUS
  <2>3. r = [i \in 0..n |-> r[i]]
    OBVIOUS
  <2>4. 0 \in 0..n /\ \A i \in 1..n : i \in 0..n /\ i # 0
    BY <1>1
  <2> HIDE DEF g, r, End, n
  <2>5. DOMAIN g = 0..n /\ \A i \in 0..n : g[i] = IF i = 0 THEN 0 ELSE End(i, g[i - 1])
    BY <2>1, <2>2
  <2> QED
    BY <2>1, <2>3, <2>4, <2>5
<1> HIDE DEF g
<1> DEFINE Numbers == {i \in 0..n : g[i] \in Nat}
<1>9. Numbers = 0..n
  <2>1. 0 \in Numbers /\ Numbers \in SUBSET (0..n)
    BY <1>1, <1>8
  <2>2. ASSUME NEW i \in Numbers, i < n PROVE i + 1 \in Numbers
    <3> HIDE DEF End
    <3>1. i \in 0..n /\ i + 1 \in 1..n /\ (i + 1) - 1 = i /\ g[i] \in Nat
      BY <1>1, <2>2
    <3>2. g[i + 1] = End(i + 1, g[i])
      BY <1>8, <3>1
    <3>3. g[i + 1] \in Nat
      BY <1>2, <3>1, <3>2
    <3> QED
      BY <3>1, <3>3
  <2> HIDE DEF Numbers
  <2> QED
    BY <1>1, <2>1, <2>2, EveryTurn
<1>10. g \in [0..n -> Nat]
  BY <1>8, <1>9
<1> QED
  BY <1>8, <1>10 DEF g

\* The sizes of a graph's constants, and their sum, are numbers.
LEMMA GraphTypes ==
  ASSUME NEW graph \in Graphs
  PROVE  /\ graph.tensors \in Seq(Nat) /\ Len(graph.tensors) \in Nat
         /\ \A i \in 1..Len(graph.tensors) : graph.tensors[i] \in Nat
         /\ TensorSize(graph) \in Nat
<1>1. graph.tensors \in Seq(Nat)
  BY GraphAssumption
<1> QED
  BY <1>1, SizeOfIsSum DEF TensorSize

\* Without a buffer there is nothing to copy.
LEMMA NoConstants ==
  ASSUME NEW graph \in Graphs, TensorSize(graph) = 0
  PROVE  \A i \in 1..Len(graph.tensors) : graph.tensors[i] = 0
<1> DEFINE n == Len(graph.tensors)
           sum == SizeOf(graph.tensors)
<1>1. /\ n \in Nat /\ sum \in [0..n -> Nat] /\ sum[n] = 0
      /\ \A i \in 1..n : graph.tensors[i] \in Nat /\ sum[i] = sum[i - 1] + graph.tensors[i]
  BY GraphTypes, SizeOfIsSum DEF TensorSize
<1> HIDE DEF n, sum
<1>2. \A i \in 1..n : sum[i - 1] \in Nat /\ sum[i - 1] <= sum[i]
  <2> TAKE i \in 1..n
  <2>1. i - 1 \in 0..n
    BY <1>1
  <2>2. sum[i - 1] \in Nat /\ sum[i] = sum[i - 1] + graph.tensors[i] /\ graph.tensors[i] \in Nat
    BY <1>1, <2>1
  <2> QED
    BY <2>2
<1>3. \A i \in 1..n : sum[i] <= sum[n]
  <2>1. \A i, j \in 0..n : i <= j => sum[i] <= sum[j]
    BY <1>1, <1>2, LoopGrows
  <2> QED
    BY <1>1, <2>1
<1> QED
  <2> SUFFICES ASSUME NEW i \in 1..n PROVE graph.tensors[i] = 0
    BY DEF n
  <2>1. sum[i] <= 0 /\ sum[i] = sum[i - 1] + graph.tensors[i] /\ sum[i - 1] \in Nat /\ graph.tensors[i] \in Nat
    BY <1>1, <1>2, <1>3
  <2> QED
    BY <2>1

\* LiteGraph_To_HDIModel gives every constant that memcpy_s can copy a place of
\* its own inside the buffer, though others are skipped.
LEMMA SegmentsFit ==
  ASSUME NEW graph \in Graphs, NEW fd \in Fds
  PROVE  LET s == Segments(graph, fd)
             Stored == {i \in DOMAIN s : graph.tensors[i] \in 1..SECUREC_MEM_MAX_LEN}
         IN /\ \A i \in Stored : /\ s[i].fd = fd /\ s[i].dataSize = graph.tensors[i]
                                 /\ s[i].offset + s[i].dataSize <= TensorSize(graph)
            /\ \A i, j \in Stored : i < j => s[i].offset + s[i].dataSize <= s[j].offset
<1> DEFINE n == Len(graph.tensors)
           sum == SizeOf(graph.tensors)
           offset == OffsetAfter(graph.tensors, fd)
           s == Segments(graph, fd)
<1>0. fd \in Fds \union {INVALID_FD} /\ fd # INVALID_FD /\ graph.tensors \in Seq(Nat)
  BY BufferAssumption, GraphTypes
<1>1. /\ n \in Nat /\ sum \in [0..n -> Nat] /\ sum[0] = 0 /\ TensorSize(graph) = sum[n]
      /\ \A i \in 1..n : graph.tensors[i] \in Nat /\ sum[i] = sum[i - 1] + graph.tensors[i]
  BY GraphTypes, SizeOfIsSum DEF TensorSize
<1>2. /\ offset \in [0..n -> Nat] /\ offset[0] = 0
      /\ \A i \in 1..n :
           offset[i] = CopyTensor(graph.tensors[i], fd, offset[i - 1]).offset
                         + CopyTensor(graph.tensors[i], fd, offset[i - 1]).dataSize
  BY <1>0, OffsetAfterIsLoop
<1>3. DOMAIN s = 1..n /\ \A i \in 1..n : s[i] = CopyTensor(graph.tensors[i], fd, offset[i - 1])
  BY DEF Segments
<1> HIDE DEF n, sum, offset, s
<1>4. \A i \in 1..n :
        /\ i - 1 \in 0..n /\ i \in 0..n /\ offset[i - 1] \in Nat /\ offset[i] \in Nat /\ sum[i - 1] \in Nat
        /\ s[i].offset = offset[i - 1] /\ s[i].offset + s[i].dataSize = offset[i]
        /\ s[i].dataSize \in Nat /\ s[i].dataSize <= graph.tensors[i]
        /\ graph.tensors[i] \in 1..SECUREC_MEM_MAX_LEN => s[i].fd = fd /\ s[i].dataSize = graph.tensors[i]
  <2> TAKE i \in 1..n
  <2>1. i - 1 \in 0..n /\ i \in 0..n
    BY <1>1
  <2>2. offset[i - 1] \in Nat /\ offset[i] \in Nat /\ sum[i - 1] \in Nat /\ graph.tensors[i] \in Nat
    BY <1>1, <1>2, <2>1
  <2> DEFINE size == graph.tensors[i]
             before == offset[i - 1]
             segment == CopyTensor(size, fd, before)
  <2>3. s[i] = segment /\ offset[i] = segment.offset + segment.dataSize
    BY <1>2, <1>3
  <2>4. size \in Nat /\ before \in Nat
    BY <2>2
  <2> HIDE DEF size, before
  <2>5. /\ segment.offset = before /\ segment.dataSize \in Nat /\ segment.dataSize <= size
        /\ size \in 1..SECUREC_MEM_MAX_LEN => segment.fd = fd /\ segment.dataSize = size
    BY <1>0, <2>4, CopyTensorFacts
  <2> HIDE DEF segment
  <2> QED
    BY <2>1, <2>2, <2>3, <2>4, <2>5 DEF size, before
<1>5. \A i \in 1..n : offset[i - 1] <= offset[i] /\ sum[i - 1] <= sum[i]
  <2> TAKE i \in 1..n
  <2>1. sum[i] = sum[i - 1] + graph.tensors[i] /\ graph.tensors[i] \in Nat
    BY <1>1
  <2> QED
    BY <1>4, <2>1
<1>6. /\ \A i, j \in 0..n : i <= j => offset[i] <= offset[j]
      /\ \A i, j \in 0..n : i <= j => sum[i] <= sum[j]
  BY <1>1, <1>2, <1>5, LoopGrows
<1> DEFINE Within == {i \in 0..n : offset[i] <= sum[i]}
<1>7. Within = 0..n
  <2>1. 0 \in Within /\ Within \in SUBSET (0..n)
    BY <1>1, <1>2
  <2>2. ASSUME NEW i \in Within, i < n PROVE i + 1 \in Within
    <3>1. i \in 0..n /\ i + 1 \in 1..n /\ (i + 1) - 1 = i /\ offset[i] <= sum[i]
      BY <1>1, <2>2
    <3> DEFINE k == i + 1
    <3>2. /\ offset[k] = offset[i] + s[k].dataSize /\ s[k].dataSize <= graph.tensors[k]
          /\ sum[k] = sum[i] + graph.tensors[k] /\ graph.tensors[k] \in Nat /\ s[k].dataSize \in Nat
          /\ offset[i] \in Nat /\ sum[i] \in Nat
      BY <1>1, <1>4, <3>1
    <3>3. offset[k] <= sum[k]
      <4> HIDE DEF k
      <4> QED
        BY <3>1, <3>2
    <3> QED
      BY <3>1, <3>3
  <2> HIDE DEF Within
  <2> QED
    BY <1>1, <2>1, <2>2, EveryTurn
<1>8. ASSUME NEW i \in 1..n PROVE offset[i] <= TensorSize(graph)
  <2>1. i \in 0..n /\ n \in 0..n /\ i <= n
    BY <1>1
  <2>2. offset[i] \in Nat /\ offset[n] \in Nat /\ sum[n] \in Nat
    BY <1>1, <1>2, <2>1
  <2>3. offset[i] <= offset[n]
    BY <1>6, <2>1
  <2>4. offset[n] <= sum[n]
    BY <1>7, <2>1
  <2> QED
    BY <1>1, <2>2, <2>3, <2>4
<1>9. ASSUME NEW i \in 1..n, NEW j \in 1..n, i < j PROVE offset[i] <= offset[j - 1]
  <2>1. i \in 0..n /\ j - 1 \in 0..n /\ i <= j - 1
    BY <1>1, <1>9
  <2> QED
    BY <1>6, <2>1
<1>10. \A i \in DOMAIN s : graph.tensors[i] \in 1..SECUREC_MEM_MAX_LEN =>
         /\ s[i].fd = fd /\ s[i].dataSize = graph.tensors[i]
         /\ s[i].offset + s[i].dataSize <= TensorSize(graph)
  BY <1>3, <1>4, <1>8
<1>11. \A i, j \in DOMAIN s : i < j => s[i].offset + s[i].dataSize <= s[j].offset
  BY <1>3, <1>4, <1>9
<1> QED
  BY <1>10, <1>11 DEF s

-----------------------------------------------------------------------------
(* What a step does to the locals of the calls.                             *)

\* The step belongs to the call of t and leaves the others alone.
StepOf(t) ==
  /\ thread' \in [Threads -> Frames]
  /\ \A u \in Threads : u # t => thread'[u] = thread[u]

\* A thread without a call has no locals.
LEMMA IdleFrame ==
  /\ Idle \in Frames
  /\ Idle.pc = "idle" /\ Idle.call = "none" /\ Idle.fd = INVALID_FD /\ Idle.serial = 0
  /\ Idle.addr = nullptr /\ Idle.left = {} /\ Idle.segments = <<>> /\ Idle.length = 0
<1>1. 0 \in 0..MaxBuffers
  BY BufferAssumption
<1>2. <<>> \in Seq(Segment)
  OBVIOUS
<1>3. /\ Idle.pc = "idle" /\ Idle.call = "none" /\ Idle.fd = INVALID_FD /\ Idle.serial = 0
      /\ Idle.addr = nullptr /\ Idle.left = {} /\ Idle.segments = <<>> /\ Idle.length = 0
  BY DEF Idle
<1>4. Idle \in Frames
  <2> DEFINE empty == <<>>
             segments == Seq(Segment)
  <2>1. "idle" \in Pcs /\ "none" \in Calls /\ empty \in segments
    BY <1>2 DEF Pcs, Calls
  <2> HIDE DEF empty, segments
  <2>2. [pc |-> "idle", call |-> "none", length |-> 0, fd |-> INVALID_FD, serial |-> 0,
         addr |-> nullptr, graph |-> NoGraph, segments |-> empty, left |-> {}, answer |-> "none"]
          \in [pc : Pcs, call : Calls, length : Nat, fd : Fds \union {INVALID_FD}, serial : 0..MaxBuffers,
              addr : Addresses \union {nullptr, Foreign}, graph : Graphs \union {NoGraph},
              segments : segments, left : SUBSET Fds, answer : {"none", "model", "refused"}]
    BY <1>1, <2>1
  <2> QED
    BY <2>2 DEF Idle, Frames, empty, segments
<1> QED
  BY <1>3, <1>4

\* All locals of t but where it is and the driver's answer.
SameLocals(t) ==
  LET f == thread[t]
      g == thread'[t]
  IN /\ g.call = f.call /\ g.length = f.length /\ g.fd = f.fd /\ g.serial = f.serial
     /\ g.addr = f.addr /\ g.graph = f.graph /\ g.segments = f.segments /\ g.left = f.left

\* One thread has a new frame.
LEMMA FrameChanges ==
  ASSUME TypeOK, NEW t \in Threads, NEW frame \in Frames, thread' = [thread EXCEPT ![t] = frame]
  PROVE  StepOf(t) /\ thread'[t] = frame
  BY DEF TypeOK, StepOf

\* A thread that goes on keeps its locals.
LEMMA Goes ==
  ASSUME TypeOK, NEW t \in Threads, NEW pc \in Pcs, Goto(t, pc)
  PROVE  StepOf(t) /\ SameLocals(t) /\ thread'[t].pc = pc
<1>1. thread[t] \in Frames
  BY DEF TypeOK
<1> DEFINE frame == [thread[t] EXCEPT !.pc = pc]
<1>2. thread' = [thread EXCEPT ![t] = frame]
  BY DEF Goto
<1>3. /\ frame \in Frames /\ frame.pc = pc /\ frame.call = thread[t].call
      /\ frame.length = thread[t].length /\ frame.fd = thread[t].fd
      /\ frame.serial = thread[t].serial /\ frame.addr = thread[t].addr
      /\ frame.graph = thread[t].graph /\ frame.segments = thread[t].segments
      /\ frame.left = thread[t].left
  BY <1>1 DEF Frames
<1> HIDE DEF frame
<1> QED
  BY <1>2, <1>3, FrameChanges DEF SameLocals

\* A thread that returns has none left.
LEMMA Returns ==
  ASSUME TypeOK, NEW t \in Threads, Return(t)
  PROVE  StepOf(t) /\ thread'[t] = Idle
  BY IdleFrame, FrameChanges DEF Return

\* A call begins with its arguments.
LEMMA Begins ==
  ASSUME TypeOK, NEW t \in Threads, NEW call \in Calls, NEW pc \in Pcs, NEW frame \in Frames,
         Begin(t, call, pc, frame)
  PROVE  /\ StepOf(t) /\ thread[t].pc = "idle"
         /\ thread'[t].pc = pc /\ thread'[t].call = call
         /\ thread'[t].length = frame.length /\ thread'[t].fd = frame.fd
         /\ thread'[t].serial = frame.serial /\ thread'[t].addr = frame.addr
         /\ thread'[t].graph = frame.graph /\ thread'[t].segments = frame.segments
         /\ thread'[t].left = frame.left
<1> DEFINE began == [frame EXCEPT !.pc = pc, !.call = call]
<1>1. thread[t].pc = "idle" /\ thread' = [thread EXCEPT ![t] = began]
  BY DEF Begin
<1>2. /\ began \in Frames /\ began.pc = pc /\ began.call = call
      /\ began.length = frame.length /\ began.fd = frame.fd /\ began.serial = frame.serial
      /\ began.addr = frame.addr /\ began.graph = frame.graph
      /\ began.segments = frame.segments /\ began.left = frame.left
  BY DEF Frames
<1> HIDE DEF began
<1> QED
  BY <1>1, <1>2, FrameChanges

\* The calls that begin with nothing but a length, an address or descriptors.
LEMMA Frames0 ==
  ASSUME NEW length \in Nat, NEW addr \in Addresses \union {nullptr, Foreign},
         NEW left \in SUBSET Fds, NEW graph \in Graphs
  PROVE  /\ [Idle EXCEPT !.length = length] \in Frames
         /\ [Idle EXCEPT !.addr = addr] \in Frames
         /\ [Idle EXCEPT !.left = left, !.length = length] \in Frames
         /\ [Idle EXCEPT !.graph = graph, !.length = length] \in Frames
  BY IdleFrame DEF Frames

\* The steps that change more of their locals than where they are.
LEMMA Grants ==
  ASSUME TypeOK, NEW t \in Threads, NEW fd \in Fds, NEW pc \in Pcs, Grant(t, fd, pc)
  PROVE  LET f == thread[t]
             g == thread'[t]
         IN /\ StepOf(t) /\ g.pc = pc /\ g.fd = fd /\ g.serial = serials + 1
            /\ g.call = f.call /\ g.length = f.length /\ g.addr = f.addr /\ g.graph = f.graph
            /\ g.segments = f.segments /\ g.left = f.left
<1>1. thread[t] \in Frames /\ serials + 1 \in 0..MaxBuffers
  BY BufferAssumption DEF TypeOK, Grant
<1> DEFINE frame == [thread[t] EXCEPT !.fd = fd, !.serial = serials + 1, !.pc = pc]
<1>2. thread' = [thread EXCEPT ![t] = frame]
  BY <1>1 DEF Grant, TypeOK, Frames
<1>3. /\ frame \in Frames /\ frame.pc = pc /\ frame.fd = fd /\ frame.serial = serials + 1
      /\ frame.call = thread[t].call /\ frame.length = thread[t].length /\ frame.addr = thread[t].addr
      /\ frame.graph = thread[t].graph /\ frame.segments = thread[t].segments
      /\ frame.left = thread[t].left
  BY <1>1 DEF Frames
<1> HIDE DEF frame
<1> QED
  BY <1>2, <1>3, FrameChanges

\* The labels a step that sets an address goes to.
LEMMA AddressPcs == "register" \in Pcs /\ "unmap" \in Pcs /\ "next" \in Pcs /\ "~HDIPreparedModel" \in Calls
  BY DEF Pcs, Calls

\* A step that sets the address and goes on keeps the other locals.
PointsAt(t, a, pc) == thread' = [thread EXCEPT ![t].addr = a, ![t].pc = pc]

\* An address is handed to a call.
LEMMA Maps ==
  ASSUME TypeOK, NEW t \in Threads, NEW a \in Addresses, NEW pc \in Pcs,
         PointsAt(t, a, pc)
  PROVE  LET f == thread[t]
             g == thread'[t]
         IN /\ StepOf(t) /\ g.pc = pc /\ g.addr = a
            /\ g.call = f.call /\ g.length = f.length /\ g.fd = f.fd /\ g.serial = f.serial
            /\ g.graph = f.graph /\ g.segments = f.segments /\ g.left = f.left
<1>1. thread[t] \in Frames
  BY DEF TypeOK
<1> DEFINE frame == [thread[t] EXCEPT !.addr = a, !.pc = pc]
<1>2. thread' = [thread EXCEPT ![t] = frame]
  BY <1>1 DEF PointsAt, TypeOK, Frames
<1>3. /\ frame \in Frames /\ frame.pc = pc /\ frame.addr = a
      /\ frame.call = thread[t].call /\ frame.length = thread[t].length
      /\ frame.fd = thread[t].fd /\ frame.serial = thread[t].serial
      /\ frame.graph = thread[t].graph /\ frame.segments = thread[t].segments
      /\ frame.left = thread[t].left
  BY <1>1 DEF Frames
<1> HIDE DEF frame
<1> QED
  BY <1>2, <1>3, FrameChanges

\* A call has looked a descriptor up.
LEMMA Looks ==
  ASSUME TypeOK, NEW t \in Threads, NEW fd \in Fds, NEW serial \in 0..MaxBuffers, NEW pc \in Pcs,
         thread' = [thread EXCEPT ![t].fd = fd, ![t].serial = serial, ![t].pc = pc]
  PROVE  LET f == thread[t]
             g == thread'[t]
         IN /\ StepOf(t) /\ g.pc = pc /\ g.fd = fd /\ g.serial = serial
            /\ g.call = f.call /\ g.length = f.length /\ g.addr = f.addr
            /\ g.graph = f.graph /\ g.segments = f.segments /\ g.left = f.left
<1>1. thread[t] \in Frames
  BY DEF TypeOK
<1> DEFINE frame == [thread[t] EXCEPT !.fd = fd, !.serial = serial, !.pc = pc]
<1>2. thread' = [thread EXCEPT ![t] = frame]
  BY <1>1 DEF TypeOK, Frames
<1>3. /\ frame \in Frames /\ frame.pc = pc /\ frame.fd = fd /\ frame.serial = serial
      /\ frame.call = thread[t].call /\ frame.length = thread[t].length /\ frame.addr = thread[t].addr
      /\ frame.graph = thread[t].graph /\ frame.segments = thread[t].segments
      /\ frame.left = thread[t].left
  BY <1>1 DEF Frames
<1> HIDE DEF frame
<1> QED
  BY <1>2, <1>3, FrameChanges

\* A call takes one of the descriptors it was given.
LEMMA Takes ==
  ASSUME TypeOK, NEW t \in Threads, NEW fd \in Fds, NEW serial \in 0..MaxBuffers,
         thread' = [thread EXCEPT ![t].fd = fd, ![t].serial = serial, ![t].left = @ \ {fd},
                                  ![t].addr = nullptr, ![t].pc = "map"]
  PROVE  LET f == thread[t]
             g == thread'[t]
         IN /\ StepOf(t) /\ g.pc = "map" /\ g.fd = fd /\ g.serial = serial
            /\ g.left = f.left \ {fd} /\ g.addr = nullptr
            /\ g.call = f.call /\ g.length = f.length /\ g.graph = f.graph /\ g.segments = f.segments
<1>1. thread[t] \in Frames /\ "map" \in Pcs
  BY DEF TypeOK, Pcs
<1> DEFINE frame == [thread[t] EXCEPT !.fd = fd, !.serial = serial, !.left = @ \ {fd},
                                      !.addr = nullptr, !.pc = "map"]
<1>2. thread' = [thread EXCEPT ![t] = frame]
  BY <1>1 DEF TypeOK, Frames
<1>3. /\ frame \in Frames /\ frame.pc = "map" /\ frame.fd = fd /\ frame.serial = serial
      /\ frame.left = thread[t].left \ {fd} /\ frame.addr = nullptr
      /\ frame.call = thread[t].call /\ frame.length = thread[t].length
      /\ frame.graph = thread[t].graph /\ frame.segments = thread[t].segments
  BY <1>1 DEF Frames
<1> HIDE DEF frame
<1> QED
  BY <1>2, <1>3, FrameChanges

\* The loop of ExportModelCache ends or takes a descriptor.
LEMMA NextBufferTakes ==
  ASSUME TypeOK, NEW t \in Threads, NextBuffer(t), ~Return(t)
  PROVE  \E fd \in thread[t].left :
           LET f == thread[t]
               g == thread'[t]
           IN /\ StepOf(t) /\ g.pc = "map" /\ g.fd = fd /\ g.serial = allocated[fd]
              /\ g.left = f.left \ {fd} /\ g.addr = nullptr
              /\ g.call = f.call /\ g.length = f.length /\ g.graph = f.graph /\ g.segments = f.segments
<1>1. PICK fd \in thread[t].left :
        thread' = [thread EXCEPT ![t].fd = fd, ![t].serial = allocated[fd], ![t].left = @ \ {fd},
                                 ![t].addr = nullptr, ![t].pc = "map"]
  BY DEF NextBuffer
<1> DEFINE serial == allocated[fd]
<1>2. fd \in Fds /\ serial \in 0..MaxBuffers
  BY DEF Frames, TypeOK
<1>3. thread' = [thread EXCEPT ![t].fd = fd, ![t].serial = serial, ![t].left = @ \ {fd},
                               ![t].addr = nullptr, ![t].pc = "map"]
  BY <1>1
<1> HIDE DEF serial
<1>4. LET f == thread[t]
          g == thread'[t]
      IN /\ StepOf(t) /\ g.pc = "map" /\ g.fd = fd /\ g.serial = serial
         /\ g.left = f.left \ {fd} /\ g.addr = nullptr
         /\ g.call = f.call /\ g.length = f.length /\ g.graph = f.graph /\ g.segments = f.segments
  BY <1>2, <1>3, Takes
<1> QED
  BY <1>4 DEF serial

\* A call has copied the constants.
LEMMA Converts ==
  ASSUME TypeOK, NEW t \in Threads, NEW segments \in Seq(Segment),
         thread' = [thread EXCEPT ![t].segments = segments, ![t].pc = "ask"]
  PROVE  LET f == thread[t]
             g == thread'[t]
         IN /\ StepOf(t) /\ g.pc = "ask" /\ g.segments = segments
            /\ g.call = f.call /\ g.length = f.length /\ g.fd = f.fd /\ g.serial = f.serial
            /\ g.addr = f.addr /\ g.graph = f.graph /\ g.left = f.left
<1>1. thread[t] \in Frames /\ "ask" \in Pcs
  BY DEF TypeOK, Pcs
<1> DEFINE frame == [thread[t] EXCEPT !.segments = segments, !.pc = "ask"]
<1>2. thread' = [thread EXCEPT ![t] = frame]
  BY <1>1 DEF TypeOK, Frames
<1>3. /\ frame \in Frames /\ frame.pc = "ask" /\ frame.segments = segments
      /\ frame.call = thread[t].call /\ frame.length = thread[t].length
      /\ frame.fd = thread[t].fd /\ frame.serial = thread[t].serial /\ frame.addr = thread[t].addr
      /\ frame.graph = thread[t].graph /\ frame.left = thread[t].left
  BY <1>1 DEF Frames
<1> HIDE DEF frame
<1> QED
  BY <1>2, <1>3, FrameChanges

\* A call has heard the driver's answer.
LEMMA Answers ==
  ASSUME TypeOK, NEW t \in Threads, NEW pc \in Pcs, NEW answer \in {"model", "refused"},
         thread' = [thread EXCEPT ![t].answer = answer, ![t].pc = pc]
  PROVE  StepOf(t) /\ SameLocals(t) /\ thread'[t].pc = pc
<1>1. thread[t] \in Frames
  BY DEF TypeOK
<1> DEFINE frame == [thread[t] EXCEPT !.answer = answer, !.pc = pc]
<1>2. thread' = [thread EXCEPT ![t] = frame]
  BY <1>1 DEF TypeOK, Frames
<1>3. /\ frame \in Frames /\ frame.pc = pc /\ frame.call = thread[t].call
      /\ frame.length = thread[t].length /\ frame.fd = thread[t].fd
      /\ frame.serial = thread[t].serial /\ frame.addr = thread[t].addr
      /\ frame.graph = thread[t].graph /\ frame.segments = thread[t].segments
      /\ frame.left = thread[t].left
  BY <1>1 DEF Frames
<1> HIDE DEF frame
<1> QED
  BY <1>2, <1>3, FrameChanges DEF SameLocals

-----------------------------------------------------------------------------
(* The calls begin: what the first frame of each holds.                     *)

Starts(t, call, pc, addr, left) ==
  LET g == thread'[t]
  IN /\ StepOf(t) /\ thread[t].pc = "idle"
     /\ g.call = call /\ g.pc = pc /\ g.addr = addr /\ g.left = left
     /\ g.fd = INVALID_FD /\ g.serial = 0 /\ g.segments = <<>>

\* A call that is given a length.
LEMMA StartsWithLength ==
  ASSUME TypeOK, NEW t \in Threads, NEW call \in Calls, NEW pc \in Pcs, NEW length \in Nat,
         Begin(t, call, pc, [Idle EXCEPT !.length = length])
  PROVE  Starts(t, call, pc, nullptr, {})
<1> DEFINE frame == [Idle EXCEPT !.length = length]
<1>1. /\ frame \in Frames /\ frame.addr = nullptr /\ frame.left = {} /\ frame.fd = INVALID_FD
      /\ frame.serial = 0 /\ frame.segments = <<>>
  BY IdleFrame DEF Frames
<1>2. Begin(t, call, pc, frame)
  OBVIOUS
<1> HIDE DEF frame
<1> QED
  BY <1>1, <1>2, Begins DEF Starts

\* A call that is given an address.
LEMMA StartsWithAddress ==
  ASSUME TypeOK, NEW t \in Threads, NEW call \in Calls, NEW pc \in Pcs,
         NEW a \in Addresses \union {nullptr, Foreign},
         Begin(t, call, pc, [Idle EXCEPT !.addr = a])
  PROVE  Starts(t, call, pc, a, {})
<1> DEFINE frame == [Idle EXCEPT !.addr = a]
<1>1. /\ frame \in Frames /\ frame.addr = a /\ frame.left = {} /\ frame.fd = INVALID_FD
      /\ frame.serial = 0 /\ frame.segments = <<>>
  BY IdleFrame DEF Frames
<1>2. Begin(t, call, pc, frame)
  OBVIOUS
<1> HIDE DEF frame
<1> QED
  BY <1>1, <1>2, Begins DEF Starts

\* A call that is given descriptors.
LEMMA StartsWithFds ==
  ASSUME TypeOK, NEW t \in Threads, NEW call \in Calls, NEW pc \in Pcs, NEW fds \in SUBSET Fds,
         Begin(t, call, pc, [Idle EXCEPT !.left = fds, !.length = 1])
  PROVE  Starts(t, call, pc, nullptr, fds)
<1> DEFINE frame == [Idle EXCEPT !.left = fds, !.length = 1]
<1>1. /\ frame \in Frames /\ frame.addr = nullptr /\ frame.left = fds /\ frame.fd = INVALID_FD
      /\ frame.serial = 0 /\ frame.segments = <<>>
  BY IdleFrame DEF Frames
<1>2. Begin(t, call, pc, frame)
  OBVIOUS
<1> HIDE DEF frame
<1> QED
  BY <1>1, <1>2, Begins DEF Starts

\* A call that is given a graph.
LEMMA StartsWithGraph ==
  ASSUME TypeOK, NEW t \in Threads, NEW call \in Calls, NEW pc \in Pcs, NEW graph \in Graphs,
         NEW length \in Nat,
         Begin(t, call, pc, [Idle EXCEPT !.graph = graph, !.length = length])
  PROVE  /\ Starts(t, call, pc, nullptr, {})
         /\ thread'[t].graph = graph /\ thread'[t].length = length
<1> DEFINE frame == [Idle EXCEPT !.graph = graph, !.length = length]
<1>1. /\ frame \in Frames /\ frame.addr = nullptr /\ frame.left = {} /\ frame.fd = INVALID_FD
      /\ frame.serial = 0 /\ frame.segments = <<>> /\ frame.graph = graph /\ frame.length = length
  BY IdleFrame DEF Frames
<1>2. Begin(t, call, pc, frame)
  OBVIOUS
<1> HIDE DEF frame
<1> QED
  BY <1>1, <1>2, Begins DEF Starts

\* Where each call starts.
LEMMA CallsStart ==
  ASSUME TypeOK, NEW t \in Threads
  PROVE  /\ AllocateBuffer(t) => Starts(t, "AllocateBuffer", "allocate", nullptr, {})
         /\ AllocateBufferFd(t) => Starts(t, "AllocateBufferFd", "allocate", nullptr, {})
         /\ ReleaseBuffer(t) => \E a \in held \union {Foreign} :
              Starts(t, "ReleaseBuffer", "lookup", a, {}) /\ held' = held \ {a}
         /\ PrepareModel(t) => \E graph \in Graphs : \E pc \in {"allocate", "convert"} :
              /\ Starts(t, "PrepareModel", pc, nullptr, {})
              /\ thread'[t].graph = graph /\ thread'[t].length = TensorSize(graph)
              /\ pc = "convert" => TensorSize(graph) = 0
         /\ GetSupportedOperation(t) => \E graph \in Graphs : \E pc \in {"allocate", "convert"} :
              /\ Starts(t, "GetSupportedOperation", pc, nullptr, {})
              /\ thread'[t].graph = graph /\ thread'[t].length = TensorSize(graph)
              /\ pc = "convert" => TensorSize(graph) = 0
         /\ PrepareOfflineModel(t) => Starts(t, "PrepareOfflineModel", "allocate", nullptr, {})
         /\ Run(t) => \E a \in held \union {Foreign} :
              Starts(t, "Run", "retrieve", a, {}) /\ held' = held \ {a}
         /\ DestroyPreparedModel(t) => Starts(t, "~HDIPreparedModel", "next", nullptr, {})
<1>1. \A a \in held \union {Foreign} : a \in Addresses \union {nullptr, Foreign}
  BY DEF TypeOK
<1>2. AllocateBuffer(t) => Starts(t, "AllocateBuffer", "allocate", nullptr, {})
  BY StartsWithLength, BufferAssumption DEF AllocateBuffer, Calls, Pcs
<1>3. AllocateBufferFd(t) => Starts(t, "AllocateBufferFd", "allocate", nullptr, {})
  BY StartsWithLength, BufferAssumption DEF AllocateBufferFd, Calls, Pcs
<1>4. ReleaseBuffer(t) => \E a \in held \union {Foreign} :
        Starts(t, "ReleaseBuffer", "lookup", a, {}) /\ held' = held \ {a}
  BY <1>1, StartsWithAddress DEF ReleaseBuffer, Calls, Pcs
<1>5. Run(t) => \E a \in held \union {Foreign} :
        Starts(t, "Run", "retrieve", a, {}) /\ held' = held \ {a}
  BY <1>1, StartsWithAddress DEF Run, Calls, Pcs
<1>6. ASSUME NEW call \in Calls, NEW graph \in Graphs, WithTensors(t, call, graph)
      PROVE  \E pc \in {"allocate", "convert"} :
               /\ Starts(t, call, pc, nullptr, {})
               /\ thread'[t].graph = graph /\ thread'[t].length = TensorSize(graph)
               /\ pc = "convert" => TensorSize(graph) = 0
  <2> DEFINE size == TensorSize(graph)
             pc == IF size > 0 THEN "allocate" ELSE "convert"
  <2>1. size \in Nat
    BY GraphTypes
  <2>2. pc \in Pcs /\ pc \in {"allocate", "convert"} /\ (pc = "convert" => size = 0)
    BY <2>1 DEF Pcs
  <2>3. Begin(t, call, pc, [Idle EXCEPT !.graph = graph, !.length = size])
    BY <1>6 DEF WithTensors
  <2> HIDE DEF pc, size
  <2>4. Starts(t, call, pc, nullptr, {}) /\ thread'[t].graph = graph /\ thread'[t].length = size
    BY <2>1, <2>2, <2>3, StartsWithGraph
  <2> QED
    BY <2>2, <2>4 DEF size
<1>7. "PrepareModel" \in Calls /\ "GetSupportedOperation" \in Calls
  BY DEF Calls
<1>8. PrepareOfflineModel(t) => Starts(t, "PrepareOfflineModel", "allocate", nullptr, {})
  <2> SUFFICES ASSUME PrepareOfflineModel(t) PROVE Starts(t, "PrepareOfflineModel", "allocate", nullptr, {})
    OBVIOUS
  <2>1. PICK graph \in Graphs :
          /\ Len(graph.inputs) >= 2
          /\ Begin(t, "PrepareOfflineModel", "allocate",
                   [Idle EXCEPT !.graph = graph, !.length = graph.tensors[graph.inputs[Len(graph.inputs)]]])
    BY DEF PrepareOfflineModel
  <2> DEFINE k == Len(graph.inputs)
             size == graph.tensors[graph.inputs[k]]
  <2>2. graph.inputs \in Seq(Nat) /\ graph.tensors \in Seq(Nat)
    BY GraphAssumption
  <2>3. k \in DOMAIN graph.inputs
    BY <2>1, <2>2
  <2>4. graph.inputs[k] \in DOMAIN graph.tensors
    BY <2>3, GraphAssumption
  <2>5. size \in Nat
    BY <2>2, <2>4
  <2>6. Begin(t, "PrepareOfflineModel", "allocate", [Idle EXCEPT !.graph = graph, !.length = size])
    BY <2>1
  <2>7. "PrepareOfflineModel" \in Calls /\ "allocate" \in Pcs
    BY DEF Calls, Pcs
  <2> HIDE DEF size
  <2> QED
    BY <2>5, <2>6, <2>7, StartsWithGraph
<1>9. DestroyPreparedModel(t) => Starts(t, "~HDIPreparedModel", "next", nullptr, {})
  <2> SUFFICES ASSUME DestroyPreparedModel(t) PROVE Starts(t, "~HDIPreparedModel", "next", nullptr, {})
    OBVIOUS
  <2>1. Begin(t, "~HDIPreparedModel", "next", Idle)
    BY DEF DestroyPreparedModel
  <2> QED
    BY <2>1, IdleFrame, AddressPcs, Begins DEF Starts
<1>10. PrepareModel(t) => \E graph \in Graphs : \E pc \in {"allocate", "convert"} :
         /\ Starts(t, "PrepareModel", pc, nullptr, {})
         /\ thread'[t].graph = graph /\ thread'[t].length = TensorSize(graph)
         /\ pc = "convert" => TensorSize(graph) = 0
  BY <1>6, <1>7 DEF PrepareModel
<1>11. GetSupportedOperation(t) => \E graph \in Graphs : \E pc \in {"allocate", "convert"} :
         /\ Starts(t, "GetSupportedOperation", pc, nullptr, {})
         /\ thread'[t].graph = graph /\ thread'[t].length = TensorSize(graph)
         /\ pc = "convert" => TensorSize(graph) = 0
  BY <1>6, <1>7 DEF GetSupportedOperation
<1> QED
  BY <1>2, <1>3, <1>4, <1>5, <1>8, <1>9, <1>10, <1>11

-----------------------------------------------------------------------------
(* Types, control and graphs.                                               *)

\* A step concerns the locals of its own thread only.
LEMMA LocalsOfStep ==
  ASSUME Locals, NEW t \in Threads, StepOf(t), LocalsOf(t)'
  PROVE  Locals'
BY DEF Locals, LocalsOf, Control, GraphsCopied, StepOf, ControlOf, GraphOf

\* A thread without a call relies on nothing.
LEMMA IdleLocals ==
  ASSUME NEW t \in Threads, thread'[t] = Idle
  PROVE  LocalsOf(t)'
BY IdleFrame DEF LocalsOf, ControlOf, GraphOf, Paths, SharedCalls

\* A call that has just begun.
LEMMA StartLocals ==
  ASSUME NEW t \in Threads, NEW call \in Calls, NEW pc \in Pcs, NEW a, NEW left,
         Starts(t, call, pc, a, left), call \notin SharedCalls,
         <<call, pc>> \in {<<"AllocateBuffer", "allocate">>, <<"AllocateBufferFd", "allocate">>,
                          <<"ReleaseBuffer", "lookup">>, <<"PrepareOfflineModel", "allocate">>,
                          <<"ExportModelCache", "next">>, <<"Run", "retrieve">>,
                          <<"~HDIPreparedModel", "next">>},
         call # "ExportModelCache" => left = {}
  PROVE  LocalsOf(t)'
BY DEF Starts, LocalsOf, ControlOf, GraphOf, Paths, SharedCalls

\* A call that copies constants has just begun.
LEMMA StartSharedLocals ==
  ASSUME NEW t \in Threads, NEW call \in SharedCalls, NEW pc \in {"allocate", "convert"}, NEW graph \in Graphs,
         Starts(t, call, pc, nullptr, {}), thread'[t].graph = graph,
         thread'[t].length = TensorSize(graph), pc = "convert" => TensorSize(graph) = 0
  PROVE  LocalsOf(t)'
BY DEF Starts, LocalsOf, ControlOf, GraphOf, Paths, SharedCalls

\* What a step of t establishes about the types.
Typed(t) == StepOf(t) /\ TypeOK' /\ LocalsOf(t)'

\* A driver that releases a buffer makes no new one.
LEMMA ReleasedTypes ==
  ASSUME TypeOK, NEW fd, Released(fd)
  PROVE  allocated' \in [Fds -> 0..MaxBuffers] /\ serials' = serials
<1> DEFINE numbers == 0..MaxBuffers
<1>1. 0 \in numbers
  BY BufferAssumption
<1>2. allocated \in [Fds -> numbers]
  BY DEF TypeOK
<1> HIDE DEF numbers
<1>3. allocated' \in [Fds -> numbers] /\ serials' = serials
  BY <1>1, <1>2 DEF Released
<1> QED
  BY <1>3 DEF numbers

\* A buffer more is still within the bound.
LEMMA NewSerial ==
  ASSUME TypeOK, serials < MaxBuffers
  PROVE  serials + 1 \in 1..MaxBuffers /\ serials + 1 \in 0..MaxBuffers
  BY BufferAssumption DEF TypeOK

\* Beginning a call preserves types and locals.
LEMMA CallTypes ==
  ASSUME TypeOK, Locals, NEW t \in Threads, Call(t)
  PROVE  Typed(t)
<1>0. thread[t] \in Frames /\ LocalsOf(t)
  BY DEF TypeOK, Locals, LocalsOf, Control, GraphsCopied
<1>1. CASE AllocateBuffer(t)
  <2>1. Starts(t, "AllocateBuffer", "allocate", nullptr, {})
    BY <1>1, CallsStart
  <2>2. LocalsOf(t)'
    BY <2>1, StartLocals DEF Calls, Pcs, SharedCalls
  <2> QED
    BY <1>1, <2>1, <2>2 DEF Typed, TypeOK, Starts, StepOf, AllocateBuffer, manager, clients, lost
<1>2. CASE AllocateBufferFd(t)
  <2>1. Starts(t, "AllocateBufferFd", "allocate", nullptr, {})
    BY <1>2, CallsStart
  <2>2. LocalsOf(t)'
    BY <2>1, StartLocals DEF Calls, Pcs, SharedCalls
  <2> QED
    BY <1>2, <2>1, <2>2 DEF Typed, TypeOK, Starts, StepOf, AllocateBufferFd, manager, clients, lost
<1>3. CASE ReleaseBuffer(t)
  <2>1. PICK a \in held \union {Foreign} :
          Starts(t, "ReleaseBuffer", "lookup", a, {}) /\ held' = held \ {a}
    BY <1>3, CallsStart
  <2>2. LocalsOf(t)'
    BY <2>1, StartLocals DEF Calls, Pcs, SharedCalls
  <2> QED
    BY <1>3, <2>1, <2>2 DEF Typed, TypeOK, Starts, StepOf, ReleaseBuffer, manager, clients, lost
<1>4. CASE ReleaseBufferFd(t)
  <2>1. StepOf(t) /\ LocalsOf(t)'
    BY <1>0, <1>4 DEF ReleaseBufferFd, StepOf, TypeOK, LocalsOf, ControlOf, GraphOf
  <2>2. allocated' \in [Fds -> 0..MaxBuffers]
    BY <1>4, BufferAssumption DEF ReleaseBufferFd, Released, Kept, TypeOK
  <2> QED
    BY <1>4, <2>1, <2>2 DEF Typed, TypeOK, ReleaseBufferFd, Released, Kept, manager
<1>5. CASE PrepareModel(t)
  <2>1. PICK graph \in Graphs, pc \in {"allocate", "convert"} :
          /\ Starts(t, "PrepareModel", pc, nullptr, {})
          /\ thread'[t].graph = graph /\ thread'[t].length = TensorSize(graph)
          /\ pc = "convert" => TensorSize(graph) = 0
    BY <1>5, CallsStart
  <2>2. LocalsOf(t)'
    BY <2>1, StartSharedLocals DEF SharedCalls
  <2> QED
    BY <1>5, <2>1, <2>2 DEF Typed, TypeOK, Starts, StepOf, PrepareModel, manager, clients, lost
<1>6. CASE GetSupportedOperation(t)
  <2>1. PICK graph \in Graphs, pc \in {"allocate", "convert"} :
          /\ Starts(t, "GetSupportedOperation", pc, nullptr, {})
          /\ thread'[t].graph = graph /\ thread'[t].length = TensorSize(graph)
          /\ pc = "convert" => TensorSize(graph) = 0
    BY <1>6, CallsStart
  <2>2. LocalsOf(t)'
    BY <2>1, StartSharedLocals DEF SharedCalls
  <2> QED
    BY <1>6, <2>1, <2>2 DEF Typed, TypeOK, Starts, StepOf, GetSupportedOperation, manager, clients, lost
<1>7. CASE PrepareOfflineModel(t)
  <2>1. Starts(t, "PrepareOfflineModel", "allocate", nullptr, {})
    BY <1>7, CallsStart
  <2>2. LocalsOf(t)'
    BY <2>1, StartLocals DEF Calls, Pcs, SharedCalls
  <2> QED
    BY <1>7, <2>1, <2>2 DEF Typed, TypeOK, Starts, StepOf, PrepareOfflineModel, manager, clients, lost
<1>8. CASE PrepareModelFromModelCache(t)
  <2>1. StepOf(t) /\ LocalsOf(t)'
    BY <1>0, <1>8 DEF PrepareModelFromModelCache, StepOf, TypeOK, LocalsOf, ControlOf, GraphOf
  <2> QED
    BY <1>8, <2>1 DEF Typed, TypeOK, PrepareModelFromModelCache, manager, lost
<1>9. CASE ExportModelCache(t)
  <2>1. PICK fds \in SUBSET FreeFds :
          /\ Begin(t, "ExportModelCache", "next", [Idle EXCEPT !.left = fds, !.length = 1])
          /\ serials + Cardinality(fds) <= MaxBuffers
          /\ serials' = serials + Cardinality(fds)
          /\ \E number \in [fds -> (serials + 1)..(serials + Cardinality(fds))] :
               allocated' = [fd \in Fds |-> IF fd \in fds THEN number[fd] ELSE allocated[fd]]
          /\ lostFds' = lostFds \union fds
    BY <1>9 DEF ExportModelCache
  <2>2. fds \in SUBSET Fds
    BY DEF FreeFds
  <2>3. Starts(t, "ExportModelCache", "next", nullptr, fds)
    BY <2>1, <2>2, StartsWithFds DEF Calls, Pcs
  <2>4. LocalsOf(t)'
    BY <2>3, StartLocals DEF Calls, Pcs, SharedCalls
  <2> DEFINE size == Cardinality(fds)
  <2>5. size \in Nat
    BY <2>2, BufferAssumption, FS_Subset, FS_CardinalityType
  <2>6. PICK number \in [fds -> (serials + 1)..(serials + size)] :
          allocated' = [fd \in Fds |-> IF fd \in fds THEN number[fd] ELSE allocated[fd]]
    BY <2>1
  <2>7. serials + size <= MaxBuffers /\ serials' = serials + size
    BY <2>1
  <2> HIDE DEF size
  <2>8. serials' \in 0..MaxBuffers /\ (serials + 1)..(serials + size) \subseteq 0..MaxBuffers
    BY <2>5, <2>7, BufferAssumption DEF TypeOK
  <2>9. allocated' \in [Fds -> 0..MaxBuffers]
    BY <2>6, <2>8 DEF TypeOK
  <2> QED
    BY <1>9, <2>1, <2>2, <2>3, <2>4, <2>8, <2>9 DEF Typed, TypeOK, Starts, StepOf, ExportModelCache, manager, clients
<1>10. CASE Run(t)
  <2>1. PICK a \in held \union {Foreign} : Starts(t, "Run", "retrieve", a, {}) /\ held' = held \ {a}
    BY <1>10, CallsStart
  <2>2. LocalsOf(t)'
    BY <2>1, StartLocals DEF Calls, Pcs, SharedCalls
  <2> QED
    BY <1>10, <2>1, <2>2 DEF Typed, TypeOK, Starts, StepOf, Run, manager, clients, lost
<1>11. CASE DestroyPreparedModel(t)
  <2>1. Starts(t, "~HDIPreparedModel", "next", nullptr, {})
    BY <1>11, CallsStart
  <2>2. LocalsOf(t)'
    BY <2>1, StartLocals DEF Calls, Pcs, SharedCalls
  <2> QED
    BY <1>11, <2>1, <2>2 DEF Typed, TypeOK, Starts, StepOf, DestroyPreparedModel, manager, clients, lost
<1> QED
  BY <1>1, <1>2, <1>3, <1>4, <1>5, <1>6, <1>7, <1>8, <1>9, <1>10, <1>11 DEF Call

\* Every copied constant is a segment.
LEMMA SegmentsTyped ==
  ASSUME NEW graph \in Graphs, NEW fd \in Fds \union {INVALID_FD}
  PROVE  Segments(graph, fd) \in Seq(Segment)
<1> DEFINE n == Len(graph.tensors)
           offset == OffsetAfter(graph.tensors, fd)
<1>1. /\ n \in Nat /\ offset \in [0..n -> Nat]
      /\ \A i \in 1..n : graph.tensors[i] \in Nat
  BY GraphTypes, OffsetAfterIsLoop
<1>2. Segments(graph, fd) = [i \in 1..n |-> CopyTensor(graph.tensors[i], fd, offset[i - 1])]
  BY DEF Segments
<1> HIDE DEF n, offset
<1>3. \A i \in 1..n : CopyTensor(graph.tensors[i], fd, offset[i - 1]) \in Segment
  <2> TAKE i \in 1..n
  <2> DEFINE before == offset[i - 1]
             size == graph.tensors[i]
  <2>1. i - 1 \in 0..n
    BY <1>1
  <2>2. before \in Nat /\ size \in Nat
    BY <1>1, <2>1
  <2> HIDE DEF before, size
  <2>3. CopyTensor(size, fd, before) \in Segment
    BY <2>2, CopyTensorFacts
  <2> QED
    BY <2>3 DEF before, size
<1>4. [i \in 1..n |-> CopyTensor(graph.tensors[i], fd, offset[i - 1])] \in [1..n -> Segment]
  BY <1>3
<1> QED
  BY <1>1, <1>2, <1>4

\* What the table holds after an address has been entered.
LEMMA Entering ==
  ASSUME NEW t \in Threads, TypeOK, ControlOf(t), thread[t].pc = "register", thread[t].serial # 0
  PROVE  /\ thread[t].addr \in Addresses
         /\ DOMAIN Entered(t) = DOMAIN memorys \union {thread[t].addr}
         /\ \A a \in DOMAIN memorys : Entered(t)[a] = memorys[a]
         /\ thread[t].addr \notin DOMAIN memorys =>
              Entered(t)[thread[t].addr] = [fd |-> thread[t].fd, serial |-> thread[t].serial]
         /\ \A a \in DOMAIN Entered(t) : Entered(t)[a] \in Entry
<1>1. /\ thread[t].addr \in Addresses /\ thread[t].fd \in Fds /\ thread[t].serial \in 1..MaxBuffers
      /\ \A a \in DOMAIN memorys : memorys[a] \in Entry
  BY BufferAssumption DEF TypeOK, Frames, ControlOf
<1> DEFINE a0 == thread[t].addr
           entry == [fd |-> thread[t].fd, serial |-> thread[t].serial]
<1>2. entry \in Entry
  BY <1>1 DEF Entry
<1>3. Entered(t) = IF a0 \in DOMAIN memorys THEN memorys
                   ELSE [a \in DOMAIN memorys \union {a0} |-> IF a = a0 THEN entry ELSE memorys[a]]
  BY DEF Entered
<1> HIDE DEF a0, entry
<1>4. /\ DOMAIN Entered(t) = DOMAIN memorys \union {a0}
      /\ \A a \in DOMAIN memorys : Entered(t)[a] = memorys[a]
      /\ a0 \notin DOMAIN memorys => Entered(t)[a0] = entry
  BY <1>3
<1>5. \A a \in DOMAIN Entered(t) : Entered(t)[a] \in Entry
  BY <1>1, <1>2, <1>4
<1> QED
  BY <1>1, <1>4, <1>5 DEF a0, entry

\* Every step of a call preserves types and locals.
LEMMA StepTypes ==
  ASSUME TypeOK, Locals, Known, NEW t \in Threads, Step(t)
  PROVE  Typed(t)
<1>0. thread[t] \in Frames /\ ControlOf(t) /\ GraphOf(t)
  BY DEF TypeOK, Locals, Control, GraphsCopied
<1> USE DEF Typed, LocalsOf, manager, clients, lost
<1>1. CASE DriverAllocates(t)
  <2>1. thread[t].pc = "allocate" /\ UNCHANGED <<version, manager, held, prepared, m_addrs, lost>>
    BY <1>1 DEF DriverAllocates, At
  <2>2. CASE Return(t) /\ UNCHANGED <<allocated, serials, heldFds>>
    BY <2>1, <2>2, Returns, IdleLocals DEF TypeOK, StepOf
  <2>3. ASSUME NEW fd \in FreeFds, thread[t].call = "AllocateBufferFd",
               serials < MaxBuffers, serials' = serials + 1,
               allocated' = [allocated EXCEPT ![fd] = serials + 1],
               heldFds' = heldFds \union {fd}, Return(t)
        PROVE  Typed(t)
    <3>1. allocated' \in [Fds -> 0..MaxBuffers] /\ serials' \in 0..MaxBuffers
      BY <2>3, NewSerial DEF TypeOK
    <3> QED
      BY <2>1, <2>3, <3>1, Returns, IdleLocals DEF TypeOK, StepOf, FreeFds
  <2>4. ASSUME NEW fd \in FreeFds, thread[t].call # "AllocateBufferFd", UNCHANGED heldFds,
               Grant(t, fd, IF thread[t].call \in {"AllocateBuffer", "PrepareOfflineModel"}
                            THEN "map" ELSE "convert")
        PROVE  Typed(t)
    <3> DEFINE pc == IF thread[t].call \in {"AllocateBuffer", "PrepareOfflineModel"} THEN "map" ELSE "convert"
    <3>1. fd \in Fds /\ pc \in Pcs /\ Grant(t, fd, pc) /\ serials < MaxBuffers /\ fd # INVALID_FD
      BY <2>4, BufferAssumption DEF FreeFds, Pcs, Grant
    <3>2. allocated' \in [Fds -> 0..MaxBuffers] /\ serials' \in 0..MaxBuffers
      BY <3>1, NewSerial DEF TypeOK, Grant
    <3>3. <<thread[t].call, pc>> \in Paths
      BY <1>0, <2>1, <2>4 DEF ControlOf, Paths, SharedCalls
    <3>4. pc \in {"map", "convert"}
      OBVIOUS
    <3> HIDE DEF pc
    <3>5. LET f == thread[t]
              g == thread'[t]
          IN /\ StepOf(t) /\ g.pc = pc /\ g.fd = fd /\ g.serial = serials + 1
             /\ g.call = f.call /\ g.length = f.length /\ g.addr = f.addr /\ g.graph = f.graph
             /\ g.segments = f.segments /\ g.left = f.left
      BY <3>1, Grants
    <3>6. LocalsOf(t)'
      BY <1>0, <3>1, <3>3, <3>4, <3>5 DEF ControlOf, GraphOf
    <3> QED
      BY <2>1, <2>4, <3>2, <3>5, <3>6 DEF TypeOK, StepOf
  <2> QED
    BY <1>1, <2>2, <2>3, <2>4 DEF DriverAllocates
<1>2. CASE DriverAllocatesNothing(t)
  <2>1. thread[t].pc = "allocate"
    BY <1>2 DEF DriverAllocatesNothing, At
  <2>2. CASE Return(t)
    BY <1>2, <2>2, Returns, IdleLocals DEF DriverAllocatesNothing, TypeOK, StepOf
  <2>3. CASE thread[t].call \in {"AllocateBuffer", "PrepareOfflineModel"} /\ Goto(t, "map")
    <3>1. StepOf(t) /\ SameLocals(t) /\ thread'[t].pc = "map"
      BY <2>3, Goes DEF Pcs
    <3>2. LocalsOf(t)'
      BY <1>0, <2>3, <3>1 DEF ControlOf, GraphOf, SameLocals, Paths, SharedCalls
    <3> QED
      BY <1>2, <3>1, <3>2 DEF DriverAllocatesNothing, TypeOK, StepOf
  <2> QED
    BY <1>2, <2>2, <2>3 DEF DriverAllocatesNothing
<1>3. CASE Map(t)
  <2>1. PICK a \in Addresses \ mapped :
          /\ mapped' = mapped \union {a}
          /\ PointsAt(t, a, "register")
    BY <1>3 DEF Map, PointsAt
  <2>2. LET f == thread[t]
            g == thread'[t]
        IN /\ StepOf(t) /\ g.pc = "register" /\ g.addr = a
           /\ g.call = f.call /\ g.length = f.length /\ g.fd = f.fd /\ g.serial = f.serial
           /\ g.graph = f.graph /\ g.segments = f.segments /\ g.left = f.left
    BY <2>1, Maps, AddressPcs
  <2>3. thread[t].pc = "map" /\ thread[t].fd \in Fds
    BY <1>0, <1>3 DEF Map, At, Frames
  <2>4. LocalsOf(t)'
    <3>1. a \in Addresses
      OBVIOUS
    <3>2. ControlOf(t)'
      BY <1>0, <2>2, <2>3, <3>1 DEF ControlOf, Paths, SharedCalls
    <3>3. GraphOf(t)'
      BY <1>0, <2>2, <2>3 DEF GraphOf
    <3> QED
      BY <3>2, <3>3
  <2> QED
    BY <1>3, <2>1, <2>2, <2>4 DEF Map, TypeOK, StepOf
<1>4. CASE MapFails(t)
  <2>1. thread[t].pc = "map"
    BY <1>4 DEF MapFails, At
  <2>2. CASE Return(t)
    BY <1>4, <2>2, Returns, IdleLocals DEF MapFails, TypeOK, StepOf
  <2>3. CASE thread[t].call # "ExportModelCache" /\ Goto(t, "giveBack")
    <3>1. StepOf(t) /\ SameLocals(t) /\ thread'[t].pc = "giveBack"
      BY <2>3, Goes DEF Pcs
    <3>2. LocalsOf(t)'
      BY <1>0, <2>1, <2>3, <3>1 DEF ControlOf, GraphOf, SameLocals, Paths, SharedCalls
    <3> QED
      BY <1>4, <3>1, <3>2 DEF MapFails, TypeOK, StepOf
  <2> QED
    BY <1>4, <2>2, <2>3 DEF MapFails
<1>5. CASE Register(t)
  <2>1. thread[t].pc = "register" /\ memorys' = Entered(t)
    BY <1>5 DEF Register, At
  <2>2. thread[t].serial # 0 /\ thread[t].fd \in Fds
    BY <1>0, <2>1 DEF Known, KnownOf, ControlOf
  <2>3. /\ thread[t].addr \in Addresses /\ DOMAIN memorys' \subseteq Addresses
        /\ \A a \in DOMAIN memorys' : memorys'[a] \in Entry
    <3>1. \A a \in DOMAIN Entered(t) : Entered(t)[a] \in Entry
      BY <1>0, <2>1, <2>2, Entering
    <3>2. thread[t].addr \in Addresses /\ DOMAIN Entered(t) = DOMAIN memorys \union {thread[t].addr}
      BY <1>0, <2>1, <2>2, Entering
    <3> QED
      BY <2>1, <3>1, <3>2 DEF TypeOK
  <2>4. CASE thread[t].call = "AllocateBuffer" /\ held' = held \union {thread[t].addr} /\ Return(t)
               /\ UNCHANGED m_addrs
    BY <1>5, <2>3, <2>4, Returns, IdleLocals DEF Register, TypeOK, StepOf
  <2>5. ASSUME NEW pc \in {"retrieve", "lookup"}, thread[t].call = "PrepareOfflineModel", Goto(t, pc),
               UNCHANGED <<held, m_addrs>>
        PROVE  Typed(t)
    <3>1. StepOf(t) /\ SameLocals(t) /\ thread'[t].pc = pc
      BY <2>5, Goes DEF Pcs
    <3>2. LocalsOf(t)'
      BY <1>0, <2>3, <2>5, <3>1 DEF ControlOf, GraphOf, SameLocals, Paths, SharedCalls
    <3> QED
      BY <1>5, <2>3, <2>5, <3>1, <3>2 DEF Register, TypeOK, StepOf
  <2>6. CASE thread[t].call = "ExportModelCache" /\ Goto(t, "next") /\ UNCHANGED held
               /\ m_addrs' = [m_addrs EXCEPT ![t] = @ \union {thread[t].addr}]
    <3>1. StepOf(t) /\ SameLocals(t) /\ thread'[t].pc = "next"
      BY <2>6, Goes DEF Pcs
    <3>2. LocalsOf(t)'
      BY <1>0, <2>6, <3>1 DEF ControlOf, GraphOf, SameLocals, Paths, SharedCalls
    <3>3. m_addrs' \in [Threads -> SUBSET Addresses]
      BY <2>3, <2>6 DEF TypeOK
    <3> QED
      BY <1>5, <2>3, <2>6, <3>1, <3>2, <3>3 DEF Register, TypeOK, StepOf
  <2> QED
    BY <1>5, <2>4, <2>5, <2>6 DEF Register
<1>6. CASE GiveBack(t)
  <2>1. allocated' \in [Fds -> 0..MaxBuffers] /\ serials' \in 0..MaxBuffers /\ lostFds' \subseteq Fds
    BY <1>6, BufferAssumption DEF GiveBack, Released, Kept, TypeOK
  <2> QED
    BY <1>6, <2>1, Returns, IdleLocals DEF GiveBack, TypeOK, StepOf
<1>7. CASE NextBuffer(t)
  <2>1. thread[t].pc = "next" /\ thread[t].call = "ExportModelCache"
    BY <1>7 DEF NextBuffer, At
  <2>2. CASE Return(t)
    BY <1>7, <2>2, Returns, IdleLocals DEF NextBuffer, TypeOK, StepOf
  <2>3. CASE ~Return(t)
    <3>1. PICK fd \in thread[t].left :
            LET f == thread[t]
                g == thread'[t]
            IN /\ StepOf(t) /\ g.pc = "map" /\ g.fd = fd /\ g.serial = allocated[fd]
               /\ g.left = f.left \ {fd} /\ g.addr = nullptr
               /\ g.call = f.call /\ g.length = f.length /\ g.graph = f.graph /\ g.segments = f.segments
      BY <1>7, <2>3, NextBufferTakes
    <3>2. LocalsOf(t)'
      BY <1>0, <2>1, <3>1 DEF ControlOf, GraphOf, Paths, SharedCalls
    <3> QED
      BY <1>7, <3>1, <3>2 DEF NextBuffer, TypeOK, StepOf
  <2> QED
    BY <2>2, <2>3
<1>8. CASE Convert(t)
  <2>1. thread[t].pc = "convert" /\ thread[t].call \in SharedCalls /\ thread[t].graph \in Graphs
    BY <1>0, <1>8 DEF Convert, At, ControlOf, Paths
  <2>2. CASE Goto(t, "giveBack")
    <3>1. StepOf(t) /\ SameLocals(t) /\ thread'[t].pc = "giveBack"
      BY <2>2, Goes DEF Pcs
    <3>2. LocalsOf(t)'
      BY <1>0, <2>1, <3>1 DEF ControlOf, GraphOf, SameLocals, Paths, SharedCalls
    <3> QED
      BY <1>8, <3>1, <3>2 DEF Convert, TypeOK, StepOf
  <2>3. CASE thread' = [thread EXCEPT ![t].segments = Segments(thread[t].graph, thread[t].fd), ![t].pc = "ask"]
    <3> DEFINE segments == Segments(thread[t].graph, thread[t].fd)
    <3>1. segments \in Seq(Segment)
      BY <1>0, <2>1, SegmentsTyped DEF Frames
    <3>2. thread' = [thread EXCEPT ![t].segments = segments, ![t].pc = "ask"]
      BY <2>3
    <3> HIDE DEF segments
    <3>3. LET f == thread[t]
              g == thread'[t]
          IN /\ StepOf(t) /\ g.pc = "ask" /\ g.segments = segments
             /\ g.call = f.call /\ g.length = f.length /\ g.fd = f.fd /\ g.serial = f.serial
             /\ g.addr = f.addr /\ g.graph = f.graph /\ g.left = f.left
      BY <3>1, <3>2, Converts
    <3>4. ControlOf(t)'
      BY <1>0, <2>1, <3>3 DEF ControlOf, Paths, SharedCalls
    <3>5. thread'[t].segments = Segments(thread'[t].graph, thread'[t].fd)
      BY <3>3 DEF segments
    <3>6. GraphOf(t)'
      BY <1>0, <2>1, <3>3, <3>5 DEF GraphOf
    <3> QED
      BY <1>8, <3>3, <3>4, <3>6 DEF Convert, TypeOK, StepOf
  <2> QED
    BY <1>8, <2>2, <2>3 DEF Convert
<1>9. CASE Retrieve(t)
  <2>1. thread[t].pc = "retrieve" /\ GetMemory(t, "ask")
    BY <1>9 DEF Retrieve, At
  <2>2. CASE Return(t)
    BY <2>1, <2>2, Returns, IdleLocals DEF GetMemory, TypeOK, StepOf
  <2>3. CASE /\ thread[t].addr \in DOMAIN memorys
             /\ thread' = [thread EXCEPT ![t].fd = memorys[thread[t].addr].fd,
                                         ![t].serial = memorys[thread[t].addr].serial, ![t].pc = "ask"]
    <3> DEFINE fd == memorys[thread[t].addr].fd
               serial == memorys[thread[t].addr].serial
    <3>1. thread[t].addr \in Addresses /\ fd \in Fds /\ serial \in 0..MaxBuffers /\ fd # INVALID_FD
      BY <2>3, BufferAssumption DEF TypeOK, Entry
    <3>2. thread' = [thread EXCEPT ![t].fd = fd, ![t].serial = serial, ![t].pc = "ask"]
      BY <2>3
    <3> HIDE DEF fd, serial
    <3>3. LET f == thread[t]
              g == thread'[t]
          IN /\ StepOf(t) /\ g.pc = "ask" /\ g.fd = fd /\ g.serial = serial
             /\ g.call = f.call /\ g.length = f.length /\ g.addr = f.addr
             /\ g.graph = f.graph /\ g.segments = f.segments /\ g.left = f.left
      BY <3>1, <3>2, Looks DEF Pcs
    <3>4. LocalsOf(t)'
      BY <1>0, <2>1, <3>1, <3>3 DEF ControlOf, GraphOf, Paths, SharedCalls
    <3> QED
      BY <2>1, <3>3, <3>4 DEF GetMemory, TypeOK, StepOf
  <2> QED
    BY <2>1, <2>2, <2>3 DEF GetMemory
<1>10. CASE Lookup(t)
  <2>1. thread[t].pc = "lookup" /\ GetMemory(t, "release")
    BY <1>10 DEF Lookup, At
  <2>2. CASE Return(t)
    BY <2>1, <2>2, Returns, IdleLocals DEF GetMemory, TypeOK, StepOf
  <2>3. CASE /\ thread[t].addr \in DOMAIN memorys
             /\ thread' = [thread EXCEPT ![t].fd = memorys[thread[t].addr].fd,
                                         ![t].serial = memorys[thread[t].addr].serial, ![t].pc = "release"]
    <3> DEFINE fd == memorys[thread[t].addr].fd
               serial == memorys[thread[t].addr].serial
    <3>1. thread[t].addr \in Addresses /\ fd \in Fds /\ serial \in 0..MaxBuffers /\ fd # INVALID_FD
      BY <2>3, BufferAssumption DEF TypeOK, Entry
    <3>2. thread' = [thread EXCEPT ![t].fd = fd, ![t].serial = serial, ![t].pc = "release"]
      BY <2>3
    <3> HIDE DEF fd, serial
    <3>3. LET f == thread[t]
              g == thread'[t]
          IN /\ StepOf(t) /\ g.pc = "release" /\ g.fd = fd /\ g.serial = serial
             /\ g.call = f.call /\ g.length = f.length /\ g.addr = f.addr
             /\ g.graph = f.graph /\ g.segments = f.segments /\ g.left = f.left
      BY <3>1, <3>2, Looks DEF Pcs
    <3>4. LocalsOf(t)'
      BY <1>0, <2>1, <3>1, <3>3 DEF ControlOf, GraphOf, Paths, SharedCalls
    <3> QED
      BY <2>1, <3>3, <3>4 DEF GetMemory, TypeOK, StepOf
  <2> QED
    BY <2>1, <2>2, <2>3 DEF GetMemory
<1>11. CASE DriverAnswers(t)
  <2> DEFINE pc == IF thread[t].call = "PrepareOfflineModel" THEN "lookup" ELSE "releaseShared"
  <2>1. thread[t].pc = "ask" /\ thread[t].call # "Run"
    BY <1>11 DEF DriverAnswers, At
  <2>2. PICK answer \in {"model", "refused"} : thread' = [thread EXCEPT ![t].answer = answer, ![t].pc = pc]
    BY <1>11 DEF DriverAnswers
  <2>3. /\ pc \in Pcs /\ pc \in {"lookup", "releaseShared"} /\ <<thread[t].call, pc>> \in Paths
    BY <1>0, <2>1 DEF Pcs, ControlOf, Paths, SharedCalls
  <2> HIDE DEF pc
  <2>4. StepOf(t) /\ SameLocals(t) /\ thread'[t].pc = pc
    BY <2>2, <2>3, Answers
  <2>5. LocalsOf(t)'
    BY <1>0, <2>1, <2>3, <2>4 DEF ControlOf, GraphOf, SameLocals
  <2> QED
    BY <1>11, <2>4, <2>5 DEF DriverAnswers, TypeOK, StepOf
<1>12. CASE DriverRuns(t)
  <2>1. thread[t].addr \in Addresses
    BY <1>0, <1>12 DEF DriverRuns, At, ControlOf
  <2> QED
    BY <1>12, <2>1, Returns, IdleLocals DEF DriverRuns, TypeOK, StepOf
<1>13. CASE ReleaseSharedBuffer(t)
  <2>1. allocated' \in [Fds -> 0..MaxBuffers] /\ serials' \in 0..MaxBuffers /\ lostFds' \subseteq Fds
    BY <1>13, BufferAssumption DEF ReleaseSharedBuffer, Released, Kept, TypeOK
  <2>2. Return(t) /\ prepared' \subseteq Threads
    BY <1>13 DEF ReleaseSharedBuffer, Answered, TypeOK
  <2> QED
    BY <1>13, <2>1, <2>2, Returns, IdleLocals DEF ReleaseSharedBuffer, TypeOK, StepOf
<1>14. CASE DriverReleases(t)
  <2>1. thread[t].pc = "release" /\ thread[t].addr \in Addresses
    BY <1>0, <1>14 DEF DriverReleases, At, ControlOf
  <2>2. CASE Released(thread[t].fd) /\ Goto(t, "unmap") /\ UNCHANGED <<held, lostAddresses>>
    <3>1. StepOf(t) /\ SameLocals(t) /\ thread'[t].pc = "unmap"
      BY <2>2, Goes DEF Pcs
    <3>2. LocalsOf(t)'
      BY <1>0, <2>1, <3>1 DEF ControlOf, GraphOf, SameLocals, Paths, SharedCalls
    <3>3. allocated' \in [Fds -> 0..MaxBuffers]
      BY <2>2, ReleasedTypes
    <3> QED
      BY <1>14, <2>2, <3>1, <3>2, <3>3 DEF DriverReleases, Released, TypeOK, StepOf
  <2>3. CASE UNCHANGED <<allocated, serials>> /\ Return(t) /\ LeftWith(t, thread[t].call = "ReleaseBuffer")
    <3>1. held' \subseteq Addresses /\ lostAddresses' \subseteq Addresses
      BY <2>1, <2>3 DEF LeftWith, TypeOK
    <3> QED
      BY <1>14, <2>3, <3>1, Returns, IdleLocals DEF DriverReleases, TypeOK, StepOf
  <2> QED
    BY <1>14, <2>2, <2>3 DEF DriverReleases
<1>15. CASE NextAddress(t)
  <2>1. thread[t].pc = "next" /\ thread[t].call = "~HDIPreparedModel"
    BY <1>15 DEF NextAddress, At
  <2>2. CASE Return(t) /\ UNCHANGED m_addrs
    BY <1>15, <2>2, Returns, IdleLocals DEF NextAddress, TypeOK, StepOf
  <2>3. ASSUME NEW a \in m_addrs[t], PointsAt(t, a, "unmap"),
               m_addrs' = [m_addrs EXCEPT ![t] = @ \ {a}]
        PROVE  Typed(t)
    <3>1. a \in Addresses /\ m_addrs' \in [Threads -> SUBSET Addresses]
      BY <2>3 DEF TypeOK
    <3>2. LET f == thread[t]
              g == thread'[t]
          IN /\ StepOf(t) /\ g.pc = "unmap" /\ g.addr = a
             /\ g.call = f.call /\ g.length = f.length /\ g.fd = f.fd /\ g.serial = f.serial
             /\ g.graph = f.graph /\ g.segments = f.segments /\ g.left = f.left
      BY <2>3, <3>1, Maps, AddressPcs
    <3>3. LocalsOf(t)'
      BY <1>0, <2>1, <3>1, <3>2 DEF ControlOf, GraphOf, Paths, SharedCalls
    <3> QED
      BY <1>15, <3>1, <3>2, <3>3 DEF NextAddress, TypeOK, StepOf
  <2> QED
    BY <1>15, <2>2, <2>3 DEF NextAddress, PointsAt
<1>16. CASE UnMap(t)
  <2>1. thread[t].pc = "unmap" /\ Goto(t, "erase")
    BY <1>16 DEF UnMap, At
  <2>2. StepOf(t) /\ SameLocals(t) /\ thread'[t].pc = "erase"
    BY <2>1, Goes DEF Pcs
  <2>3. LocalsOf(t)'
    BY <1>0, <2>1, <2>2 DEF ControlOf, GraphOf, SameLocals, Paths, SharedCalls
  <2> QED
    BY <1>16, <2>2, <2>3 DEF UnMap, TypeOK, StepOf
<1>17. CASE UnMapFails(t)
  <2>1. thread[t].pc = "unmap" /\ thread[t].addr \in Addresses
    BY <1>0, <1>17 DEF UnMapFails, At, ControlOf
  <2>2. held' \subseteq Addresses /\ lostAddresses' \subseteq Addresses
    BY <1>17, <2>1 DEF UnMapFails, LeftWith, TypeOK
  <2>3. CASE Return(t)
    BY <1>17, <2>2, <2>3, Returns, IdleLocals DEF UnMapFails, TypeOK, StepOf
  <2>4. CASE thread[t].call = "~HDIPreparedModel" /\ Goto(t, "next")
    <3>1. StepOf(t) /\ SameLocals(t) /\ thread'[t].pc = "next"
      BY <2>4, Goes DEF Pcs
    <3>2. LocalsOf(t)'
      BY <1>0, <2>4, <3>1 DEF ControlOf, GraphOf, SameLocals, Paths, SharedCalls
    <3> QED
      BY <1>17, <2>2, <3>1, <3>2 DEF UnMapFails, TypeOK, StepOf
  <2> QED
    BY <1>17, <2>3, <2>4 DEF UnMapFails
<1>18. CASE Erase(t)
  <2>1. thread[t].pc = "erase"
        /\ memorys' = [a \in DOMAIN memorys \ {thread[t].addr} |-> memorys[a]]
    BY <1>18 DEF Erase, At
  <2>2. DOMAIN memorys' \subseteq Addresses /\ \A a \in DOMAIN memorys' : memorys'[a] \in Entry
    BY <2>1 DEF TypeOK
  <2>3. thread[t].call \in {"ReleaseBuffer", "PrepareOfflineModel", "~HDIPreparedModel"}
    BY <1>0, <2>1 DEF ControlOf, Paths, SharedCalls
  <2>4. CASE thread[t].call # "~HDIPreparedModel"
    <3>1. Return(t) /\ prepared' \subseteq Threads
      BY <1>18, <2>3, <2>4 DEF Erase, Answered, TypeOK
    <3> QED
      BY <1>18, <2>2, <3>1, Returns, IdleLocals DEF Erase, TypeOK, StepOf
  <2>5. CASE thread[t].call = "~HDIPreparedModel"
    <3>1. Goto(t, "next") /\ UNCHANGED prepared
      BY <1>18, <2>5 DEF Erase
    <3>2. StepOf(t) /\ SameLocals(t) /\ thread'[t].pc = "next"
      BY <3>1, Goes DEF Pcs
    <3>3. LocalsOf(t)'
      BY <1>0, <2>5, <3>2 DEF ControlOf, GraphOf, SameLocals, Paths, SharedCalls
    <3> QED
      BY <1>18, <2>2, <3>1, <3>2, <3>3 DEF Erase, TypeOK, StepOf
  <2> QED
    BY <2>4, <2>5
<1> QED
  BY <1>1, <1>2, <1>3, <1>4, <1>5, <1>6, <1>7, <1>8, <1>9, <1>10, <1>11, <1>12, <1>13, <1>14, <1>15,
     <1>16, <1>17, <1>18 DEF Step

-----------------------------------------------------------------------------
(* The addresses.                                                           *)

\* The step of t does not concern who has which address.
Elsewhere(t) ==
  /\ UNCHANGED <<mapped, memorys, mtx, held, m_addrs, lostAddresses>>
  /\ UsesEntry(t)' <=> UsesEntry(t)
  /\ At(t, "register")' <=> At(t, "register")
  /\ At(t, "erase")' <=> At(t, "erase")
  /\ UsesEntry(t) \/ At(t, "register") \/ At(t, "erase") => thread'[t].addr = thread[t].addr

\* What a step of t leaves as it was in the other calls.
LEMMA OthersStay ==
  ASSUME NEW t \in Threads, StepOf(t)
  PROVE  \A u \in Threads : u # t =>
           /\ thread'[u] = thread[u]
           /\ UsesEntry(u)' <=> UsesEntry(u)
           /\ HasBuffer(u)' <=> HasBuffer(u)
           /\ \A pc : At(u, pc)' <=> At(u, pc)
  BY DEF StepOf, UsesEntry, HasBuffer, At

\* A step that touches no address leaves the addresses where they are.
LEMMA PlacesElsewhere ==
  ASSUME Places, NEW t \in Threads, StepOf(t), Elsewhere(t)
  PROVE  Places'
<1>1. \A u \in Threads : /\ UsesEntry(u)' <=> UsesEntry(u)
                         /\ At(u, "register")' <=> At(u, "register")
                         /\ At(u, "erase")' <=> At(u, "erase")
                         /\ UsesEntry(u) \/ At(u, "register") \/ At(u, "erase") =>
                              thread'[u].addr = thread[u].addr
  BY OthersStay DEF Elsewhere
<1>2. UNCHANGED <<mapped, memorys, mtx, held, m_addrs, lostAddresses>>
  BY DEF Elsewhere
<1>3. Apart'
  BY <1>1, <1>2 DEF Places, Apart
<1>4. EveryEntryIsKept'
  BY <1>1, <1>2 DEF Places, EveryEntryIsKept
<1>5. \A a : (Erasing(a)' <=> Erasing(a)) /\ (Registering(a)' <=> Registering(a))
  BY <1>1 DEF Erasing, Registering
<1>6. Mappings'
  BY <1>1, <1>2, <1>5 DEF Places, Mappings
<1> QED
  BY <1>3, <1>4, <1>6 DEF Places

\* A client's address goes into the call of t.
LEMMA TakingFromClient ==
  ASSUME Places, TypeOK, NEW t \in Threads, StepOf(t), NEW a \in held,
         ~UsesEntry(t), ~At(t, "register"), ~At(t, "register")', ~At(t, "erase"), ~At(t, "erase")',
         UsesEntry(t)', thread'[t].addr = a, held' = held \ {a},
         UNCHANGED <<mapped, memorys, mtx, m_addrs, lostAddresses>>
  PROVE  Places'
<1>1. \A u \in Threads : u # t =>
        /\ UsesEntry(u)' <=> UsesEntry(u)
        /\ At(u, "register")' <=> At(u, "register")
        /\ At(u, "erase")' <=> At(u, "erase")
        /\ thread'[u].addr = thread[u].addr
  BY OthersStay
<1>2. a \in DOMAIN memorys /\ a \notin lostAddresses /\ \A u \in Threads : a \notin m_addrs[u]
  BY DEF Places, Apart
<1>3. \A u \in Threads : UsesEntry(u) => thread[u].addr # a
  BY DEF Places, Apart
<1>4. Apart'
  BY <1>1, <1>2, <1>3 DEF Places, Apart
<1>5. EveryEntryIsKept'
  BY <1>1, <1>2, <1>3 DEF Places, EveryEntryIsKept
<1>6. \A b : (Erasing(b)' <=> Erasing(b)) /\ (Registering(b)' <=> Registering(b))
  BY <1>1 DEF Erasing, Registering
<1>7. Mappings'
  BY <1>1, <1>6 DEF Places, Mappings
<1> QED
  BY <1>4, <1>5, <1>7 DEF Places

\* The call of t hands its address to the clients, or loses it.
LEMMA HandingOver ==
  ASSUME Places, TypeOK, NEW t \in Threads, StepOf(t), UsesEntry(t), ~UsesEntry(t)',
         ~At(t, "register"), ~At(t, "register")', ~At(t, "erase"), ~At(t, "erase")',
         \/ held' = held \union {thread[t].addr} /\ lostAddresses' = lostAddresses
         \/ held' = held /\ lostAddresses' = lostAddresses \union {thread[t].addr},
         UNCHANGED <<mapped, memorys, mtx, m_addrs>>
  PROVE  Places'
<1>1. \A u \in Threads : u # t =>
        /\ UsesEntry(u)' <=> UsesEntry(u)
        /\ At(u, "register")' <=> At(u, "register")
        /\ At(u, "erase")' <=> At(u, "erase")
        /\ thread'[u].addr = thread[u].addr
  BY OthersStay
<1>2. /\ thread[t].addr \in DOMAIN memorys \ (held \union lostAddresses)
      /\ \A u \in Threads : thread[t].addr \notin m_addrs[u]
      /\ \A u \in Threads : u # t /\ UsesEntry(u) => thread[u].addr # thread[t].addr
  BY DEF Places, Apart
<1>3. Apart'
  BY <1>1, <1>2 DEF Places, Apart
<1>4. EveryEntryIsKept'
  BY <1>1, <1>2 DEF Places, EveryEntryIsKept
<1>5. \A b : (Erasing(b)' <=> Erasing(b)) /\ (Registering(b)' <=> Registering(b))
  BY <1>1 DEF Erasing, Registering
<1>6. Mappings'
  BY <1>1, <1>5 DEF Places, Mappings
<1> QED
  BY <1>3, <1>4, <1>6 DEF Places

\* A call that begins without an address.
LEMMA StartsElsewhere ==
  ASSUME NEW t \in Threads, NEW call, NEW pc \in {"allocate", "convert", "next", "lookup", "retrieve"},
         NEW a \in {nullptr, Foreign}, NEW left,
         Starts(t, call, pc, a, left), UNCHANGED <<mapped, memorys, mtx, held, m_addrs, lostAddresses>>
  PROVE  Elsewhere(t)
  BY BufferAssumption DEF Elsewhere, Starts, UsesEntry, At

\* Beginning a call leaves each address in one place.
LEMMA CallPlaces ==
  ASSUME TypeOK, Locals, Places, NEW t \in Threads, Call(t)
  PROVE  Places'
<1>0. StepOf(t)
  BY CallTypes DEF Typed
<1> USE DEF manager, clients, lost
<1>1. CASE AllocateBuffer(t)
  <2>1. Starts(t, "AllocateBuffer", "allocate", nullptr, {})
    BY <1>1, CallsStart
  <2> QED
    BY <1>0, <1>1, <2>1, StartsElsewhere, PlacesElsewhere DEF AllocateBuffer
<1>2. CASE AllocateBufferFd(t)
  <2>1. Starts(t, "AllocateBufferFd", "allocate", nullptr, {})
    BY <1>2, CallsStart
  <2> QED
    BY <1>0, <1>2, <2>1, StartsElsewhere, PlacesElsewhere DEF AllocateBufferFd
<1>3. ASSUME NEW call, NEW pc \in {"lookup", "retrieve"}, NEW a \in held \union {Foreign},
             Starts(t, call, pc, a, {}), held' = held \ {a},
             UNCHANGED <<mapped, memorys, mtx, m_addrs, lostAddresses>>
      PROVE  Places'
  <2>1. CASE a = Foreign
    <3>1. held' = held
      BY <1>3, <2>1, BufferAssumption DEF TypeOK
    <3> QED
      BY <1>0, <1>3, <2>1, <3>1, StartsElsewhere, PlacesElsewhere
  <2>2. CASE a \in held
    <3>1. ~UsesEntry(t) /\ ~At(t, "register") /\ ~At(t, "register")' /\ ~At(t, "erase") /\ ~At(t, "erase")'
      BY <1>3 DEF Starts, UsesEntry, At
    <3>2. UsesEntry(t)' /\ thread'[t].addr = a
      BY <1>3, <2>2 DEF Starts, UsesEntry, TypeOK
    <3> QED
      BY <1>0, <1>3, <2>2, <3>1, <3>2, TakingFromClient
  <2> QED
    BY <2>1, <2>2
<1>4. CASE ReleaseBuffer(t)
  BY <1>3, <1>4, CallsStart DEF ReleaseBuffer
<1>5. CASE ReleaseBufferFd(t)
  BY <1>0, <1>5, PlacesElsewhere DEF ReleaseBufferFd, Elsewhere, UsesEntry, At
<1>6. CASE PrepareModel(t)
  <2>1. PICK pc \in {"allocate", "convert"} : Starts(t, "PrepareModel", pc, nullptr, {})
    BY <1>6, CallsStart
  <2> QED
    BY <1>0, <1>6, <2>1, StartsElsewhere, PlacesElsewhere DEF PrepareModel
<1>7. CASE GetSupportedOperation(t)
  <2>1. PICK pc \in {"allocate", "convert"} : Starts(t, "GetSupportedOperation", pc, nullptr, {})
    BY <1>7, CallsStart
  <2> QED
    BY <1>0, <1>7, <2>1, StartsElsewhere, PlacesElsewhere DEF GetSupportedOperation
<1>8. CASE PrepareOfflineModel(t)
  <2>1. Starts(t, "PrepareOfflineModel", "allocate", nullptr, {})
    BY <1>8, CallsStart
  <2> QED
    BY <1>0, <1>8, <2>1, StartsElsewhere, PlacesElsewhere DEF PrepareOfflineModel
<1>9. CASE PrepareModelFromModelCache(t)
  BY <1>0, <1>9, PlacesElsewhere DEF PrepareModelFromModelCache, Elsewhere, UsesEntry, At
<1>10. CASE ExportModelCache(t)
  <2>1. PICK fds \in SUBSET FreeFds :
          Begin(t, "ExportModelCache", "next", [Idle EXCEPT !.left = fds, !.length = 1])
    BY <1>10 DEF ExportModelCache
  <2>2. Starts(t, "ExportModelCache", "next", nullptr, fds)
    BY <2>1, StartsWithFds DEF Calls, Pcs, FreeFds
  <2> QED
    BY <1>0, <1>10, <2>2, StartsElsewhere, PlacesElsewhere DEF ExportModelCache
<1>11. CASE Run(t)
  BY <1>3, <1>11, CallsStart DEF Run
<1>12. CASE DestroyPreparedModel(t)
  <2>1. Starts(t, "~HDIPreparedModel", "next", nullptr, {})
    BY <1>12, CallsStart
  <2> QED
    BY <1>0, <1>12, <2>1, StartsElsewhere, PlacesElsewhere DEF DestroyPreparedModel
<1> QED
  BY <1>1, <1>2, <1>4, <1>5, <1>6, <1>7, <1>8, <1>9, <1>10, <1>11, <1>12 DEF Call

\* A call that returns without an entry of the table, or goes on with it.
LEMMA ReturnsElsewhere ==
  ASSUME TypeOK, NEW t \in Threads, Return(t), ~UsesEntry(t), ~At(t, "register"), ~At(t, "erase"),
         UNCHANGED <<mapped, memorys, mtx, held, m_addrs, lostAddresses>>
  PROVE  Elsewhere(t)
  BY Returns, IdleFrame DEF Elsewhere, UsesEntry, At

\* Steps between which a call keeps its address, or has none.
LEMMA GoesElsewhere ==
  ASSUME TypeOK, NEW t \in Threads, NEW pc \in Pcs \ {"register", "erase"},
         thread[t].pc \notin {"register", "erase"},
         thread'[t].pc = pc, thread'[t].addr = thread[t].addr,
         \/ /\ pc \in {"retrieve", "lookup", "ask", "release", "unmap"}
            /\ thread[t].pc \in {"retrieve", "lookup", "ask", "release", "unmap"}
         \/ thread[t].addr \notin Addresses
         \/ /\ pc \notin {"retrieve", "lookup", "ask", "release", "unmap"}
            /\ thread[t].pc \notin {"retrieve", "lookup", "ask", "release", "unmap"},
         UNCHANGED <<mapped, memorys, mtx, held, m_addrs, lostAddresses>>
  PROVE  Elsewhere(t)
  BY DEF Elsewhere, UsesEntry, At

\* mmap runs without the mutex: the address may still have the entry of the
\* mapping that UnMapMemory has just ended.
LEMMA MapPlaces ==
  ASSUME TypeOK, Locals, Places, NEW t \in Threads, Map(t), StepOf(t)
  PROVE  Places'
<1>1. PICK a \in Addresses \ mapped :
        /\ mapped' = mapped \union {a}
        /\ PointsAt(t, a, "register")
  BY DEF Map, PointsAt
<1>2. thread'[t].pc = "register" /\ thread'[t].addr = a
  BY <1>1, Maps, AddressPcs
<1>3. thread[t].pc = "map" /\ UNCHANGED <<memorys, mtx, held, m_addrs, lostAddresses>>
  BY DEF Map, At, clients, lost
<1>4. /\ ~UsesEntry(t) /\ ~UsesEntry(t)' /\ ~At(t, "register") /\ At(t, "register")'
      /\ ~At(t, "erase") /\ ~At(t, "erase")'
  BY <1>2, <1>3 DEF UsesEntry, At
<1>5. \A u \in Threads : u # t =>
        /\ UsesEntry(u)' <=> UsesEntry(u)
        /\ At(u, "register")' <=> At(u, "register")
        /\ At(u, "erase")' <=> At(u, "erase")
        /\ thread'[u].addr = thread[u].addr
  BY OthersStay
<1>6. mapped' = mapped \union {a} /\ a \notin mapped
  BY <1>1
<1> HIDE <1>1
<1>7. Apart'
  BY <1>3, <1>4, <1>5 DEF Places, Apart
<1>8. EveryEntryIsKept'
  BY <1>3, <1>4, <1>5 DEF Places, EveryEntryIsKept
<1>9. \A b : (Erasing(b)' <=> Erasing(b)) /\ (Registering(b)' <=> Registering(b) \/ b = a)
  BY <1>2, <1>4, <1>5 DEF Erasing, Registering
<1>10. Mappings'
  <2>1. \A u \in Threads : At(u, "erase")' <=> mtx' = u
    BY <1>3, <1>4, <1>5 DEF Places, Mappings
  <2>2. \A u \in Threads : At(u, "register")' => thread'[u].addr \in mapped'
    BY <1>2, <1>5, <1>6 DEF Places, Mappings
  <2>3. \A u, v \in Threads : u # v /\ At(u, "register")' /\ At(v, "register")' => thread'[u].addr # thread'[v].addr
    BY <1>2, <1>5, <1>6 DEF Places, Mappings
  <2>4. \A b \in DOMAIN memorys' : (b \in mapped' /\ ~Registering(b)') \/ Erasing(b)'
    BY <1>3, <1>6, <1>9 DEF Places, Mappings
  <2>5. \A b \in mapped' : (b \in DOMAIN memorys' /\ ~Erasing(b)') \/ Registering(b)'
    BY <1>3, <1>6, <1>9 DEF Places, Mappings
  <2> QED
    BY <2>1, <2>2, <2>3, <2>4, <2>5 DEF Mappings
<1> QED
  BY <1>7, <1>8, <1>10 DEF Places

\* Nobody is between munmap and the end of UnMapMemory when MapMemory has the
\* mutex, so emplace always enters the buffer.
LEMMA RegisterEnters ==
  ASSUME TypeOK, Locals, Places, Known, NEW t \in Threads, Register(t)
  PROVE  /\ thread[t].addr \in Addresses \ DOMAIN memorys
         /\ DOMAIN memorys' = DOMAIN memorys \union {thread[t].addr}
         /\ \A a \in DOMAIN memorys : memorys'[a] = memorys[a]
         /\ memorys'[thread[t].addr] = [fd |-> thread[t].fd, serial |-> thread[t].serial]
         /\ \A a : ~Erasing(a)
<1>1. thread[t].pc = "register" /\ mtx = Nobody /\ memorys' = Entered(t) /\ ControlOf(t)
  BY DEF Register, At, Locals, Control
<1>2. thread[t].serial # 0
  BY <1>1 DEF Known, KnownOf, ControlOf
<1>3. \A a : ~Erasing(a)
  BY <1>1, BufferAssumption DEF Places, Mappings, Erasing
<1>4. thread[t].addr \notin DOMAIN memorys
  BY <1>1, <1>3 DEF Places, Mappings, Registering, At
<1>5. /\ thread[t].addr \in Addresses
      /\ DOMAIN Entered(t) = DOMAIN memorys \union {thread[t].addr}
      /\ \A a \in DOMAIN memorys : Entered(t)[a] = memorys[a]
      /\ thread[t].addr \notin DOMAIN memorys =>
           Entered(t)[thread[t].addr] = [fd |-> thread[t].fd, serial |-> thread[t].serial]
  BY <1>1, <1>2, Entering
<1> QED
  BY <1>1, <1>3, <1>4, <1>5

\* An address that is entered into the table is its caller's only.
LEMMA RegisterPlaces ==
  ASSUME TypeOK, Locals, Places, Known, NEW t \in Threads, Register(t), StepOf(t)
  PROVE  Places'
<1> DEFINE a == thread[t].addr
<1>1. /\ a \in Addresses \ DOMAIN memorys /\ DOMAIN memorys' = DOMAIN memorys \union {a}
      /\ \A b : ~Erasing(b)
  BY RegisterEnters
<1>2. thread[t].pc = "register" /\ UNCHANGED <<mapped, mtx, lostAddresses>>
  BY DEF Register, At, lost
<1>3. \A u \in Threads : u # t =>
        /\ UsesEntry(u)' <=> UsesEntry(u)
        /\ At(u, "register")' <=> At(u, "register")
        /\ At(u, "erase")' <=> At(u, "erase")
        /\ thread'[u].addr = thread[u].addr
  BY OthersStay
<1>4. \/ held' = held \union {a} /\ UNCHANGED m_addrs /\ thread'[t] = Idle
      \/ /\ UNCHANGED <<held, m_addrs>> /\ thread'[t].addr = a
         /\ thread'[t].pc \in {"retrieve", "lookup"}
      \/ /\ m_addrs' = [m_addrs EXCEPT ![t] = @ \union {a}] /\ UNCHANGED held
         /\ thread'[t].pc = "next"
  BY Returns, Goes DEF Register, Pcs, SameLocals
<1>5. /\ ~At(t, "register")' /\ ~At(t, "erase")' /\ ~UsesEntry(t) /\ At(t, "register") /\ ~At(t, "erase")
  BY <1>2, <1>4, IdleFrame DEF At, UsesEntry
<1>6. \/ held' = held \union {a} /\ UNCHANGED m_addrs /\ ~UsesEntry(t)'
      \/ UNCHANGED <<held, m_addrs>> /\ thread'[t].addr = a /\ UsesEntry(t)'
      \/ m_addrs' = [m_addrs EXCEPT ![t] = @ \union {a}] /\ UNCHANGED held /\ ~UsesEntry(t)'
  BY <1>1, <1>4, IdleFrame DEF UsesEntry
<1>7. /\ a \notin held \union lostAddresses
      /\ \A u \in Threads : a \notin m_addrs[u] /\ (UsesEntry(u) => thread[u].addr # a)
  BY <1>1 DEF Places, Apart
<1>8. Apart'
  <2>1. CASE held' = held \union {a} /\ UNCHANGED m_addrs /\ ~UsesEntry(t)'
    BY <1>1, <1>2, <1>3, <1>5, <1>7, <2>1 DEF Places, Apart
  <2>2. CASE UNCHANGED <<held, m_addrs>> /\ thread'[t].addr = a /\ UsesEntry(t)'
    BY <1>1, <1>2, <1>3, <1>5, <1>7, <2>2 DEF Places, Apart
  <2>3. CASE m_addrs' = [m_addrs EXCEPT ![t] = @ \union {a}] /\ UNCHANGED held /\ ~UsesEntry(t)'
    <3>1. m_addrs'[t] = m_addrs[t] \union {a} /\ \A u \in Threads : u # t => m_addrs'[u] = m_addrs[u]
      BY <2>3 DEF TypeOK
    <3> QED
      BY <1>1, <1>2, <1>3, <1>5, <1>7, <2>3, <3>1 DEF Places, Apart
  <2> QED
    BY <1>6, <2>1, <2>2, <2>3
<1>9. EveryEntryIsKept'
  <2>1. \A u \in Threads : m_addrs[u] \subseteq m_addrs'[u]
    BY <1>6 DEF TypeOK
  <2>2. \/ a \in held' \/ \E u \in Threads : a \in m_addrs'[u] \/ (UsesEntry(u)' /\ thread'[u].addr = a)
    BY <1>6 DEF TypeOK
  <2>3. held \subseteq held'
    BY <1>6
  <2> QED
    BY <1>1, <1>2, <1>3, <1>5, <2>1, <2>2, <2>3 DEF Places, EveryEntryIsKept
<1>10. \A b : ~Erasing(b)' /\ (Registering(b)' <=> Registering(b) /\ b # a)
  <2>1. \A u \in Threads : u # t /\ At(u, "register") => thread[u].addr # a
    BY <1>5 DEF Places, Mappings
  <2> QED
    BY <1>1, <1>3, <1>5, <2>1 DEF Erasing, Registering
<1>11. Mappings'
  <2>1. a \in mapped
    BY <1>5 DEF Places, Mappings
  <2> HIDE DEF a
  <2>2. \A u \in Threads : At(u, "erase")' <=> mtx' = u
    BY <1>2, <1>3, <1>5 DEF Places, Mappings
  <2>3. \A u \in Threads : At(u, "register")' => thread'[u].addr \in mapped'
    BY <1>2, <1>3, <1>5 DEF Places, Mappings
  <2>4. \A u, v \in Threads : u # v /\ At(u, "register")' /\ At(v, "register")' => thread'[u].addr # thread'[v].addr
    BY <1>3, <1>5 DEF Places, Mappings
  <2>5. \A b \in DOMAIN memorys' : b \in mapped' /\ ~Registering(b)'
    BY <1>1, <1>2, <1>10, <2>1 DEF Places, Mappings
  <2>6. \A b \in mapped' : (b \in DOMAIN memorys' /\ ~Erasing(b)') \/ Registering(b)'
    BY <1>1, <1>2, <1>10 DEF Places, Mappings
  <2> QED
    BY <2>2, <2>3, <2>4, <2>5, <2>6 DEF Mappings
<1> QED
  BY <1>8, <1>9, <1>11 DEF Places

\* A prepared model that takes its next address hands it to the call.
LEMMA NextAddressPlaces ==
  ASSUME TypeOK, Places, NEW t \in Threads, NextAddress(t), StepOf(t)
  PROVE  Places'
<1>1. thread[t].pc = "next" /\ UNCHANGED <<mapped, memorys, mtx, held, lostAddresses>>
  BY DEF NextAddress, At, manager, lost
<1>2. CASE Return(t) /\ UNCHANGED m_addrs
  BY <1>1, <1>2, ReturnsElsewhere, PlacesElsewhere DEF UsesEntry, At
<1>3. ASSUME NEW a \in m_addrs[t], PointsAt(t, a, "unmap"),
             m_addrs' = [m_addrs EXCEPT ![t] = @ \ {a}]
      PROVE  Places'
  <2>1. a \in Addresses /\ thread'[t].pc = "unmap" /\ thread'[t].addr = a
    BY <1>3, Maps, AddressPcs DEF TypeOK
  <2>2. /\ ~UsesEntry(t) /\ UsesEntry(t)' /\ ~At(t, "register") /\ ~At(t, "register")'
        /\ ~At(t, "erase") /\ ~At(t, "erase")'
    BY <1>1, <2>1 DEF UsesEntry, At
  <2>3. m_addrs'[t] = m_addrs[t] \ {a} /\ \A u \in Threads : u # t => m_addrs'[u] = m_addrs[u]
    BY <1>3 DEF TypeOK
  <2>4. \A u \in Threads : u # t =>
          /\ UsesEntry(u)' <=> UsesEntry(u)
          /\ At(u, "register")' <=> At(u, "register")
          /\ At(u, "erase")' <=> At(u, "erase")
          /\ thread'[u].addr = thread[u].addr
    BY OthersStay
  <2>5. /\ a \in DOMAIN memorys \ (held \union lostAddresses)
        /\ \A u \in Threads : (u # t => a \notin m_addrs[u]) /\ (UsesEntry(u) => thread[u].addr # a)
    BY <1>3 DEF Places, Apart
  <2>6. Apart'
    BY <1>1, <2>1, <2>2, <2>3, <2>4, <2>5 DEF Places, Apart
  <2>7. EveryEntryIsKept'
    BY <1>1, <2>1, <2>2, <2>3, <2>4 DEF Places, EveryEntryIsKept
  <2>8. \A b : (Erasing(b)' <=> Erasing(b)) /\ (Registering(b)' <=> Registering(b))
    BY <2>2, <2>4 DEF Erasing, Registering
  <2>9. Mappings'
    BY <1>1, <2>2, <2>4, <2>8 DEF Places, Mappings
  <2> QED
    BY <2>6, <2>7, <2>9 DEF Places
<1> QED
  BY <1>2, <1>3 DEF NextAddress, PointsAt

\* An address that is unmapped is nobody's until its entry is erased.
LEMMA UnMapPlaces ==
  ASSUME TypeOK, Places, NEW t \in Threads, UnMap(t), StepOf(t)
  PROVE  Places'
<1> DEFINE a == thread[t].addr
<1>1. /\ thread[t].pc = "unmap" /\ mtx = Nobody /\ mtx' = t /\ a \in DOMAIN memorys
      /\ mapped' = mapped \ {a}
      /\ UNCHANGED <<memorys, held, m_addrs, lostAddresses>>
  BY DEF UnMap, At, clients, lost
<1>2. thread'[t].pc = "erase" /\ thread'[t].addr = a
  BY Goes DEF UnMap, Pcs, SameLocals
<1>3. /\ UsesEntry(t) <=> UsesEntry(t)'
      /\ ~At(t, "register") /\ ~At(t, "register")' /\ ~At(t, "erase") /\ At(t, "erase")'
  BY <1>1, <1>2 DEF UsesEntry, At
<1>4. \A u \in Threads : u # t =>
        /\ UsesEntry(u)' <=> UsesEntry(u)
        /\ At(u, "register")' <=> At(u, "register")
        /\ At(u, "erase")' <=> At(u, "erase")
        /\ thread'[u].addr = thread[u].addr
  BY OthersStay
<1>5. \A u \in Threads : ~At(u, "erase")
  BY <1>1, BufferAssumption DEF Places, Mappings
<1>6. a \in mapped /\ \A u \in Threads : At(u, "register") => thread[u].addr # a
  BY <1>1, <1>5 DEF Places, Mappings, Erasing, Registering
<1> HIDE DEF a
<1>7. Apart'
  BY <1>1, <1>2, <1>3, <1>4 DEF Places, Apart, a
<1>8. EveryEntryIsKept'
  BY <1>1, <1>2, <1>3, <1>4 DEF Places, EveryEntryIsKept, a
<1>9. \A b : /\ Erasing(b)' <=> b = a
             /\ ~Erasing(b)
             /\ Registering(b)' <=> Registering(b)
  BY <1>2, <1>3, <1>4, <1>5 DEF Erasing, Registering
<1>10. Mappings'
  <2>1. \A u \in Threads : At(u, "erase")' <=> mtx' = u
    BY <1>1, <1>3, <1>4, <1>5
  <2>2. \A u \in Threads : At(u, "register")' => thread'[u].addr \in mapped'
    BY <1>1, <1>3, <1>4, <1>6 DEF Places, Mappings
  <2>3. \A u, v \in Threads : u # v /\ At(u, "register")' /\ At(v, "register")' => thread'[u].addr # thread'[v].addr
    BY <1>3, <1>4 DEF Places, Mappings
  <2>4. \A b \in DOMAIN memorys' : (b \in mapped' /\ ~Registering(b)') \/ Erasing(b)'
    BY <1>1, <1>9 DEF Places, Mappings
  <2>5. \A b \in mapped' : (b \in DOMAIN memorys' /\ ~Erasing(b)') \/ Registering(b)'
    BY <1>1, <1>9 DEF Places, Mappings
  <2> QED
    BY <2>1, <2>2, <2>3, <2>4, <2>5 DEF Mappings
<1> QED
  BY <1>7, <1>8, <1>10 DEF Places

\* The entry goes while the mutex is held; the address may be mapped again
\* already, for a call that waits for the mutex.
LEMMA ErasePlaces ==
  ASSUME TypeOK, Locals, Places, NEW t \in Threads, Erase(t), StepOf(t)
  PROVE  Places'
<1> DEFINE a == thread[t].addr
<1>1. /\ thread[t].pc = "erase" /\ mtx' = Nobody
      /\ memorys' = [b \in DOMAIN memorys \ {a} |-> memorys[b]]
      /\ UNCHANGED <<mapped, held, m_addrs, lostAddresses>>
  BY DEF Erase, At, lost
<1>2. thread[t].call \in {"ReleaseBuffer", "PrepareOfflineModel", "~HDIPreparedModel"} /\ a \in Addresses
  BY <1>1 DEF Locals, Control, ControlOf, Paths, SharedCalls
<1>3. thread'[t].pc \in {"idle", "next"}
  BY <1>2, Returns, Goes, IdleFrame DEF Erase, Answered, Pcs
<1>4. /\ UsesEntry(t) /\ ~UsesEntry(t)'
      /\ ~At(t, "register") /\ ~At(t, "register")' /\ At(t, "erase") /\ ~At(t, "erase")'
  BY <1>1, <1>2, <1>3 DEF UsesEntry, At
<1>5. \A u \in Threads : u # t =>
        /\ UsesEntry(u)' <=> UsesEntry(u)
        /\ At(u, "register")' <=> At(u, "register")
        /\ At(u, "erase")' <=> At(u, "erase")
        /\ thread'[u].addr = thread[u].addr
  BY OthersStay
<1>6. \A u \in Threads : At(u, "erase") => u = t
  BY <1>4 DEF Places, Mappings
<1>7. /\ a \in DOMAIN memorys \ (held \union lostAddresses)
      /\ \A u \in Threads : a \notin m_addrs[u] /\ (u # t /\ UsesEntry(u) => thread[u].addr # a)
  BY <1>4 DEF Places, Apart
<1>8. DOMAIN memorys' = DOMAIN memorys \ {a}
  BY <1>1
<1>9. \A b : /\ ~Erasing(b)'
             /\ Erasing(b) => b = a
             /\ Registering(b)' <=> Registering(b)
  BY <1>4, <1>5, <1>6 DEF Erasing, Registering
<1>10. Erasing(a)
  BY <1>4 DEF Erasing
<1> HIDE DEF a
<1>11. Apart'
  BY <1>1, <1>4, <1>5, <1>7, <1>8 DEF Places, Apart
<1>12. EveryEntryIsKept'
  BY <1>1, <1>4, <1>5, <1>8 DEF Places, EveryEntryIsKept, a
<1>13. Mappings'
  <2>1. \A u \in Threads : At(u, "erase")' <=> mtx' = u
    BY <1>1, <1>4, <1>5, <1>6, BufferAssumption
  <2>2. \A u \in Threads : At(u, "register")' => thread'[u].addr \in mapped'
    BY <1>1, <1>4, <1>5 DEF Places, Mappings
  <2>3. \A u, v \in Threads : u # v /\ At(u, "register")' /\ At(v, "register")' => thread'[u].addr # thread'[v].addr
    BY <1>4, <1>5 DEF Places, Mappings
  <2>4. \A b \in DOMAIN memorys' : b \in mapped' /\ ~Registering(b)'
    BY <1>1, <1>8, <1>9 DEF Places, Mappings
  <2>5. \A b \in mapped' : (b \in DOMAIN memorys' /\ ~Erasing(b)') \/ Registering(b)'
    BY <1>1, <1>8, <1>9, <1>10 DEF Places, Mappings
  <2> QED
    BY <2>1, <2>2, <2>3, <2>4, <2>5 DEF Mappings
<1> QED
  BY <1>11, <1>12, <1>13 DEF Places

\* Every step of a call leaves each address in one place.
LEMMA StepPlaces ==
  ASSUME TypeOK, Locals, Places, Known, NEW t \in Threads, Step(t)
  PROVE  Places'
<1>0. StepOf(t) /\ ControlOf(t) /\ thread[t] \in Frames
  BY StepTypes DEF Typed, Locals, Control, TypeOK
<1> USE DEF manager, clients, lost
<1>1. CASE DriverAllocates(t)
  <2>1. thread[t].pc = "allocate" /\ UNCHANGED <<mapped, memorys, mtx, held, m_addrs, lostAddresses>>
    BY <1>1 DEF DriverAllocates, At
  <2>2. CASE Return(t)
    BY <1>0, <2>1, <2>2, ReturnsElsewhere, PlacesElsewhere DEF UsesEntry, At
  <2>3. ASSUME NEW fd \in Fds, NEW pc \in {"map", "convert"}, Grant(t, fd, pc)
        PROVE  Places'
    <3>1. thread'[t].pc = pc /\ thread'[t].addr = thread[t].addr
      BY <2>3, Grants DEF Pcs
    <3> QED
      BY <1>0, <2>1, <3>1, GoesElsewhere, PlacesElsewhere DEF Pcs
  <2> QED
    BY <1>1, <2>2, <2>3 DEF DriverAllocates, FreeFds
<1>2. CASE DriverAllocatesNothing(t)
  <2>1. thread[t].pc = "allocate" /\ UNCHANGED <<mapped, memorys, mtx, held, m_addrs, lostAddresses>>
    BY <1>2 DEF DriverAllocatesNothing, At
  <2>2. CASE Return(t)
    BY <1>0, <2>1, <2>2, ReturnsElsewhere, PlacesElsewhere DEF UsesEntry, At
  <2>3. CASE Goto(t, "map")
    BY <1>0, <2>1, <2>3, Goes, GoesElsewhere, PlacesElsewhere DEF Pcs, SameLocals
  <2> QED
    BY <1>2, <2>2, <2>3 DEF DriverAllocatesNothing
<1>3. CASE Map(t)
  BY <1>0, <1>3, MapPlaces
<1>4. CASE MapFails(t)
  <2>1. thread[t].pc = "map" /\ UNCHANGED <<mapped, memorys, mtx, held, m_addrs, lostAddresses>>
    BY <1>4 DEF MapFails, At
  <2>2. CASE Return(t)
    BY <1>0, <2>1, <2>2, ReturnsElsewhere, PlacesElsewhere DEF UsesEntry, At
  <2>3. CASE Goto(t, "giveBack")
    BY <1>0, <2>1, <2>3, Goes, GoesElsewhere, PlacesElsewhere DEF Pcs, SameLocals
  <2> QED
    BY <1>4, <2>2, <2>3 DEF MapFails
<1>5. CASE Register(t)
  BY <1>0, <1>5, RegisterPlaces
<1>6. CASE GiveBack(t)
  BY <1>0, <1>6, ReturnsElsewhere, PlacesElsewhere DEF GiveBack, UsesEntry, At
<1>7. CASE NextBuffer(t)
  <2>1. thread[t].pc = "next" /\ UNCHANGED <<mapped, memorys, mtx, held, m_addrs, lostAddresses>>
    BY <1>7 DEF NextBuffer, At
  <2>2. CASE Return(t)
    BY <1>0, <2>1, <2>2, ReturnsElsewhere, PlacesElsewhere DEF UsesEntry, At
  <2>3. CASE ~Return(t)
    <3>1. thread'[t].pc = "map"
      BY <1>7, <2>3, NextBufferTakes
    <3>2. Elsewhere(t)
      BY <2>1, <3>1 DEF Elsewhere, UsesEntry, At
    <3> QED
      BY <1>0, <3>2, PlacesElsewhere
  <2> QED
    BY <2>2, <2>3
<1>8. CASE Convert(t)
  <2>1. /\ thread[t].pc = "convert" /\ thread[t].addr \notin Addresses
        /\ UNCHANGED <<mapped, memorys, mtx, held, m_addrs, lostAddresses>>
    BY <1>0, <1>8, BufferAssumption DEF Convert, At, ControlOf, Paths
  <2>2. thread'[t].pc \in {"ask", "giveBack"} /\ thread'[t].addr = thread[t].addr
    BY <1>0, <1>8 DEF Convert, Goto, TypeOK, Frames
  <2> QED
    BY <1>0, <2>1, <2>2, GoesElsewhere, PlacesElsewhere DEF Pcs
<1>9. ASSUME NEW pc \in {"ask", "release"}, thread[t].pc \in {"retrieve", "lookup"}, GetMemory(t, pc)
      PROVE  Places'
  <2>1. UNCHANGED <<mapped, memorys, mtx, held, m_addrs, lostAddresses>>
    BY <1>9 DEF GetMemory
  <2>2. CASE thread[t].addr \notin DOMAIN memorys
    <3>1. Return(t) /\ ~UsesEntry(t)
      BY <1>9, <2>2 DEF GetMemory, Places, Apart
    <3> QED
      BY <1>0, <1>9, <2>1, <3>1, ReturnsElsewhere, PlacesElsewhere DEF At
  <2>3. CASE thread[t].addr \in DOMAIN memorys
    <3>1. thread'[t].pc = pc /\ thread'[t].addr = thread[t].addr
      BY <1>0, <1>9, <2>3 DEF GetMemory, TypeOK, Frames
    <3> QED
      BY <1>0, <1>9, <2>1, <3>1, GoesElsewhere, PlacesElsewhere DEF Pcs
  <2> QED
    BY <2>2, <2>3
<1>10. CASE Retrieve(t)
  BY <1>9, <1>10 DEF Retrieve, At
<1>11. CASE Lookup(t)
  BY <1>9, <1>11 DEF Lookup, At
<1>12. CASE DriverAnswers(t)
  <2>1. /\ thread[t].pc = "ask" /\ thread[t].call # "Run"
        /\ UNCHANGED <<mapped, memorys, mtx, held, m_addrs, lostAddresses>>
    BY <1>12 DEF DriverAnswers, At
  <2>2. /\ thread'[t].pc = IF thread[t].call = "PrepareOfflineModel" THEN "lookup" ELSE "releaseShared"
        /\ thread'[t].addr = thread[t].addr
    BY <1>0, <1>12 DEF DriverAnswers, TypeOK, Frames
  <2>3. thread[t].call # "PrepareOfflineModel" => thread[t].addr \notin Addresses
    BY <1>0, <2>1, BufferAssumption DEF ControlOf, Paths
  <2> QED
    BY <1>0, <2>1, <2>2, <2>3, GoesElsewhere, PlacesElsewhere DEF Pcs
<1>13. CASE DriverRuns(t)
  <2>1. UsesEntry(t) /\ ~At(t, "register") /\ ~At(t, "erase")
    BY <1>0, <1>13 DEF DriverRuns, UsesEntry, At, ControlOf
  <2>2. thread'[t] = Idle
    BY <1>13, Returns DEF DriverRuns
  <2> QED
    BY <1>0, <1>13, <2>1, <2>2, IdleFrame, HandingOver DEF DriverRuns, UsesEntry, At
<1>14. CASE ReleaseSharedBuffer(t)
  BY <1>0, <1>14, ReturnsElsewhere, PlacesElsewhere DEF ReleaseSharedBuffer, Answered, UsesEntry, At
<1>15. CASE DriverReleases(t)
  <2>1. /\ UsesEntry(t) /\ ~At(t, "register") /\ ~At(t, "erase") /\ thread[t].pc = "release"
        /\ UNCHANGED <<mapped, memorys, mtx, m_addrs>>
    BY <1>0, <1>15 DEF DriverReleases, UsesEntry, At, ControlOf
  <2>2. CASE Goto(t, "unmap") /\ UNCHANGED <<held, lostAddresses>>
    BY <1>0, <2>1, <2>2, Goes, GoesElsewhere, PlacesElsewhere DEF Pcs, SameLocals
  <2>3. CASE Return(t) /\ LeftWith(t, thread[t].call = "ReleaseBuffer")
    <3>1. thread'[t] = Idle
      BY <2>3, Returns
    <3>2. \/ held' = held \union {thread[t].addr} /\ lostAddresses' = lostAddresses
          \/ held' = held /\ lostAddresses' = lostAddresses \union {thread[t].addr}
      BY <2>3 DEF LeftWith
    <3> QED
      BY <1>0, <2>1, <3>1, <3>2, IdleFrame, HandingOver DEF UsesEntry, At
  <2> QED
    BY <1>15, <2>2, <2>3 DEF DriverReleases
<1>16. CASE NextAddress(t)
  BY <1>0, <1>16, NextAddressPlaces
<1>17. CASE UnMap(t)
  BY <1>0, <1>17, UnMapPlaces
<1>18. CASE UnMapFails(t)
  <2>1. /\ UsesEntry(t) /\ ~At(t, "register") /\ ~At(t, "erase") /\ thread[t].pc = "unmap"
        /\ UNCHANGED <<mapped, memorys, mtx, m_addrs>>
    BY <1>0, <1>18 DEF UnMapFails, UsesEntry, At, ControlOf
  <2>2. thread'[t].pc \in {"idle", "next"}
    BY <1>18, Returns, Goes, IdleFrame DEF UnMapFails, Pcs
  <2>3. \/ held' = held \union {thread[t].addr} /\ lostAddresses' = lostAddresses
        \/ held' = held /\ lostAddresses' = lostAddresses \union {thread[t].addr}
    BY <1>18 DEF UnMapFails, LeftWith
  <2> QED
    BY <1>0, <2>1, <2>2, <2>3, HandingOver DEF UsesEntry, At
<1>19. CASE Erase(t)
  BY <1>0, <1>19, ErasePlaces
<1> QED
  BY <1>1, <1>2, <1>3, <1>4, <1>5, <1>6, <1>7, <1>8, <1>10, <1>11, <1>12, <1>13, <1>14, <1>15,
     <1>16, <1>17, <1>18, <1>19 DEF Step

-----------------------------------------------------------------------------
(* The buffers.                                                             *)

\* Nobody will release the buffer with this descriptor.
Unused(fd) ==
  /\ fd \notin heldFds
  /\ \A t \in Threads : (HasBuffer(t) => thread[t].fd # fd) /\ fd \notin thread[t].left
  /\ \A a \in DOMAIN memorys : IsLive(a) => memorys[a].fd # fd

\* The step of t opens no buffer, and the buffers it closes are nobody's.
Shrinks(t) ==
  /\ DOMAIN memorys' \subseteq DOMAIN memorys
  /\ \A a \in DOMAIN memorys' : memorys'[a] = memorys[a]
  /\ heldFds' \subseteq heldFds /\ lostFds \subseteq lostFds' /\ serials' = serials
  /\ HasBuffer(t)' => /\ HasBuffer(t)
                      /\ thread'[t].fd = thread[t].fd /\ thread'[t].serial = thread[t].serial
  /\ \A a \in DOMAIN memorys' : IsLive(a)' => IsLive(a)
  /\ thread'[t].left \subseteq thread[t].left
  /\ \A fd \in Fds : allocated'[fd] = allocated[fd] \/ (allocated'[fd] = 0 /\ Unused(fd)')
  /\ \A u \in Threads : u # t => m_addrs'[u] = m_addrs[u]

\* Who gives buffers up and gets none still has live buffers of his own.
LEMMA BuffersShrink ==
  ASSUME TypeOK, TypeOK', Buffers, Control', Places', NEW t \in Threads, StepOf(t), Shrinks(t), KnownOf(t)'
  PROVE  Live' /\ Exclusive' /\ Known'
<1>1. \A u \in Threads : u # t => thread'[u] = thread[u] /\ (HasBuffer(u)' <=> HasBuffer(u))
  BY OthersStay
<1>2. \A u \in Threads :
        /\ HasBuffer(u)' => /\ HasBuffer(u) /\ thread'[u].fd = thread[u].fd
                            /\ thread'[u].serial = thread[u].serial
        /\ thread'[u].left \subseteq thread[u].left
  BY <1>1 DEF Shrinks
<1>3. /\ DOMAIN memorys' \subseteq DOMAIN memorys
      /\ \A a \in DOMAIN memorys' : memorys'[a] = memorys[a] /\ memorys[a].fd \in Fds /\ memorys[a].serial # 0
      /\ \A a \in DOMAIN memorys' : IsLive(a)' => IsLive(a)
      /\ heldFds' \subseteq heldFds /\ lostFds \subseteq lostFds' /\ serials' = serials
      /\ \A fd \in Fds : allocated'[fd] = allocated[fd] \/ (allocated'[fd] = 0 /\ Unused(fd)')
  BY DEF Shrinks, TypeOK, Entry
<1>4. \A u \in Threads : (HasBuffer(u)' => thread'[u].fd \in Fds) /\ thread'[u].left \subseteq Fds
  BY DEF TypeOK, Frames, HasBuffer
<1>5. Live'
  <2>1. \A fd \in heldFds' : allocated'[fd] # 0
    BY <1>3 DEF Buffers, Live, Unused, TypeOK
  <2>2. \A u \in Threads : HasBuffer(u)' =>
          allocated'[thread'[u].fd] = thread'[u].serial /\ thread'[u].serial # 0
    BY <1>2, <1>3, <1>4 DEF Buffers, Live, Unused
  <2>3. \A a \in Addresses : IsLive(a)' /\ a \in DOMAIN memorys' =>
          allocated'[memorys'[a].fd] = memorys'[a].serial
    BY <1>3 DEF Buffers, Live, Unused
  <2>4. \A u \in Threads : \A fd \in thread'[u].left : allocated'[fd] # 0 /\ fd \in lostFds'
    BY <1>2, <1>3, <1>4 DEF Buffers, Live, Unused
  <2> QED
    BY <2>1, <2>2, <2>3, <2>4 DEF Live
<1>6. Exclusive'
  BY <1>2, <1>3 DEF Buffers, Exclusive
<1>7. Known'
  <2>1. \A u \in Threads \ {t} : KnownOf(u)'
    <3> TAKE u \in Threads \ {t}
    <3>1. thread'[u] = thread[u] /\ m_addrs'[u] = m_addrs[u] /\ KnownOf(u)
      BY <1>1 DEF Shrinks, Buffers, Known
    <3>2. m_addrs'[u] \subseteq DOMAIN memorys'
      BY DEF Places, Apart
    <3>3. thread'[u].pc \in {"ask", "release"} /\ thread'[u].call \notin SharedCalls =>
            UsesEntry(u)'
      BY DEF Control, ControlOf, UsesEntry, Paths, SharedCalls
    <3>4. thread'[u].pc \in {"unmap", "erase"} => UsesEntry(u)'
      BY DEF Control, ControlOf, UsesEntry
    <3>5. UsesEntry(u)' => thread'[u].addr \in DOMAIN memorys'
      BY DEF Places, Apart
    <3> QED
      BY <1>3, <3>1, <3>2, <3>3, <3>4, <3>5 DEF KnownOf
  <2>2. \A fd \in Fds : allocated'[fd] <= serials'
    BY <1>3 DEF Buffers, Known, TypeOK
  <2> QED
    BY <1>3, <2>1, <2>2 DEF Buffers, Known
<1> QED
  BY <1>5, <1>6, <1>7

\* No buffer is forgotten: what the step of t lets go of is released or lost.
Hands(t) ==
  /\ lostFds \subseteq lostFds'
  /\ \A fd \in Fds : allocated'[fd] = allocated[fd] \/ allocated'[fd] = 0
  /\ \A fd \in heldFds : fd \in heldFds' \union lostFds' \/ allocated'[fd] = 0
  /\ HasBuffer(t) =>
       \/ HasBuffer(t)' /\ thread'[t].fd = thread[t].fd /\ thread'[t].serial = thread[t].serial
       \/ thread[t].fd \in lostFds' \/ allocated'[thread[t].fd] = 0
  /\ \A a \in DOMAIN memorys :
       \/ a \in DOMAIN memorys' /\ memorys'[a] = memorys[a]
       \/ memorys[a].fd \in lostFds \/ allocated[memorys[a].fd] # memorys[a].serial

\* A buffer that one place gives up has another, is lost or is closed.
LEMMA BuffersRemembered ==
  ASSUME TypeOK, Remembered, NEW t \in Threads, StepOf(t), Hands(t)
  PROVE  Remembered'
<1>1. \A u \in Threads : u # t => thread'[u] = thread[u] /\ (HasBuffer(u)' <=> HasBuffer(u))
  BY OthersStay
<1> SUFFICES ASSUME NEW fd \in Fds, allocated'[fd] # 0
             PROVE  \/ fd \in heldFds' \union lostFds'
                    \/ \E u \in Threads : HasBuffer(u)' /\ thread'[u].fd = fd /\ thread'[u].serial = allocated'[fd]
                    \/ \E a \in DOMAIN memorys' : memorys'[a] = [fd |-> fd, serial |-> allocated'[fd]]
  BY DEF Remembered
<1>2. allocated'[fd] = allocated[fd]
  BY DEF Hands
<1>3. CASE fd \in heldFds \union lostFds
  BY <1>3 DEF Hands
<1>4. ASSUME NEW u \in Threads, HasBuffer(u), thread[u].fd = fd, thread[u].serial = allocated[fd]
      PROVE  \/ fd \in lostFds'
             \/ HasBuffer(u)' /\ thread'[u].fd = fd /\ thread'[u].serial = allocated'[fd]
  BY <1>1, <1>2, <1>4 DEF Hands
<1>5. ASSUME NEW a \in DOMAIN memorys, memorys[a] = [fd |-> fd, serial |-> allocated[fd]]
      PROVE  \/ fd \in lostFds'
             \/ a \in DOMAIN memorys' /\ memorys'[a] = [fd |-> fd, serial |-> allocated'[fd]]
  BY <1>2, <1>5 DEF Hands
<1> QED
  BY <1>2, <1>3, <1>4, <1>5 DEF Remembered

\* The driver opens the buffers fds for the call of t, for a client, or to be
\* exported.
Opens(t, fds) ==
  /\ fds \subseteq FreeFds /\ serials' \in Nat /\ serials <= serials'
  /\ \A fd \in fds : allocated'[fd] \in (serials + 1)..serials'
  /\ \A fd \in Fds \ fds : allocated'[fd] = allocated[fd]
  /\ UNCHANGED <<memorys, m_addrs>>
  /\ \A a \in DOMAIN memorys : IsLive(a)' => IsLive(a)
  /\ lostFds \subseteq lostFds' /\ heldFds \subseteq heldFds' /\ ~HasBuffer(t)
  /\ \/ /\ heldFds' = heldFds /\ ~HasBuffer(t)'
        /\ thread'[t].left \subseteq fds \intersect lostFds' /\ fds \subseteq lostFds'
     \/ /\ heldFds' = heldFds /\ thread'[t].left = {}
        /\ HasBuffer(t)' /\ fds = {thread'[t].fd} /\ thread'[t].serial = allocated'[thread'[t].fd]
     \/ heldFds' = heldFds \union fds /\ ~HasBuffer(t)' /\ thread'[t].left = {}

\* Buffers that the driver has just made are nobody else's.
LEMMA BuffersOpen ==
  ASSUME TypeOK, TypeOK', Buffers, Control, Places, NEW t \in Threads, NEW fds, StepOf(t), Opens(t, fds),
         KnownOf(t)'
  PROVE  Buffers'
<1>1. \A u \in Threads : u # t => thread'[u] = thread[u] /\ (HasBuffer(u)' <=> HasBuffer(u))
  BY OthersStay
<1>2. /\ fds \subseteq Fds /\ \A fd \in fds : allocated[fd] = 0
      /\ serials \in Nat /\ serials' \in Nat /\ serials <= serials'
      /\ \A fd \in fds : allocated'[fd] \in Nat /\ allocated'[fd] > serials /\ allocated'[fd] <= serials'
      /\ \A fd \in Fds : fd \notin fds => allocated'[fd] = allocated[fd]
      /\ memorys' = memorys /\ m_addrs' = m_addrs
      /\ \A a \in DOMAIN memorys : IsLive(a)' => IsLive(a)
      /\ lostFds \subseteq lostFds' /\ heldFds \subseteq heldFds'
      /\ heldFds' \subseteq heldFds \union fds
      /\ HasBuffer(t)' => thread'[t].fd \in fds /\ thread'[t].serial = allocated'[thread'[t].fd]
      /\ thread'[t].left \subseteq fds \intersect lostFds'
  BY BufferAssumption DEF Opens, FreeFds, TypeOK
<1>3. \A a \in DOMAIN memorys : /\ a \in Addresses /\ memorys[a].fd \in Fds
                                /\ memorys[a].serial \in Nat /\ memorys[a].serial # 0
                                /\ memorys[a].serial <= serials
  BY DEF TypeOK, Entry, Buffers, Known
<1>4. /\ \A fd \in heldFds : fd \notin fds
      /\ \A u \in Threads : HasBuffer(u) => thread[u].fd \notin fds
      /\ \A a \in DOMAIN memorys : IsLive(a) => memorys[a].fd \notin fds
      /\ \A u \in Threads : \A fd \in thread[u].left : fd \notin fds
  BY <1>2, <1>3 DEF Buffers, Live
<1>5. \A u \in Threads : HasBuffer(u) => thread[u].fd \in Fds
  BY DEF HasBuffer
<1>6. Live'
  <2>1. \A fd \in heldFds' : allocated'[fd] # 0
    BY <1>2, <1>4 DEF Buffers, Live, TypeOK
  <2>2. \A u \in Threads : HasBuffer(u)' =>
          allocated'[thread'[u].fd] = thread'[u].serial /\ thread'[u].serial # 0
    BY <1>1, <1>2, <1>4, <1>5 DEF Buffers, Live
  <2>3. \A a \in Addresses : IsLive(a)' /\ a \in DOMAIN memorys' =>
          allocated'[memorys'[a].fd] = memorys'[a].serial
    BY <1>2, <1>3, <1>4 DEF Buffers, Live
  <2>4. \A u \in Threads : \A fd \in thread'[u].left : allocated'[fd] # 0 /\ fd \in lostFds'
    <3> TAKE u \in Threads
    <3>1. CASE u = t
      BY <1>2, <3>1
    <3>2. CASE u # t
      <4>1. thread[u].left \subseteq Fds
        BY DEF TypeOK, Frames
      <4> QED
        BY <1>1, <1>2, <1>4, <3>2, <4>1 DEF Buffers, Live
    <3> QED
      BY <3>1, <3>2
  <2> QED
    BY <2>1, <2>2, <2>3, <2>4 DEF Live
<1>7. Exclusive'
  <2>1. \A u \in Threads : HasBuffer(u)' => thread'[u].fd \notin heldFds'
    <3> TAKE u \in Threads
    <3>1. CASE u = t
      BY <1>4, <3>1 DEF Opens
    <3>2. CASE u # t
      BY <1>1, <1>2, <1>4, <3>2 DEF Buffers, Exclusive
    <3> QED
      BY <3>1, <3>2
  <2>2. \A u, v \in Threads : u # v /\ HasBuffer(u)' /\ HasBuffer(v)' => thread'[u].fd # thread'[v].fd
    BY <1>1, <1>2, <1>4 DEF Buffers, Exclusive
  <2>3. \A a \in DOMAIN memorys' : IsLive(a)' =>
          /\ memorys'[a].fd \notin heldFds'
          /\ \A u \in Threads : HasBuffer(u)' => thread'[u].fd # memorys'[a].fd
    BY <1>1, <1>2, <1>4 DEF Buffers, Exclusive
  <2>4. \A a, b \in DOMAIN memorys' : a # b /\ IsLive(a)' /\ IsLive(b)' => memorys'[a].fd # memorys'[b].fd
    BY <1>2 DEF Buffers, Exclusive
  <2>5. ASSUME NEW u \in Threads, NEW fd \in thread'[u].left
        PROVE  /\ fd \notin heldFds'
               /\ \A v \in Threads : HasBuffer(v)' => thread'[v].fd # fd
               /\ \A a \in DOMAIN memorys' : IsLive(a)' => memorys'[a].fd # fd
    <3>1. CASE u = t
      <4>1. fd \in fds /\ heldFds' = heldFds /\ ~HasBuffer(t)'
        BY <1>2, <2>5, <3>1 DEF Opens
      <4> QED
        BY <1>1, <1>2, <1>4, <4>1
    <3>2. CASE u # t
      <4>1. fd \in thread[u].left
        BY <1>1, <2>5, <3>2
      <4> QED
        BY <1>1, <1>2, <1>4, <4>1 DEF Buffers, Exclusive
    <3> QED
      BY <3>1, <3>2
  <2> QED
    BY <2>1, <2>2, <2>3, <2>4, <2>5 DEF Exclusive
<1>8. Known'
  <2>1. \A u \in Threads \ {t} : KnownOf(u)'
    <3> TAKE u \in Threads \ {t}
    <3>1. thread'[u] = thread[u] /\ m_addrs'[u] = m_addrs[u] /\ KnownOf(u)
      BY <1>1, <1>2 DEF Buffers, Known
    <3>2. thread[u].pc \in {"unmap", "erase"} => thread[u].addr \in DOMAIN memorys
      BY DEF Places, Apart, UsesEntry, Control, ControlOf
    <3>3. thread[u].serial \in Nat
      BY DEF TypeOK, Frames
    <3>4. thread[u].pc \in {"unmap", "erase"} =>
            \/ memorys[thread[u].addr].fd \in lostFds'
            \/ allocated'[memorys[thread[u].addr].fd] # memorys[thread[u].addr].serial
      BY <1>2, <1>3, <3>1, <3>2 DEF KnownOf
    <3>5. thread[u].serial <= serials'
      BY <1>2, <3>1, <3>3 DEF KnownOf
    <3> QED
      BY <1>2, <3>1, <3>4, <3>5 DEF KnownOf
  <2>2. \A a \in DOMAIN memorys' : memorys'[a].serial <= serials'
    BY <1>2, <1>3
  <2>3. \A fd \in Fds : allocated'[fd] <= serials'
    BY <1>2 DEF Buffers, Known, TypeOK
  <2> QED
    BY <2>1, <2>2, <2>3 DEF Known
<1>9. Remembered'
  <2> SUFFICES ASSUME NEW fd \in Fds, allocated'[fd] # 0
               PROVE  \/ fd \in heldFds' \union lostFds'
                      \/ \E u \in Threads : HasBuffer(u)' /\ thread'[u].fd = fd /\ thread'[u].serial = allocated'[fd]
                      \/ \E a \in DOMAIN memorys' : memorys'[a] = [fd |-> fd, serial |-> allocated'[fd]]
    BY DEF Remembered
  <2>1. CASE fd \in fds
    BY <2>1 DEF Opens
  <2>2. CASE fd \notin fds
    <3>1. allocated'[fd] = allocated[fd]
      BY <1>2, <2>2
    <3>2. \A u \in Threads : HasBuffer(u) => HasBuffer(u)' /\ thread'[u] = thread[u]
      BY <1>1 DEF Opens
    <3> QED
      BY <1>2, <3>1, <3>2 DEF Buffers, Remembered
  <2> QED
    BY <2>1, <2>2
<1> QED
  BY <1>6, <1>7, <1>8, <1>9 DEF Buffers

\* MapMemory hands the buffer of the call to the entry of the address.
LEMMA RegisterBuffers ==
  ASSUME TypeOK, TypeOK', Buffers, Locals, Places, NEW t \in Threads, Register(t), StepOf(t)
  PROVE  Buffers'
<1>0. PICK a0, fd0, serial0 : a0 = thread[t].addr /\ fd0 = thread[t].fd /\ serial0 = thread[t].serial
  OBVIOUS
<1>1. /\ a0 \in Addresses /\ a0 \notin DOMAIN memorys /\ DOMAIN memorys' = DOMAIN memorys \union {a0}
      /\ \A a \in DOMAIN memorys : memorys'[a] = memorys[a]
      /\ memorys'[a0].fd = fd0 /\ memorys'[a0].serial = serial0
      /\ memorys'[a0] = [fd |-> fd0, serial |-> serial0]
  BY <1>0, RegisterEnters DEF Buffers
<1>2. /\ thread[t].pc = "register" /\ ControlOf(t) /\ KnownOf(t)
      /\ UNCHANGED <<allocated, serials, heldFds, lostFds>>
  BY DEF Register, At, Locals, Control, Buffers, Known, lost
<1>3. /\ fd0 \in Fds /\ serial0 # 0 /\ serial0 \in Nat /\ serial0 <= serials
      /\ thread[t].call = "ExportModelCache" => fd0 \in lostFds
  BY <1>0, <1>2 DEF ControlOf, KnownOf, TypeOK, Frames
<1>4. \A u \in Threads : u # t => thread'[u] = thread[u] /\ (HasBuffer(u)' <=> HasBuffer(u))
  BY OthersStay
<1>5. \/ /\ thread[t].call = "AllocateBuffer" /\ held' = held \union {a0} /\ UNCHANGED m_addrs
         /\ thread'[t] = Idle
      \/ /\ thread[t].call = "PrepareOfflineModel" /\ UNCHANGED <<held, m_addrs>> /\ SameLocals(t)
         /\ thread'[t].pc \in {"retrieve", "lookup"}
      \/ /\ thread[t].call = "ExportModelCache" /\ m_addrs' = [m_addrs EXCEPT ![t] = @ \union {a0}]
         /\ UNCHANGED held /\ SameLocals(t) /\ thread'[t].pc = "next"
  BY <1>0, Returns, Goes DEF Register, Pcs
<1>6. /\ ~HasBuffer(t)' /\ (thread[t].call # "ExportModelCache" => HasBuffer(t))
      /\ thread'[t].left \subseteq thread[t].left /\ thread'[t].serial <= serials
      /\ thread'[t].pc \in {"idle", "retrieve", "lookup", "next"}
  BY <1>0, <1>2, <1>3, <1>5, IdleFrame DEF HasBuffer, SharedCalls, SameLocals, TypeOK
<1>7. \A a \in DOMAIN memorys : IsLive(a)' => IsLive(a)
  BY <1>0, <1>1, <1>4, <1>5, IdleFrame DEF IsLive, SameLocals
<1>8. \A u \in Threads : (UsesEntry(u) => thread[u].addr # a0) /\ a0 \notin held
  BY <1>1 DEF Places, Apart
<1>9. thread[t].call = "ExportModelCache" => ~IsLive(a0)'
  <2> SUFFICES ASSUME thread[t].call = "ExportModelCache", IsLive(a0)' PROVE FALSE
    OBVIOUS
  <2>1. a0 \notin held'
    BY <1>5, <1>8
  <2>2. PICK u \in Threads :
          thread'[u].pc \in {"retrieve", "lookup", "ask", "release"} /\ thread'[u].addr = a0
    BY <2>1 DEF IsLive
  <2>3. u # t
    BY <1>5, <2>2
  <2>4. UsesEntry(u) /\ thread[u].addr = a0
    BY <1>1, <1>4, <2>2, <2>3 DEF UsesEntry
  <2> QED
    BY <1>8, <2>4
<1>10. \A a \in DOMAIN memorys : memorys[a].fd \in Fds /\ memorys[a].serial \in Nat
  BY DEF TypeOK, Entry
<1>11. HasBuffer(t) => /\ allocated[fd0] = serial0 /\ fd0 \notin heldFds
                       /\ \A u \in Threads : u # t /\ HasBuffer(u) => thread[u].fd # fd0
                       /\ \A a \in DOMAIN memorys : IsLive(a) => memorys[a].fd # fd0
                       /\ \A u \in Threads : fd0 \notin thread[u].left
  BY <1>0 DEF Buffers, Live, Exclusive
<1>12. IsLive(a0)' => HasBuffer(t)
  BY <1>5, <1>6, <1>9
<1>live. \A a \in DOMAIN memorys' : IsLive(a)' =>
         \/ a \in DOMAIN memorys /\ IsLive(a) /\ memorys'[a] = memorys[a]
         \/ a = a0 /\ memorys'[a].fd = fd0 /\ memorys'[a].serial = serial0 /\ HasBuffer(t)
  BY <1>1, <1>7, <1>12
<1>13. \A u \in Threads : thread'[u].left \subseteq thread[u].left
  BY <1>4, <1>6
<1>14. Live'
  <2>1. \A u \in Threads : HasBuffer(u)' =>
          allocated'[thread'[u].fd] = thread'[u].serial /\ thread'[u].serial # 0
    BY <1>2, <1>4, <1>6 DEF Buffers, Live
  <2>2. \A a \in Addresses : IsLive(a)' /\ a \in DOMAIN memorys' =>
          allocated'[memorys'[a].fd] = memorys'[a].serial
    BY <1>2, <1>11, <1>live DEF Buffers, Live
  <2> QED
    BY <1>2, <1>13, <2>1, <2>2 DEF Buffers, Live
<1>15. Exclusive'
  <2>1. \A u \in Threads : HasBuffer(u)' => u # t /\ HasBuffer(u) /\ thread'[u] = thread[u]
    BY <1>4, <1>6
  <2>2. \A a \in DOMAIN memorys' : IsLive(a)' =>
          /\ memorys'[a].fd \notin heldFds'
          /\ \A u \in Threads : HasBuffer(u)' => thread'[u].fd # memorys'[a].fd
    BY <1>2, <1>11, <1>live, <2>1 DEF Buffers, Exclusive
  <2>3. \A a, b \in DOMAIN memorys' : a # b /\ IsLive(a)' /\ IsLive(b)' => memorys'[a].fd # memorys'[b].fd
    BY <1>11, <1>live DEF Buffers, Exclusive
  <2>4. \A u \in Threads : \A fd \in thread'[u].left :
          /\ fd \notin heldFds'
          /\ \A v \in Threads : HasBuffer(v)' => thread'[v].fd # fd
          /\ \A a \in DOMAIN memorys' : IsLive(a)' => memorys'[a].fd # fd
    BY <1>2, <1>11, <1>13, <1>live, <2>1 DEF Buffers, Exclusive
  <2> QED
    BY <1>2, <2>1, <2>2, <2>3, <2>4 DEF Buffers, Exclusive
<1>16. Known'
  <2>1. \A u \in Threads \ {t} : KnownOf(u)'
    <3> TAKE u \in Threads \ {t}
    <3>1. m_addrs'[u] = m_addrs[u]
      BY <1>5 DEF TypeOK
    <3>2. thread'[u] = thread[u] /\ KnownOf(u) /\ m_addrs[u] \subseteq DOMAIN memorys
      BY <1>4 DEF Buffers, Known, Places, Apart
    <3>3. /\ thread[u].pc \in {"ask", "release"} /\ thread[u].call \notin SharedCalls =>
               thread[u].addr \in DOMAIN memorys
          /\ thread[u].pc \in {"unmap", "erase"} => thread[u].addr \in DOMAIN memorys
      BY DEF Places, Apart, UsesEntry, Locals, Control, ControlOf, Paths, SharedCalls
    <3> QED
      BY <1>1, <1>2, <3>1, <3>2, <3>3 DEF KnownOf
  <2>2. KnownOf(t)'
    <3>1. \A a \in m_addrs'[t] : memorys'[a].fd \in lostFds'
      <4>1. \A a \in m_addrs[t] : a \in DOMAIN memorys /\ memorys[a].fd \in lostFds
        BY <1>2 DEF Places, Apart, KnownOf
      <4>2. m_addrs'[t] = m_addrs[t] \/ (m_addrs'[t] = m_addrs[t] \union {a0} /\ fd0 \in lostFds)
        BY <1>3, <1>5 DEF TypeOK
      <4> QED
        BY <1>1, <1>2, <4>1, <4>2
    <3> QED
      BY <1>2, <1>6, <3>1 DEF KnownOf
  <2>3. \A a \in DOMAIN memorys' : memorys'[a].serial <= serials'
    BY <1>1, <1>2, <1>3 DEF Buffers, Known
  <2> QED
    BY <1>2, <2>1, <2>2, <2>3 DEF Buffers, Known
<1>17. Remembered'
  <2>1. ASSUME NEW fd \in Fds, NEW u \in Threads, HasBuffer(u), thread[u].fd = fd, thread[u].serial = allocated[fd]
        PROVE  \/ HasBuffer(u)' /\ thread'[u].fd = fd /\ thread'[u].serial = allocated'[fd]
               \/ memorys'[a0] = [fd |-> fd, serial |-> allocated'[fd]]
    BY <1>0, <1>1, <1>2, <1>4, <2>1
  <2> QED
    BY <1>1, <1>2, <2>1 DEF Buffers, Remembered
<1> QED
  BY <1>14, <1>15, <1>16, <1>17 DEF Buffers

\* What the lemmas above establish of a step.
After(t) == TypeOK' /\ Control' /\ Places' /\ StepOf(t)

\* A step that makes no buffer and forgets none.
LEMMA BuffersStay ==
  ASSUME IInv, NEW t \in Threads, After(t), Shrinks(t), Hands(t), KnownOf(t)'
  PROVE  Buffers'
<1>1. Live' /\ Exclusive' /\ Known'
  BY BuffersShrink DEF IInv, After
<1>2. Remembered'
  BY BuffersRemembered DEF IInv, After, Buffers
<1> QED
  BY <1>1, <1>2 DEF Buffers

\* A call that begins does so without a buffer.
LEMMA StartsBuffers ==
  ASSUME IInv, NEW t \in Threads, After(t), NEW call, NEW a \in held \union {nullptr, Foreign},
         NEW pc \in {"allocate", "convert", "next", "lookup", "retrieve"},
         Starts(t, call, pc, a, {}), held' = held \/ held' = held \ {a},
         a = nullptr => pc \notin {"lookup", "retrieve"},
         UNCHANGED <<allocated, serials, memorys, m_addrs, heldFds, lostFds>>
  PROVE  Buffers'
<1>1. /\ thread'[t].pc = pc /\ thread'[t].addr = a /\ thread'[t].left = {} /\ thread'[t].serial = 0
      /\ thread'[t].fd \notin Fds /\ thread[t].pc = "idle"
  BY BufferAssumption DEF Starts
<1>2. ~HasBuffer(t) /\ ~HasBuffer(t)'
  BY <1>1 DEF HasBuffer
<1>3. \A u \in Threads : u # t => thread'[u] = thread[u]
  BY DEF After, StepOf
<1>4. \A b \in DOMAIN memorys' : IsLive(b)' => IsLive(b)
  <2>1. Foreign \notin DOMAIN memorys /\ nullptr \notin DOMAIN memorys
    BY BufferAssumption DEF IInv, TypeOK
  <2> QED
    BY <1>1, <1>3, <2>1 DEF IsLive
<1>5. Shrinks(t)
  BY <1>1, <1>2, <1>4 DEF Shrinks
<1>6. Hands(t)
  BY <1>2 DEF Hands
<1>7. KnownOf(t)'
  <2>1. KnownOf(t) /\ 0 <= serials
    BY DEF IInv, Buffers, Known, TypeOK
  <2> QED
    BY <1>1, <2>1 DEF KnownOf
<1> QED
  BY <1>5, <1>6, <1>7, BuffersStay

\* A client releases a buffer that it has by its descriptor alone.
LEMMA ReleaseBufferFdBuffers ==
  ASSUME IInv, NEW t \in Threads, After(t), ReleaseBufferFd(t)
  PROVE  Buffers'
<1>1. PICK fd \in heldFds : heldFds' = heldFds \ {fd} /\ ((Released(fd) /\ UNCHANGED lostFds) \/ Kept(fd))
  BY DEF ReleaseBufferFd
<1>2. UNCHANGED <<thread, held, memorys, m_addrs>>
  BY DEF ReleaseBufferFd, manager
<1>3. fd \in Fds /\ allocated[fd] # 0
  BY DEF IInv, TypeOK, Buffers, Live
<1>4. \A u \in Threads : (HasBuffer(u)' <=> HasBuffer(u)) /\ thread'[u] = thread[u]
  BY <1>2 DEF HasBuffer
<1>5. \A a : IsLive(a)' <=> IsLive(a)
  BY <1>2 DEF IsLive
<1>6. Unused(fd)'
  BY <1>1, <1>2, <1>4, <1>5 DEF Unused, IInv, Buffers, Exclusive
<1>7. /\ serials' = serials /\ lostFds \subseteq lostFds'
      /\ allocated'[fd] = 0 \/ (allocated' = allocated /\ fd \in lostFds')
      /\ \A gd \in Fds : gd # fd => allocated'[gd] = allocated[gd]
  BY <1>1, <1>3 DEF Released, Kept, IInv, TypeOK
<1>8. \A gd \in Fds : \/ allocated'[gd] = allocated[gd]
                      \/ allocated'[gd] = 0 /\ Unused(gd)'
  BY <1>6, <1>7
<1>9. Shrinks(t)
  BY <1>1, <1>2, <1>4, <1>5, <1>7, <1>8 DEF Shrinks
<1>10. Hands(t)
  BY <1>1, <1>2, <1>4, <1>7 DEF Hands
<1>11. KnownOf(t)'
  <2>1. KnownOf(t)
    BY DEF IInv, Buffers, Known
  <2>2. /\ thread[t].pc = "idle"
        /\ thread[t].serial <= serials /\ \A a \in m_addrs[t] : memorys[a].fd \in lostFds
    BY <2>1 DEF KnownOf, ReleaseBufferFd, At
  <2> QED
    BY <1>2, <1>7, <2>2 DEF KnownOf
<1> QED
  BY <1>9, <1>10, <1>11, BuffersStay

\* The driver opens the buffers of a cache; they are never released.
LEMMA ExportModelCacheBuffers ==
  ASSUME IInv, NEW t \in Threads, After(t), ExportModelCache(t)
  PROVE  Buffers'
<1>1. PICK fds \in SUBSET FreeFds :
        /\ Begin(t, "ExportModelCache", "next", [Idle EXCEPT !.left = fds, !.length = 1])
        /\ serials' = serials + Cardinality(fds)
        /\ \E number \in [fds -> (serials + 1)..(serials + Cardinality(fds))] :
             allocated' = [fd \in Fds |-> IF fd \in fds THEN number[fd] ELSE allocated[fd]]
        /\ lostFds' = lostFds \union fds
  BY DEF ExportModelCache
<1>2. UNCHANGED <<memorys, held, heldFds, m_addrs>>
  BY DEF ExportModelCache, manager, clients
<1>3. fds \in SUBSET Fds
  BY DEF FreeFds
<1>4. Starts(t, "ExportModelCache", "next", nullptr, fds)
  BY <1>1, <1>3, StartsWithFds DEF Calls, Pcs, IInv
<1>5. /\ thread[t].pc = "idle" /\ thread'[t].pc = "next" /\ thread'[t].left = fds /\ thread'[t].serial = 0
      /\ thread'[t].fd \notin Fds
  BY <1>4, BufferAssumption DEF Starts
<1>6. Cardinality(fds) \in Nat
  BY <1>3, BufferAssumption, FS_Subset, FS_CardinalityType
<1>7. /\ \A fd \in fds : allocated'[fd] \in (serials + 1)..serials'
      /\ \A fd \in Fds \ fds : allocated'[fd] = allocated[fd]
  BY <1>1, <1>3
<1>8. serials \in Nat /\ serials' \in Nat /\ serials <= serials'
  BY <1>1, <1>6, BufferAssumption DEF IInv, TypeOK
<1>9. ~HasBuffer(t) /\ ~HasBuffer(t)'
  BY <1>5 DEF HasBuffer
<1>10. \A a \in DOMAIN memorys : IsLive(a)' => IsLive(a)
  <2>1. \A u \in Threads : u # t => thread'[u] = thread[u]
    BY DEF After, StepOf
  <2> QED
    BY <1>2, <1>5, <2>1 DEF IsLive
<1>11. Opens(t, fds)
  BY <1>1, <1>2, <1>5, <1>7, <1>8, <1>9, <1>10 DEF Opens
<1>12. KnownOf(t)'
  <2>1. KnownOf(t)
    BY DEF IInv, Buffers, Known
  <2> QED
    BY <1>1, <1>2, <1>5, <1>8, <2>1 DEF KnownOf
<1> QED
  BY <1>11, <1>12, BuffersOpen DEF IInv, After, Locals

\* Beginning a call preserves what is known of buffers.
LEMMA CallBuffers ==
  ASSUME IInv, NEW t \in Threads, Call(t)
  PROVE  Buffers'
<1>0. After(t)
  BY CallTypes, CallPlaces, LocalsOfStep DEF IInv, After, Typed, Locals
<1> USE DEF manager, clients, lost
<1>1. TypeOK
  BY DEF IInv
<1>2. CASE AllocateBuffer(t)
  BY <1>0, <1>1, <1>2, CallsStart, StartsBuffers DEF AllocateBuffer
<1>3. CASE AllocateBufferFd(t)
  BY <1>0, <1>1, <1>3, CallsStart, StartsBuffers DEF AllocateBufferFd
<1>4. CASE ReleaseBuffer(t)
  <2>1. PICK a \in held \union {Foreign} : Starts(t, "ReleaseBuffer", "lookup", a, {}) /\ held' = held \ {a}
    BY <1>1, <1>4, CallsStart
  <2>2. a # nullptr
    BY <1>1, BufferAssumption DEF TypeOK
  <2> QED
    BY <1>0, <1>4, <2>1, <2>2, StartsBuffers DEF ReleaseBuffer
<1>5. CASE ReleaseBufferFd(t)
  BY <1>0, <1>5, ReleaseBufferFdBuffers
<1>6. CASE PrepareModel(t)
  <2>1. PICK pc \in {"allocate", "convert"} : Starts(t, "PrepareModel", pc, nullptr, {})
    BY <1>1, <1>6, CallsStart
  <2> QED
    BY <1>0, <1>6, <2>1, StartsBuffers DEF PrepareModel
<1>7. CASE GetSupportedOperation(t)
  <2>1. PICK pc \in {"allocate", "convert"} : Starts(t, "GetSupportedOperation", pc, nullptr, {})
    BY <1>1, <1>7, CallsStart
  <2> QED
    BY <1>0, <1>7, <2>1, StartsBuffers DEF GetSupportedOperation
<1>8. CASE PrepareOfflineModel(t)
  BY <1>0, <1>1, <1>8, CallsStart, StartsBuffers DEF PrepareOfflineModel
<1>9. CASE PrepareModelFromModelCache(t)
  <2>1. UNCHANGED <<allocated, serials, memorys, thread, held, heldFds, m_addrs, lostFds>>
    BY <1>9 DEF PrepareModelFromModelCache
  <2>2. \A u \in Threads : (HasBuffer(u)' <=> HasBuffer(u)) /\ (KnownOf(u)' <=> KnownOf(u))
    BY <2>1 DEF HasBuffer, KnownOf
  <2>3. \A a : IsLive(a)' <=> IsLive(a)
    BY <2>1 DEF IsLive
  <2>4. Shrinks(t) /\ Hands(t)
    BY <2>1, <2>2, <2>3 DEF Shrinks, Hands
  <2>5. KnownOf(t)'
    BY <2>2 DEF IInv, Buffers, Known
  <2> QED
    BY <1>0, <2>4, <2>5, BuffersStay
<1>10. CASE ExportModelCache(t)
  BY <1>0, <1>10, ExportModelCacheBuffers
<1>11. CASE Run(t)
  <2>1. PICK a \in held \union {Foreign} : Starts(t, "Run", "retrieve", a, {}) /\ held' = held \ {a}
    BY <1>1, <1>11, CallsStart
  <2>2. a # nullptr
    BY <1>1, BufferAssumption DEF TypeOK
  <2> QED
    BY <1>0, <1>11, <2>1, <2>2, StartsBuffers DEF Run
<1>12. CASE DestroyPreparedModel(t)
  BY <1>0, <1>1, <1>12, CallsStart, StartsBuffers DEF DestroyPreparedModel
<1> QED
  BY <1>2, <1>3, <1>4, <1>5, <1>6, <1>7, <1>8, <1>9, <1>10, <1>11, <1>12 DEF Call

LivePcs == {"retrieve", "lookup", "ask", "release"}

\* A step of t that keeps its buffer, if it has one, and its locals.
GoesOn(t) ==
  /\ UNCHANGED <<allocated, serials, memorys, held, heldFds, m_addrs, lostFds>>
  /\ HasBuffer(t)' <=> HasBuffer(t)
  /\ HasBuffer(t) => thread'[t].fd = thread[t].fd /\ thread'[t].serial = thread[t].serial
  /\ thread'[t].left \subseteq thread[t].left
  /\ thread'[t].pc \in LivePcs =>
       \/ thread[t].pc \in LivePcs /\ thread'[t].addr = thread[t].addr
       \/ thread'[t].addr \notin Addresses

\* A call that goes on with what it has.
LEMMA GoesOnBuffers ==
  ASSUME IInv, NEW t \in Threads, After(t), GoesOn(t), KnownOf(t)'
  PROVE  Buffers'
<1>1. \A u \in Threads : u # t => thread'[u] = thread[u]
  BY DEF After, StepOf
<1>2. \A a \in DOMAIN memorys' : a \in Addresses /\ (IsLive(a)' => IsLive(a))
  BY <1>1 DEF GoesOn, IsLive, LivePcs, IInv, TypeOK
<1>3. Shrinks(t)
  BY <1>2 DEF GoesOn, Shrinks
<1>4. Hands(t)
  BY DEF GoesOn, Hands
<1> QED
  BY <1>3, <1>4, BuffersStay

\* The call of t returns; its buffer, if it has one, is released or lost.
Ends(t) ==
  /\ thread'[t] = Idle
  /\ UNCHANGED <<serials, memorys, heldFds, m_addrs>> /\ lostFds \subseteq lostFds'
  /\ \A a \in DOMAIN memorys : a \in held' => IsLive(a)
  /\ \A fd \in Fds : \/ allocated'[fd] = allocated[fd]
                     \/ allocated'[fd] = 0 /\ HasBuffer(t) /\ thread[t].fd = fd
  /\ HasBuffer(t) => thread[t].fd \in lostFds' \/ allocated'[thread[t].fd] = 0

\* A call that returns has handed its buffer on, closed or lost it.
LEMMA ReturnBuffers ==
  ASSUME IInv, NEW t \in Threads, After(t), Ends(t)
  PROVE  Buffers'
<1>0. /\ thread'[t] = Idle
      /\ UNCHANGED <<serials, memorys, heldFds, m_addrs>> /\ lostFds \subseteq lostFds'
      /\ \A a \in DOMAIN memorys : a \in held' => IsLive(a)
      /\ \A fd \in Fds : \/ allocated'[fd] = allocated[fd]
                         \/ allocated'[fd] = 0 /\ HasBuffer(t) /\ thread[t].fd = fd
      /\ HasBuffer(t) => thread[t].fd \in lostFds' \/ allocated'[thread[t].fd] = 0
  BY DEF Ends
<1>1. \A u \in Threads : u # t => thread'[u] = thread[u] /\ (HasBuffer(u)' <=> HasBuffer(u))
  BY OthersStay DEF After
<1>2. ~HasBuffer(t)' /\ thread'[t].left = {}
  BY <1>0, IdleFrame DEF HasBuffer
<1>3. \A a \in DOMAIN memorys : IsLive(a)' => IsLive(a)
  BY <1>0, <1>1, IdleFrame DEF IsLive
<1>4. ASSUME NEW fd \in Fds, HasBuffer(t), thread[t].fd = fd
      PROVE  Unused(fd)'
  BY <1>0, <1>1, <1>2, <1>3, <1>4 DEF Unused, IInv, Buffers, Exclusive
<1>5. Shrinks(t)
  BY <1>0, <1>2, <1>3, <1>4 DEF Shrinks
<1>6. Hands(t)
  BY <1>0 DEF Hands
<1>7. KnownOf(t)'
  <2>1. \A a \in m_addrs[t] : memorys[a].fd \in lostFds
    BY DEF IInv, Buffers, Known, KnownOf
  <2>2. 0 <= serials
    BY DEF IInv, TypeOK
  <2> QED
    BY <1>0, <2>1, <2>2, IdleFrame DEF KnownOf
<1> QED
  BY <1>5, <1>6, <1>7, BuffersStay

\* A buffer just made is of the call that asked for it.
LEMMA DriverAllocatesBuffers ==
  ASSUME IInv, NEW t \in Threads, After(t), DriverAllocates(t)
  PROVE  Buffers'
<1>1. /\ thread[t].pc = "allocate" /\ UNCHANGED <<memorys, held, m_addrs, lostFds>>
      /\ ~HasBuffer(t) /\ thread[t].left = {} /\ KnownOf(t) /\ thread[t].addr \in Addresses \union {nullptr, Foreign}
  BY DEF DriverAllocates, At, manager, lost, HasBuffer, IInv, Locals, Control, ControlOf, Paths, SharedCalls,
         Buffers, Known, TypeOK, Frames
<1>2. CASE Return(t) /\ UNCHANGED <<allocated, serials, heldFds>>
  <2>1. thread'[t] = Idle
    BY <1>2, Returns DEF IInv
  <2> QED
    <3>1. \A a \in DOMAIN memorys : a \in held' => IsLive(a)
      BY <1>1 DEF IsLive
    <3>2. UNCHANGED <<serials, memorys, heldFds, m_addrs>> /\ lostFds \subseteq lostFds'
      BY <1>1, <1>2
    <3>3. Ends(t)
      BY <1>1, <1>2, <2>1, <3>1, <3>2 DEF Ends
    <3> QED
      BY <3>3, ReturnBuffers
<1>3. ASSUME NEW fd \in FreeFds, serials < MaxBuffers, serials' = serials + 1,
             allocated' = [allocated EXCEPT ![fd] = serials + 1],
             heldFds' = heldFds \union {fd}, Return(t)
      PROVE  Buffers'
  <2>1. /\ thread'[t] = Idle /\ \A u \in Threads : u # t => thread'[u] = thread[u]
        /\ serials \in Nat /\ serials' \in Nat /\ serials <= serials' /\ fd \in Fds
        /\ allocated'[fd] = serials + 1 /\ allocated'[fd] \in (serials + 1)..serials'
        /\ \A gd \in Fds \ {fd} : allocated'[gd] = allocated[gd]
    BY <1>3, Returns, BufferAssumption DEF IInv, After, StepOf, TypeOK, FreeFds
  <2>2. \A a \in DOMAIN memorys : IsLive(a)' => IsLive(a)
    BY <1>1, <2>1, IdleFrame DEF IsLive
  <2>3. ~HasBuffer(t)' /\ thread'[t].left = {}
    BY <2>1, IdleFrame DEF HasBuffer
  <2>4. Opens(t, {fd})
    BY <1>1, <1>3, <2>1, <2>2, <2>3 DEF Opens
  <2>5. KnownOf(t)'
    BY <1>1, <2>1, IdleFrame DEF KnownOf
  <2> QED
    BY <2>4, <2>5, BuffersOpen DEF IInv, After, Locals
<1>4. ASSUME NEW fd \in FreeFds, NEW pc \in {"map", "convert"}, UNCHANGED heldFds, Grant(t, fd, pc),
             pc = "map" => thread[t].call \in {"AllocateBuffer", "PrepareOfflineModel"}
      PROVE  Buffers'
  <2>1. /\ fd \in Fds /\ serials' = serials + 1
        /\ allocated' = [allocated EXCEPT ![fd] = serials + 1]
    BY <1>4 DEF FreeFds, Grant
  <2>2. LET f == thread[t]
            g == thread'[t]
        IN /\ StepOf(t) /\ g.pc = pc /\ g.fd = fd /\ g.serial = serials + 1
           /\ g.call = f.call /\ g.length = f.length /\ g.addr = f.addr /\ g.graph = f.graph
           /\ g.segments = f.segments /\ g.left = f.left
    BY <1>4, <2>1, Grants DEF IInv, Pcs
  <2>3. /\ serials \in Nat /\ serials' \in Nat /\ serials <= serials'
        /\ allocated'[fd] = serials + 1 /\ allocated'[fd] \in (serials + 1)..serials'
        /\ \A gd \in Fds \ {fd} : allocated'[gd] = allocated[gd]
    BY <2>1, BufferAssumption DEF IInv, TypeOK
  <2>4. HasBuffer(t)'
    BY <1>4, <2>1, <2>2 DEF HasBuffer
  <2>5. \A a \in DOMAIN memorys : IsLive(a)' => IsLive(a)
    BY <1>1, <1>4, <2>2 DEF IsLive, StepOf
  <2>6. Opens(t, {fd})
    BY <1>1, <1>4, <2>2, <2>3, <2>4, <2>5 DEF Opens
  <2>7. KnownOf(t)'
    BY <1>1, <1>4, <2>1, <2>2, <2>3 DEF KnownOf
  <2> QED
    BY <2>6, <2>7, BuffersOpen DEF IInv, After, Locals
<1> QED
  BY <1>2, <1>3, <1>4 DEF DriverAllocates

\* The two places where a call gives back a buffer that was never in the table.
LEMMA GivenBackBuffers ==
  ASSUME IInv, NEW t \in Threads, After(t), thread'[t] = Idle,
         thread[t].pc \in {"giveBack", "releaseShared"},
         \/ thread[t].fd = INVALID_FD /\ UNCHANGED <<allocated, serials, lostFds>>
         \/ Released(thread[t].fd) /\ UNCHANGED lostFds
         \/ Kept(thread[t].fd),
         UNCHANGED <<memorys, held, heldFds, m_addrs>>
  PROVE  Buffers'
<1>1. /\ HasBuffer(t) <=> thread[t].fd \in Fds
      /\ thread[t].fd \in Fds \union {INVALID_FD}
      /\ HasBuffer(t) => allocated[thread[t].fd] # 0 /\ thread[t].fd # INVALID_FD
  BY BufferAssumption DEF HasBuffer, IInv, TypeOK, Frames, Buffers, Live
<1>2. /\ serials' = serials /\ lostFds \subseteq lostFds'
      /\ \A fd \in Fds : \/ allocated'[fd] = allocated[fd]
                         \/ allocated'[fd] = 0 /\ HasBuffer(t) /\ thread[t].fd = fd
      /\ HasBuffer(t) => thread[t].fd \in lostFds' \/ allocated'[thread[t].fd] = 0
  BY <1>1 DEF Released, Kept, IInv, TypeOK
<1>3. \A a \in DOMAIN memorys : a \in held' => IsLive(a)
  BY DEF IsLive
<1>4. UNCHANGED <<serials, memorys, heldFds, m_addrs>>
  BY <1>2
<1>5. Ends(t)
  BY <1>2, <1>3, <1>4 DEF Ends
<1> QED
  BY <1>5, ReturnBuffers

\* The driver takes the buffer of a client, or the call ends with an error.
LEMMA DriverReleasesBuffers ==
  ASSUME IInv, NEW t \in Threads, After(t), DriverReleases(t)
  PROVE  Buffers'
<1> DEFINE fd == thread[t].fd
           a == thread[t].addr
<1>1. /\ thread[t].pc = "release" /\ ControlOf(t) /\ KnownOf(t)
      /\ UNCHANGED <<serials, memorys, heldFds, m_addrs, lostFds>>
  BY DEF DriverReleases, Released, At, IInv, Locals, Control, Buffers, Known, manager
<1>2. /\ thread[t].call \in {"ReleaseBuffer", "PrepareOfflineModel"} /\ ~HasBuffer(t) /\ thread[t].left = {}
      /\ UsesEntry(t) /\ a \in Addresses /\ fd \in Fds
  BY <1>1 DEF ControlOf, Paths, SharedCalls, HasBuffer, UsesEntry
<1>3. /\ a \in DOMAIN memorys /\ memorys[a].fd = fd /\ memorys[a].serial = thread[t].serial
      /\ IsLive(a) /\ a \notin held /\ \A u \in Threads : u # t /\ UsesEntry(u) => thread[u].addr # a
  BY <1>1, <1>2 DEF KnownOf, SharedCalls, IsLive, IInv, Places, Apart
<1>4. \A u \in Threads : u # t => thread'[u] = thread[u] /\ (HasBuffer(u)' <=> HasBuffer(u))
  BY OthersStay DEF After
<1>5. CASE Return(t) /\ UNCHANGED allocated /\ LeftWith(t, thread[t].call = "ReleaseBuffer")
  <2>1. thread'[t] = Idle
    BY <1>5, Returns DEF IInv
  <2>2. \A b \in DOMAIN memorys : b \in held' => IsLive(b)
    BY <1>3, <1>5 DEF LeftWith, IsLive
  <2>3. Ends(t)
    BY <1>1, <1>2, <1>5, <2>1, <2>2 DEF Ends
  <2> QED
    BY <2>3, ReturnBuffers
<1>6. CASE Released(fd) /\ Goto(t, "unmap") /\ UNCHANGED held
  <2>1. thread'[t].pc = "unmap" /\ SameLocals(t)
    BY <1>6, Goes DEF IInv, Pcs
  <2>2. allocated'[fd] = 0 /\ \A gd \in Fds : gd # fd => allocated'[gd] = allocated[gd]
    BY <1>2, <1>6 DEF Released, IInv, TypeOK
  <2>3. ~HasBuffer(t)'
    BY <2>1 DEF HasBuffer
  <2>4. \A b \in DOMAIN memorys : IsLive(b)' => IsLive(b) /\ b # a
    <3> TAKE b \in DOMAIN memorys
    <3> SUFFICES ASSUME IsLive(b)' PROVE IsLive(b) /\ b # a
      OBVIOUS
    <3>1. b \in Addresses
      BY DEF IInv, TypeOK
    <3>2. CASE b \in held'
      BY <1>3, <1>6, <3>2 DEF IsLive
    <3>3. CASE b \notin held'
      <4>1. PICK u \in Threads : thread'[u].pc \in {"retrieve", "lookup", "ask", "release"} /\ thread'[u].addr = b
        BY <3>3 DEF IsLive
      <4>2. u # t
        BY <2>1, <4>1
      <4>3. UsesEntry(u) /\ thread[u].addr = b /\ IsLive(b)
        BY <1>4, <3>1, <4>1, <4>2 DEF UsesEntry, IsLive
      <4> QED
        BY <1>3, <4>2, <4>3
    <3> QED
      BY <3>2, <3>3
  <2> HIDE DEF fd, a
  <2>5. \A gd : gd = fd => Unused(gd)'
    <3>1. /\ fd \notin heldFds
          /\ \A u \in Threads : HasBuffer(u) => thread[u].fd # fd
          /\ \A u \in Threads : fd \notin thread[u].left
          /\ \A b \in DOMAIN memorys : IsLive(b) /\ b # a => memorys[b].fd # fd
      BY <1>3 DEF IInv, Buffers, Exclusive
    <3>2. \A u \in Threads : thread'[u].left = thread[u].left
      BY <1>4, <2>1 DEF SameLocals
    <3> QED
      BY <1>1, <1>4, <2>3, <2>4, <3>1, <3>2 DEF Unused
  <2>6. Shrinks(t)
    <3>1. \A gd \in Fds : allocated'[gd] = allocated[gd] \/ (allocated'[gd] = 0 /\ Unused(gd)')
      BY <2>2, <2>5
    <3> QED
      BY <1>1, <2>1, <2>3, <2>4, <3>1 DEF Shrinks, SameLocals
  <2>7. Hands(t)
    BY <1>1, <1>2, <2>2 DEF Hands
  <2>8. KnownOf(t)'
    <3>1. memorys[a].serial # 0 /\ memorys[a].fd = fd
      BY <1>3 DEF IInv, TypeOK, Entry
    <3>2. thread'[t].addr = a /\ thread'[t].serial = thread[t].serial
      BY <2>1 DEF SameLocals, a
    <3> QED
      BY <1>1, <2>1, <2>2, <3>1, <3>2 DEF KnownOf
  <2> QED
    BY <2>6, <2>7, <2>8, BuffersStay
<1> QED
  BY <1>5, <1>6 DEF DriverReleases

\* Erasing an entry leaves its descriptor with the call.
LEMMA EraseBuffers ==
  ASSUME IInv, NEW t \in Threads, After(t), Erase(t)
  PROVE  Buffers'
<1>1. /\ thread[t].pc = "erase" /\ ControlOf(t) /\ KnownOf(t)
      /\ memorys' = [b \in DOMAIN memorys \ {thread[t].addr} |-> memorys[b]]
      /\ UNCHANGED <<allocated, serials, held, heldFds, m_addrs, lostFds>>
  BY DEF Erase, At, IInv, Locals, Control, Buffers, Known, lost
<1>2. thread[t].call \in {"ReleaseBuffer", "PrepareOfflineModel", "~HDIPreparedModel"} /\ ~HasBuffer(t)
      /\ thread[t].left = {}
  BY <1>1 DEF ControlOf, Paths, SharedCalls, HasBuffer
<1>3. \/ thread'[t] = Idle
      \/ thread'[t].pc = "next" /\ SameLocals(t)
  BY <1>1, <1>2, Returns, Goes DEF Erase, Answered, Pcs, IInv
<1>4. /\ thread'[t].pc \in {"idle", "next"} /\ ~HasBuffer(t)' /\ thread'[t].left = {}
      /\ thread'[t].serial <= serials
  BY <1>1, <1>2, <1>3, IdleFrame DEF HasBuffer, SameLocals, KnownOf, IInv, TypeOK
<1>5. /\ DOMAIN memorys' = DOMAIN memorys \ {thread[t].addr}
      /\ \A a \in DOMAIN memorys' : memorys'[a] = memorys[a]
  BY <1>1
<1>6. \A a : IsLive(a)' => IsLive(a)
  BY <1>1, <1>4 DEF IsLive, After, StepOf
<1>7. Shrinks(t)
  BY <1>1, <1>4, <1>5, <1>6 DEF Shrinks
<1>8. Hands(t)
  BY <1>1, <1>2, <1>5 DEF Hands, KnownOf
<1>9. KnownOf(t)'
  <2>1. m_addrs'[t] \subseteq DOMAIN memorys'
    BY DEF After, Places, Apart
  <2> QED
    BY <1>1, <1>4, <1>5, <2>1 DEF KnownOf
<1> QED
  BY <1>7, <1>8, <1>9, BuffersStay

\* A client that repeats a release after a MEMORY_ERROR has an address whose
\* buffer is gone, so UnMapFails needs the assumption.
LEMMA StepBuffers ==
  ASSUME ~ClientsRetry, IInv, NEW t \in Threads, Step(t)
  PROVE  Buffers'
<1>0. /\ After(t) /\ StepOf(t) /\ ControlOf(t) /\ KnownOf(t) /\ TypeOK
      /\ thread[t].fd \in Fds \union {INVALID_FD} /\ thread[t].addr \in Addresses \union {nullptr, Foreign}
  BY StepTypes, StepPlaces, LocalsOfStep DEF IInv, Buffers, After, Typed, Locals, Control, Known, TypeOK, Frames
<1>none. INVALID_FD \notin Fds /\ nullptr \notin Addresses /\ Foreign \notin Addresses
  BY BufferAssumption
<1> USE DEF manager, clients, lost
<1>1. ASSUME Return(t), UNCHANGED <<allocated, serials, memorys, heldFds, m_addrs, lostFds>>, ~HasBuffer(t),
             \A a \in DOMAIN memorys : a \in held' => IsLive(a)
      PROVE  Buffers'
  <2>1. thread'[t] = Idle
    BY <1>0, <1>1, Returns
  <2>2. Ends(t)
    BY <1>1, <2>1 DEF Ends
  <2> QED
    BY <1>0, <2>2, ReturnBuffers
<1>2. CASE DriverAllocates(t)
  BY <1>0, <1>2, DriverAllocatesBuffers
<1>3. CASE DriverAllocatesNothing(t)
  <2>1. /\ thread[t].pc = "allocate" /\ thread[t].fd = INVALID_FD /\ ~HasBuffer(t)
        /\ UNCHANGED <<allocated, serials, memorys, held, heldFds, m_addrs, lostFds>>
    BY <1>0, <1>3 DEF DriverAllocatesNothing, At, ControlOf, HasBuffer
  <2>2. CASE Return(t)
    BY <1>1, <2>1, <2>2 DEF IsLive
  <2>3. CASE Goto(t, "map")
    <3>1. thread'[t].pc = "map" /\ SameLocals(t)
      BY <1>0, <2>3, Goes DEF Pcs
    <3>2. GoesOn(t)
      BY <1>none, <2>1, <3>1 DEF GoesOn, HasBuffer, SameLocals, LivePcs
    <3>3. KnownOf(t)'
      BY <1>0, <1>none, <2>1, <3>1 DEF KnownOf, SameLocals
    <3> QED
      BY <1>0, <3>2, <3>3, GoesOnBuffers
  <2> QED
    BY <1>3, <2>2, <2>3 DEF DriverAllocatesNothing
<1>4. CASE Map(t)
  <2>1. /\ thread[t].pc = "map" /\ UNCHANGED <<allocated, serials, memorys, held, heldFds, m_addrs, lostFds>>
    BY <1>4 DEF Map, At
  <2>2. PICK a \in Addresses \ mapped : PointsAt(t, a, "register")
    BY <1>4 DEF Map, PointsAt
  <2>3. LET f == thread[t]
            g == thread'[t]
        IN /\ g.pc = "register" /\ g.addr = a
           /\ g.call = f.call /\ g.fd = f.fd /\ g.serial = f.serial /\ g.left = f.left
    BY <1>0, <2>2, Maps, AddressPcs
  <2>4. GoesOn(t)
    BY <2>1, <2>3 DEF GoesOn, HasBuffer, LivePcs
  <2>5. KnownOf(t)'
    BY <1>0, <2>1, <2>3 DEF KnownOf
  <2> QED
    BY <1>0, <2>4, <2>5, GoesOnBuffers
<1>5. CASE MapFails(t)
  <2>1. /\ thread[t].pc = "map" /\ UNCHANGED <<allocated, serials, memorys, held, heldFds, m_addrs, lostFds>>
    BY <1>5 DEF MapFails, At
  <2>2. CASE thread[t].call = "ExportModelCache"
    <3>1. Return(t) /\ ~HasBuffer(t)
      BY <1>5, <2>1, <2>2 DEF MapFails, HasBuffer, SharedCalls
    <3> QED
      BY <1>1, <2>1, <3>1 DEF IsLive
  <2>3. CASE thread[t].call # "ExportModelCache"
    <3>1. thread'[t].pc = "giveBack" /\ SameLocals(t)
      BY <1>0, <1>5, <2>3, Goes DEF MapFails, Pcs
    <3>2. GoesOn(t)
      BY <2>1, <2>3, <3>1 DEF GoesOn, HasBuffer, SameLocals, LivePcs
    <3>3. KnownOf(t)'
      BY <1>0, <2>1, <3>1 DEF KnownOf, SameLocals
    <3> QED
      BY <1>0, <3>2, <3>3, GoesOnBuffers
  <2> QED
    BY <2>2, <2>3
<1>6. CASE Register(t)
  BY <1>0, <1>6, RegisterBuffers DEF IInv, After
<1>7. CASE GiveBack(t)
  <2>1. thread[t].pc = "giveBack" /\ UNCHANGED <<memorys, held, heldFds, m_addrs>> /\ thread'[t] = Idle
    BY <1>0, <1>7, Returns DEF GiveBack, At
  <2>2. (Released(thread[t].fd) /\ UNCHANGED lostFds) \/ Kept(thread[t].fd)
    BY <1>7 DEF GiveBack
  <2> QED
    BY <1>0, <2>1, <2>2, GivenBackBuffers
<1>8. CASE NextBuffer(t)
  <2>1. /\ thread[t].pc = "next" /\ thread[t].call = "ExportModelCache" /\ ~HasBuffer(t)
        /\ UNCHANGED <<allocated, serials, memorys, held, heldFds, m_addrs, lostFds>>
    BY <1>8 DEF NextBuffer, At, HasBuffer
  <2>2. CASE Return(t)
    BY <1>1, <2>1, <2>2 DEF IsLive
  <2>3. CASE ~Return(t)
    <3>1. PICK fd \in thread[t].left :
            LET f == thread[t]
                g == thread'[t]
            IN /\ g.pc = "map" /\ g.fd = fd /\ g.serial = allocated[fd]
               /\ g.left = f.left \ {fd} /\ g.addr = nullptr /\ g.call = f.call
      BY <1>0, <1>8, <2>3, NextBufferTakes
    <3>2. allocated[fd] # 0 /\ fd \in lostFds /\ allocated[fd] <= serials
      BY DEF IInv, TypeOK, Frames, Buffers, Live, Known
    <3>3. GoesOn(t)
      BY <2>1, <3>1 DEF GoesOn, HasBuffer, LivePcs
    <3>4. KnownOf(t)'
      BY <1>0, <2>1, <3>1, <3>2 DEF KnownOf
    <3> QED
      BY <1>0, <3>3, <3>4, GoesOnBuffers
  <2> QED
    BY <2>2, <2>3
<1>9. CASE Convert(t)
  <2>1. /\ thread[t].pc = "convert" /\ thread[t].call \in SharedCalls /\ thread[t].addr = nullptr
        /\ UNCHANGED <<allocated, serials, memorys, held, heldFds, m_addrs, lostFds>>
    BY <1>0, <1>9 DEF Convert, At, ControlOf, Paths, SharedCalls
  <2>2. LET f == thread[t]
            g == thread'[t]
        IN /\ g.pc \in {"ask", "giveBack"} /\ g.addr = f.addr
           /\ g.call = f.call /\ g.fd = f.fd /\ g.serial = f.serial /\ g.left = f.left
    BY <1>0, <1>9 DEF Convert, Goto, TypeOK, Frames
  <2>3. GoesOn(t)
    BY <1>none, <2>1, <2>2 DEF GoesOn, HasBuffer, LivePcs
  <2>4. KnownOf(t)'
    BY <1>0, <2>1, <2>2 DEF KnownOf
  <2> QED
    BY <1>0, <2>3, <2>4, GoesOnBuffers
<1>10. ASSUME NEW pc \in {"ask", "release"}, thread[t].pc \in {"retrieve", "lookup"}, GetMemory(t, pc)
       PROVE  Buffers'
  <2>1. /\ UNCHANGED <<allocated, serials, memorys, held, heldFds, m_addrs, lostFds>> /\ ~HasBuffer(t)
        /\ thread[t].call \notin SharedCalls
    BY <1>0, <1>10 DEF GetMemory, HasBuffer, ControlOf, Paths, SharedCalls
  <2>2. CASE thread[t].addr \notin DOMAIN memorys
    <3>1. Return(t)
      BY <1>10, <2>2 DEF GetMemory
    <3> QED
      BY <1>1, <2>1, <3>1 DEF IsLive
  <2>3. CASE thread[t].addr \in DOMAIN memorys
    <3> DEFINE fd == memorys[thread[t].addr].fd
               serial == memorys[thread[t].addr].serial
    <3>1. thread' = [thread EXCEPT ![t].fd = fd, ![t].serial = serial, ![t].pc = pc]
      BY <1>10, <2>3 DEF GetMemory
    <3>2. fd \in Fds /\ serial \in 0..MaxBuffers /\ serial <= serials
      BY <1>0, <2>3 DEF TypeOK, Entry, IInv, Buffers, Known
    <3>3. memorys[thread[t].addr] = [fd |-> fd, serial |-> serial]
      BY <1>0, <2>3 DEF TypeOK, Entry
    <3> HIDE DEF fd, serial
    <3>4. LET f == thread[t]
              g == thread'[t]
          IN /\ g.pc = pc /\ g.fd = fd /\ g.serial = serial
             /\ g.call = f.call /\ g.addr = f.addr /\ g.left = f.left
      <4>1. pc \in Pcs
        BY DEF Pcs
      <4> QED
        BY <1>0, <3>1, <3>2, <4>1 DEF TypeOK, Frames
    <3>5. GoesOn(t)
      BY <1>10, <2>1, <3>4 DEF GoesOn, HasBuffer, LivePcs
    <3>6. KnownOf(t)'
      BY <1>0, <2>1, <3>2, <3>3, <3>4 DEF KnownOf
    <3> QED
      BY <1>0, <3>5, <3>6, GoesOnBuffers
  <2> QED
    BY <2>2, <2>3
<1>11. CASE Retrieve(t)
  BY <1>10, <1>11 DEF Retrieve, At
<1>12. CASE Lookup(t)
  BY <1>10, <1>12 DEF Lookup, At
<1>13. CASE DriverAnswers(t)
  <2>1. /\ thread[t].pc = "ask" /\ thread[t].call \in {"PrepareOfflineModel"} \union SharedCalls
        /\ UNCHANGED <<allocated, serials, memorys, held, heldFds, m_addrs, lostFds>>
    BY <1>0, <1>13 DEF DriverAnswers, At, ControlOf, Paths
  <2>2. /\ thread'[t].pc = IF thread[t].call = "PrepareOfflineModel" THEN "lookup" ELSE "releaseShared"
        /\ SameLocals(t)
    <3> DEFINE pc == IF thread[t].call = "PrepareOfflineModel" THEN "lookup" ELSE "releaseShared"
    <3>1. PICK answer \in {"model", "refused"} : thread' = [thread EXCEPT ![t].answer = answer, ![t].pc = pc]
      BY <1>13 DEF DriverAnswers
    <3>2. pc \in Pcs
      BY DEF Pcs
    <3> HIDE DEF pc
    <3>3. thread'[t].pc = pc /\ SameLocals(t)
      BY <1>0, <3>1, <3>2, Answers
    <3> QED
      BY <3>3 DEF pc
  <2>3. GoesOn(t)
    BY <2>1, <2>2 DEF GoesOn, HasBuffer, LivePcs, SharedCalls, SameLocals
  <2>4. KnownOf(t)'
    BY <1>0, <2>1, <2>2 DEF KnownOf, SameLocals
  <2> QED
    BY <1>0, <2>3, <2>4, GoesOnBuffers
<1>14. CASE DriverRuns(t)
  <2>1. ~HasBuffer(t) /\ thread[t].pc = "ask" /\ Return(t)
    BY <1>14 DEF DriverRuns, At, HasBuffer, SharedCalls
  <2>2. \A a \in DOMAIN memorys : a \in held' => IsLive(a)
    BY <1>14, <2>1 DEF DriverRuns, IsLive
  <2> QED
    BY <1>1, <1>14, <2>1, <2>2 DEF DriverRuns
<1>15. CASE ReleaseSharedBuffer(t)
  <2>1. thread[t].pc = "releaseShared" /\ UNCHANGED <<memorys, held, heldFds, m_addrs>> /\ thread'[t] = Idle
    BY <1>0, <1>15, Returns DEF ReleaseSharedBuffer, Answered, At
  <2>2. \/ thread[t].fd = INVALID_FD /\ UNCHANGED <<allocated, serials, lostFds>>
        \/ Released(thread[t].fd) /\ UNCHANGED lostFds
        \/ Kept(thread[t].fd)
    BY <1>15 DEF ReleaseSharedBuffer
  <2> QED
    BY <1>0, <2>1, <2>2, GivenBackBuffers
<1>16. CASE DriverReleases(t)
  BY <1>0, <1>16, DriverReleasesBuffers
<1>17. CASE NextAddress(t)
  <2>1. /\ thread[t].pc = "next" /\ ~HasBuffer(t)
        /\ UNCHANGED <<allocated, serials, memorys, held, heldFds, lostFds>>
    BY <1>17 DEF NextAddress, At, HasBuffer
  <2>2. CASE Return(t) /\ UNCHANGED m_addrs
    BY <1>1, <2>1, <2>2 DEF IsLive
  <2>3. ASSUME NEW a \in m_addrs[t], PointsAt(t, a, "unmap"),
               m_addrs' = [m_addrs EXCEPT ![t] = @ \ {a}]
        PROVE  Buffers'
    <3>1. a \in Addresses
      BY <1>0 DEF TypeOK
    <3>2. LET f == thread[t]
              g == thread'[t]
          IN /\ g.pc = "unmap" /\ g.addr = a
             /\ g.call = f.call /\ g.fd = f.fd /\ g.serial = f.serial /\ g.left = f.left
      BY <1>0, <2>3, <3>1, Maps, AddressPcs
    <3>3. m_addrs'[t] = m_addrs[t] \ {a} /\ \A u \in Threads : u # t => m_addrs'[u] = m_addrs[u]
      BY <1>0, <2>3 DEF TypeOK
    <3>4. ~HasBuffer(t)' /\ \A b : IsLive(b)' => IsLive(b)
      BY <1>0, <2>1, <3>2 DEF HasBuffer, IsLive, StepOf
    <3>5. Shrinks(t)
      BY <2>1, <3>2, <3>3, <3>4 DEF Shrinks
    <3>6. Hands(t)
      BY <2>1 DEF Hands
    <3>7. KnownOf(t)'
      BY <1>0, <2>1, <3>2, <3>3 DEF KnownOf
    <3> QED
      BY <1>0, <3>5, <3>6, <3>7, BuffersStay
  <2> QED
    BY <1>17, <2>2, <2>3 DEF NextAddress, PointsAt
<1>18. CASE UnMap(t)
  <2>1. /\ thread[t].pc = "unmap" /\ UNCHANGED <<allocated, serials, memorys, held, heldFds, m_addrs, lostFds>>
    BY <1>18 DEF UnMap, At
  <2>2. thread'[t].pc = "erase" /\ SameLocals(t)
    BY <1>0, <1>18, Goes DEF UnMap, Pcs
  <2>3. GoesOn(t)
    BY <2>1, <2>2 DEF GoesOn, HasBuffer, LivePcs, SameLocals
  <2>4. KnownOf(t)'
    BY <1>0, <2>1, <2>2 DEF KnownOf, SameLocals
  <2> QED
    BY <1>0, <2>3, <2>4, GoesOnBuffers
<1>19. CASE UnMapFails(t)
  <2>1. /\ thread[t].pc = "unmap" /\ ~HasBuffer(t) /\ held' = held
        /\ UNCHANGED <<allocated, serials, memorys, heldFds, m_addrs, lostFds>>
    BY <1>19 DEF UnMapFails, At, LeftWith, HasBuffer
  <2>2. CASE Return(t)
    BY <1>1, <2>1, <2>2 DEF IsLive
  <2>3. CASE Goto(t, "next")
    <3>1. thread'[t].pc = "next" /\ SameLocals(t)
      BY <1>0, <2>3, Goes DEF Pcs
    <3>2. GoesOn(t)
      BY <2>1, <3>1 DEF GoesOn, HasBuffer, LivePcs, SameLocals
    <3>3. KnownOf(t)'
      BY <1>0, <2>1, <3>1 DEF KnownOf, SameLocals
    <3> QED
      BY <1>0, <3>2, <3>3, GoesOnBuffers
  <2> QED
    BY <1>19, <2>2, <2>3 DEF UnMapFails
<1>20. CASE Erase(t)
  BY <1>0, <1>20, EraseBuffers
<1> QED
  BY <1>2, <1>3, <1>4, <1>5, <1>6, <1>7, <1>8, <1>9, <1>11, <1>12, <1>13, <1>14, <1>15,
     <1>16, <1>17, <1>18, <1>19, <1>20 DEF Step

-----------------------------------------------------------------------------
(* The theorems.                                                            *)

\* Nothing is allocated at first.
LEMMA Initially ==
  ASSUME Init
  PROVE  IInv
<1>1. \A t \in Threads : thread[t] = Idle
  BY DEF Init
<1>2. TypeOK
  BY IdleFrame, BufferAssumption DEF Init, TypeOK
<1>3. \A t \in Threads : /\ ControlOf(t) /\ GraphOf(t) /\ ~HasBuffer(t) /\ ~UsesEntry(t)
                         /\ thread[t].pc = "idle" /\ thread[t].left = {} /\ thread[t].serial = 0
  BY <1>1, IdleFrame, BufferAssumption
  DEF ControlOf, GraphOf, HasBuffer, UsesEntry, Paths, SharedCalls
<1>4. /\ \A a : a \notin DOMAIN memorys /\ a \notin mapped /\ a \notin held /\ a \notin lostAddresses
      /\ \A t \in Threads : m_addrs[t] = {}
      /\ heldFds = {} /\ serials = 0 /\ mtx = Nobody /\ \A fd \in Fds : allocated[fd] = 0
  BY DEF Init
<1>5. Locals
  BY <1>3 DEF Locals, Control, GraphsCopied
<1>6. Places
  BY <1>3, <1>4, BufferAssumption DEF Places, Apart, EveryEntryIsKept, Mappings, At
<1>7. Buffers
  <2>1. Live /\ Exclusive /\ Remembered
    BY <1>3, <1>4 DEF Live, Exclusive, Remembered
  <2>2. Known
    BY <1>3, <1>4 DEF Known, KnownOf
  <2> QED
    BY <2>1, <2>2 DEF Buffers
<1> QED
  BY <1>2, <1>5, <1>6, <1>7 DEF IInv

\* A step that changes nothing.
LEMMA Stutters ==
  ASSUME IInv, UNCHANGED vars
  PROVE  IInv'
<1>1. UNCHANGED <<version, allocated, serials, mapped, memorys, mtx, thread, held, heldFds, prepared,
                  m_addrs, lostFds, lostAddresses>>
  BY DEF vars, manager, clients, lost
<1>2. TypeOK'
  BY <1>1 DEF IInv, TypeOK
<1>3. Locals'
  BY <1>1 DEF IInv, Locals, Control, GraphsCopied, ControlOf, GraphOf
<1>4. Places'
  BY <1>1 DEF IInv, Places, Apart, EveryEntryIsKept, Mappings, UsesEntry, Erasing, Registering, At
<1>5. Buffers'
  BY <1>1 DEF IInv, Buffers, Live, Exclusive, Known, KnownOf, Remembered, HasBuffer, IsLive
<1> QED
  BY <1>2, <1>3, <1>4, <1>5 DEF IInv

\* Every step preserves the invariant, as long as no client repeats a release.
LEMMA EveryStep ==
  ASSUME ~ClientsRetry, IInv, [Next]_vars
  PROVE  IInv'
<1>1. CASE UNCHANGED vars
  BY <1>1, Stutters
<1>2. ASSUME NEW t \in Threads, Call(t)
      PROVE  IInv'
  <2>1. TypeOK' /\ Locals'
    BY <1>2, CallTypes, LocalsOfStep DEF IInv, Typed
  <2>2. Places' /\ Buffers'
    BY <1>2, CallPlaces, CallBuffers DEF IInv
  <2> QED
    BY <2>1, <2>2 DEF IInv
<1>3. ASSUME NEW t \in Threads, Step(t)
      PROVE  IInv'
  <2>1. TypeOK' /\ Locals'
    BY <1>3, StepTypes, LocalsOfStep DEF IInv, Typed, Buffers
  <2>2. Places' /\ Buffers'
    BY <1>3, StepPlaces, StepBuffers DEF IInv, Buffers
  <2> QED
    BY <2>1, <2>2 DEF IInv
<1> QED
  BY <1>1, <1>2, <1>3 DEF Next

\* The inductive invariant of the devices and of MemoryManager.
THEOREM Invariant == ~ClientsRetry => (Spec => []IInv)
<1> SUFFICES ASSUME ~ClientsRetry PROVE Spec => []IInv
  OBVIOUS
<1>1. Init => IInv
  BY Initially
<1>2. IInv /\ [Next]_vars => IInv'
  BY EveryStep
<1> QED
  BY <1>1, <1>2, PTL DEF Spec

\* Every call keeps its locals, the table and the clients' lists of the types
\* that the code gives them.
THEOREM TypeCorrect == ~ClientsRetry => (Spec => []TypeOK)
<1> SUFFICES ASSUME ~ClientsRetry PROVE Spec => []TypeOK
  OBVIOUS
<1>1. IInv => TypeOK
  BY DEF IInv
<1> QED
  BY <1>1, Invariant, PTL

\* The invariant makes every held address lead to a live buffer.
LEMMA HeldResolve ==
  ASSUME IInv
  PROVE  HeldBuffersResolve
<1> SUFFICES ASSUME NEW a \in held
             PROVE  a \in mapped /\ a \in DOMAIN memorys /\ allocated[memorys[a].fd] = memorys[a].serial
  BY DEF HeldBuffersResolve
<1>1. a \in DOMAIN memorys /\ a \in Addresses
  BY DEF IInv, Places, Apart, TypeOK
<1>2. allocated[memorys[a].fd] = memorys[a].serial
  BY <1>1 DEF IInv, Buffers, Live, IsLive
<1>3. ~Erasing(a)
  BY <1>1 DEF IInv, Places, Apart, Erasing, UsesEntry, At
<1>4. a \in mapped
  BY <1>1, <1>3 DEF IInv, Places, Mappings
<1> QED
  BY <1>1, <1>2, <1>4

\* HDIDeviceV2_1::AllocateBuffer, ReleaseBuffer, the prepared models and
\* MemoryManager: an address that a client holds is mapped and leads to the
\* live buffer it was made for.
THEOREM HeldResolved == ~ClientsRetry => (Spec => []HeldBuffersResolve)
<1> SUFFICES ASSUME ~ClientsRetry PROVE Spec => []HeldBuffersResolve
  OBVIOUS
<1>1. IInv => HeldBuffersResolve
  BY HeldResolve
<1> QED
  BY <1>1, Invariant, PTL

\* The invariant makes the driver read live and whole constants.
LEMMA ReadsWhole ==
  ASSUME IInv
  PROVE  DriverReadsWholeBuffers
<1> SUFFICES ASSUME NEW t \in Threads, thread[t].pc = "ask"
             PROVE  LET f == thread[t]
                        Stored == {i \in DOMAIN f.segments : f.graph.tensors[i] \in 1..SECUREC_MEM_MAX_LEN}
                        EndOf(i) == f.segments[i].offset + f.segments[i].dataSize
                    IN /\ f.fd # INVALID_FD => allocated[f.fd] = f.serial
                       /\ \A i \in Stored : /\ f.segments[i].fd = f.fd
                                            /\ f.segments[i].dataSize = f.graph.tensors[i]
                                            /\ EndOf(i) <= f.length
                       /\ \A i, j \in Stored : i < j => EndOf(i) <= f.segments[j].offset
  BY DEF DriverReadsWholeBuffers, At
<1>1. ControlOf(t) /\ GraphOf(t) /\ KnownOf(t) /\ thread[t].fd \in Fds \union {INVALID_FD}
  BY DEF IInv, Locals, Control, GraphsCopied, Buffers, Known, TypeOK, Frames
<1>2. CASE thread[t].call \notin SharedCalls
  <2>1. thread[t].segments = <<>>
    BY <1>1, <1>2 DEF GraphOf
  <2>2. thread[t].addr \in Addresses
    BY <1>1, <1>2 DEF ControlOf, Paths
  <2>3. thread[t].addr \in DOMAIN memorys
    BY <2>2 DEF IInv, Places, Apart, UsesEntry
  <2>4. allocated[memorys[thread[t].addr].fd] = memorys[thread[t].addr].serial
    BY <2>2, <2>3 DEF IInv, Buffers, Live, IsLive
  <2>5. allocated[thread[t].fd] = thread[t].serial
    BY <1>1, <1>2, <2>4 DEF KnownOf
  <2> QED
    BY <2>1, <2>5
<1>3. CASE thread[t].call \in SharedCalls
  <2> DEFINE graph == thread[t].graph
             fd == thread[t].fd
             s == Segments(graph, fd)
  <2>1. graph \in Graphs /\ thread[t].segments = s /\ thread[t].length = TensorSize(graph)
    BY <1>1, <1>3 DEF ControlOf, GraphOf
  <2>2. fd # INVALID_FD => allocated[fd] = thread[t].serial
    BY <1>1, <1>3 DEF IInv, Buffers, Live, HasBuffer
  <2>3. CASE fd # INVALID_FD
    <3>1. fd \in Fds
      BY <1>1, <2>3
    <3> HIDE DEF graph, fd
    <3>2. LET Stored == {i \in DOMAIN s : graph.tensors[i] \in 1..SECUREC_MEM_MAX_LEN}
          IN /\ \A i \in Stored : /\ s[i].fd = fd /\ s[i].dataSize = graph.tensors[i]
                                  /\ s[i].offset + s[i].dataSize <= TensorSize(graph)
             /\ \A i, j \in Stored : i < j => s[i].offset + s[i].dataSize <= s[j].offset
      BY <2>1, <3>1, SegmentsFit
    <3> QED
      BY <2>1, <2>2, <3>2 DEF graph, fd
  <2>4. CASE fd = INVALID_FD
    <3>1. TensorSize(graph) = 0
      BY <1>1, <2>1, <2>4 DEF GraphOf
    <3>2. DOMAIN s = 1..Len(graph.tensors)
      BY DEF Segments
    <3>3. \A i \in DOMAIN s : graph.tensors[i] = 0
      BY <2>1, <3>1, <3>2, NoConstants
    <3> HIDE DEF s
    <3> QED
      BY <2>1, <2>2, <2>4, <3>3
  <2> QED
    BY <2>3, <2>4
<1> QED
  BY <1>2, <1>3

\* HDIPreparedModel::Run, PrepareModel, PrepareOfflineModel and
\* GetSupportedOperation: the driver reads live buffers, and the constants of
\* the model lie whole and apart in theirs.
THEOREM ReadsWholeBuffers == ~ClientsRetry => (Spec => []DriverReadsWholeBuffers)
<1> SUFFICES ASSUME ~ClientsRetry PROVE Spec => []DriverReadsWholeBuffers
  OBVIOUS
<1>1. IInv => DriverReadsWholeBuffers
  BY ReadsWhole
<1> QED
  BY <1>1, Invariant, PTL

\* The invariant leaves nothing to nobody.
LEMMA NoLeaks ==
  ASSUME IInv
  PROVE  NothingLeaks
<1>1. \A a \in DOMAIN memorys : Owned(a)
  BY DEF IInv, Places, EveryEntryIsKept, Owned
<1>2. \A a \in mapped : Owned(a)
  BY <1>1 DEF IInv, Places, Mappings, Registering, Owned
<1>3. ASSUME NEW fd \in Fds, allocated[fd] # 0
      PROVE  \/ fd \in heldFds \union lostFds
             \/ \E t \in Threads : thread[t].fd = fd /\ thread[t].serial = allocated[fd]
             \/ \E a \in DOMAIN memorys : Owned(a) /\ memorys[a] = [fd |-> fd, serial |-> allocated[fd]]
  BY <1>1, <1>3 DEF IInv, Buffers, Remembered
<1> QED
  BY <1>1, <1>2, <1>3 DEF NothingLeaks

\* Every error path of the device: each buffer and each mapping is still with
\* somebody who will release it, or a failed release has lost it.
THEOREM NothingLeaked == ~ClientsRetry => (Spec => []NothingLeaks)
<1> SUFFICES ASSUME ~ClientsRetry PROVE Spec => []NothingLeaks
  OBVIOUS
<1>1. IInv => NothingLeaks
  BY NoLeaks
<1> QED
  BY <1>1, Invariant, PTL

\* Only the owner of a buffer has the driver release it.
OwnRelease ==
  \A fd \in Fds : allocated[fd] # 0 /\ allocated'[fd] # allocated[fd] =>
    \/ fd \in heldFds
    \/ \E t \in Threads : /\ thread[t].fd = fd /\ thread[t].serial = allocated[fd]
                          /\ thread'[t] # thread[t]

\* Under the invariant who releases a buffer knows it to be his.
LEMMA ReleasesOwn ==
  ASSUME IInv, Next
  PROVE  OwnRelease
<1> SUFFICES ASSUME NEW fd \in Fds, allocated[fd] # 0, allocated'[fd] # allocated[fd], fd \notin heldFds
             PROVE  \E t \in Threads : /\ thread[t].fd = fd /\ thread[t].serial = allocated[fd]
                                       /\ thread'[t] # thread[t]
  BY DEF OwnRelease
<1>0. allocated \in [Fds -> 0..MaxBuffers] /\ TypeOK
  BY DEF IInv, TypeOK
<1>1. ASSUME NEW t \in Threads, Call(t)
      PROVE  FALSE
  <2>1. CASE ExportModelCache(t)
    <3>1. PICK fds \in SUBSET FreeFds : \E number \in [fds -> (serials + 1)..(serials + Cardinality(fds))] :
            allocated' = [gd \in Fds |-> IF gd \in fds THEN number[gd] ELSE allocated[gd]]
      BY <2>1 DEF ExportModelCache
    <3>2. fd \notin fds
      BY DEF FreeFds
    <3> QED
      BY <3>1, <3>2
  <2>2. CASE ReleaseBufferFd(t)
    BY <1>0, <2>2 DEF ReleaseBufferFd, Released, Kept
  <2>3. CASE UNCHANGED allocated
    BY <2>3
  <2> QED
    BY <1>1, <2>1, <2>2, <2>3
    DEF Call, AllocateBuffer, AllocateBufferFd, ReleaseBuffer, PrepareModel, GetSupportedOperation,
        PrepareOfflineModel, PrepareModelFromModelCache, Run, DestroyPreparedModel
<1>2. ASSUME NEW t \in Threads, Step(t)
      PROVE  thread[t].fd = fd /\ thread[t].serial = allocated[fd] /\ thread'[t] # thread[t]
  <2>1. \/ DriverAllocates(t) \/ GiveBack(t) \/ ReleaseSharedBuffer(t) \/ DriverReleases(t)
        \/ UNCHANGED allocated
    BY <1>2
    DEF Step, DriverAllocatesNothing, Map, MapFails, Register, NextBuffer, Convert, Retrieve, Lookup,
        GetMemory, DriverAnswers, DriverRuns, NextAddress, UnMap, UnMapFails, Erase
  <2>2. ~DriverAllocates(t)
    BY <1>0 DEF DriverAllocates, Grant, FreeFds
  <2>3. CASE GiveBack(t) \/ ReleaseSharedBuffer(t)
    <3>1. Released(thread[t].fd) /\ Return(t) /\ thread[t].pc \in {"giveBack", "releaseShared"}
      BY <2>3 DEF GiveBack, ReleaseSharedBuffer, Kept, Answered, At
    <3>2. thread[t].fd = fd
      BY <1>0, <3>1 DEF Released
    <3>3. thread[t].serial = allocated[fd]
      BY <3>1, <3>2 DEF IInv, Buffers, Live, HasBuffer
    <3>4. thread'[t] # thread[t]
      BY <1>0, <3>1, Returns, IdleFrame
    <3> QED
      BY <3>2, <3>3, <3>4
  <2>4. CASE DriverReleases(t)
    <3>1. Released(thread[t].fd) /\ Goto(t, "unmap") /\ thread[t].pc = "release"
      BY <2>4 DEF DriverReleases, At
    <3>2. thread[t].fd = fd
      BY <1>0, <3>1 DEF Released
    <3>3. KnownOf(t) /\ thread[t].call \notin SharedCalls /\ thread[t].addr \in Addresses
      BY <3>1 DEF IInv, Buffers, Known, Locals, Control, ControlOf, Paths, SharedCalls
    <3>4. thread[t].addr \in DOMAIN memorys /\ IsLive(thread[t].addr)
      BY <3>1, <3>3 DEF IInv, Places, Apart, UsesEntry, IsLive
    <3>5. allocated[memorys[thread[t].addr].fd] = memorys[thread[t].addr].serial
      BY <3>3, <3>4 DEF IInv, Buffers, Live
    <3>6. memorys[thread[t].addr].fd = thread[t].fd /\ memorys[thread[t].addr].serial = thread[t].serial
      BY <3>1, <3>3 DEF KnownOf
    <3>7. thread[t].serial = allocated[fd]
      BY <3>2, <3>5, <3>6
    <3>8. thread'[t] # thread[t]
      BY <1>0, <3>1, Goes DEF Pcs
    <3> QED
      BY <3>2, <3>7, <3>8
  <2> QED
    BY <2>1, <2>2, <2>3, <2>4
<1> QED
  BY <1>1, <1>2 DEF Next

\* ReleaseBuffer, ReleaseSharedBuffer and the error paths of AllocateBuffer and
\* PrepareOfflineModel: a descriptor that is used again is never released by
\* a call that knows it from an earlier buffer.
THEOREM ReleasedByOwner == ~ClientsRetry => (Spec => OwnBufferReleased)
<1> SUFFICES ASSUME ~ClientsRetry PROVE Spec => OwnBufferReleased
  OBVIOUS
<1>1. IInv /\ [Next]_vars => [OwnRelease]_vars
  BY ReleasesOwn
<1>2. Spec => [][OwnRelease]_vars
  BY <1>1, Invariant, PTL DEF Spec
<1> QED
  BY <1>2 DEF OwnBufferReleased, OwnRelease
=============================================================================
