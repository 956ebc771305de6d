CONSTANTS
  Threads = {t1, t2}
  Nobody = Nobody
  Fds = {f1, f2}
  INVALID_FD = INVALID_FD
  Addresses = {a1, a2}
  nullptr = nullptr
  Foreign = Foreign
  Lengths <- MCLengths
  ALLOCATE_BUFFER_LIMIT = 50
  Graphs <- MCGraphs
  SECUREC_MEM_MAX_LEN = 8
  MaxBuffers = 3
  ClientsRetry = FALSE
SPECIFICATION Spec
INVARIANTS HeldBuffersResolve DriverReadsWholeBuffers NothingLeaks
PROPERTY OwnBufferReleased
SYMMETRY Symmetric
