CONSTANTS
  Tensors = {t1, t2, t3}
  Fds = {f1, f2}
  Addresses = {a1, a2, a3}
  Sizes = {0, 1, 2}
  Lengths = {1, 2, 3}
  ALLOCATE_BUFFER_LIMIT = 2
  SIZE_MAX = 15
  DimRanges = {1, 2}
  MaxAbandoned = 2
SPECIFICATION Spec
INVARIANTS
  TypeOK
  EveryMemoryHasOneOwner
  DeviceGetsWholeTensors
PROPERTIES
  UserMemoryIsKept
SYMMETRY Symmetric
