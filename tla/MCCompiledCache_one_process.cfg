\* One process, which builds for two devices, and one thread that calls HasCache.
CONSTANTS
  Builders = {b1}
  Probes = {p1}
  LastFile = 2
  Versions = {1, 2}
  Devices = {d1, d2}
  Images <- MCImages
  MaxSaves = 2
  MaxOpVersion = 1
SPECIFICATION Spec
SYMMETRY Symmetry
INVARIANTS
  DeviceGetsCheckedFiles
  SuccessLeavesCache
PROPERTIES
  LaterVersionsAreKept
