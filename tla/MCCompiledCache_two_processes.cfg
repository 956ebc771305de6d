\* Two processes, building and reloading the same version for one device.
CONSTANTS
  Builders = {b1, b2}
  Probes = {}
  LastFile = 2
  Versions = {1}
  Devices = {d1}
  Images <- MCImages
  MaxSaves = 3
  MaxOpVersion = 1
SPECIFICATION Spec
SYMMETRY Symmetry
VIEW View
INVARIANTS
  RestoreIsAtomic
  LabelFollowsOpVersion
