CONSTANTS
  BackendIDs = {1, 2}
  BackendNames = {"v1", "v2"}
  Libraries <- MCLibraries
  none = none
  Supported <- MCSupported
  Wanted = {"cache", "performance"}
  MaxExecutors = 1
SPECIFICATION Spec
INVARIANTS
  TypeOK
  RegistryAgrees
  SettingsAreSupported
  ExecutorsUseTheirDevice
PROPERTIES
  BuiltAtMostOnce
  SuccessIsAsAsked
CHECK_DEADLOCK FALSE
