\* The three sources of a graph against each other: two tensors of any kind, one operation.
CONSTANTS
  Builders <- Registry
  Lossy <- KnownLosses
  TensorKinds <- AllKinds
  TensorTypes = {"OH_NN_TENSOR", "OH_NN_ADD_ACTIVATIONTYPE"}
  Quants = {"none", "some", "invalid"}
  Values = {0, 9}
  Operations = {"OH_NN_OPS_RELU", "OH_NN_OPS_SCALE", "OH_NN_OPS_QUANT_DTYPE_CAST", "OH_NN_OPS_NONE"}
  ParamLists <- NoParams
  InputLists <- AnyList
  OutputLists <- AnyList
  LiteGraphs <- Graphs
  InfoLists <- Infos
  MaxDataLength = 8
  MaxTensors = 2
  MaxOps = 1
SPECIFICATION Spec
VIEW StateWithoutRet
INVARIANTS
  EndsAreOfOneKind
PROPERTIES
  FinishedModelIsFrozen
\* A destroyed model, and a process that has stopped, take no call.
CHECK_DEADLOCK FALSE
