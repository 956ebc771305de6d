\* Two operations over three tensors and their data, in every order of the calls.
CONSTANTS
  Builders <- Registry
  Lossy <- KnownLosses
  TensorKinds <- TwoKinds
  TensorTypes = {"OH_NN_TENSOR"}
  Quants = {"none"}
  Values = {0, 1}
  Operations = {"OH_NN_OPS_RELU", "OH_NN_OPS_ADD", "OH_NN_OPS_QUANT_DTYPE_CAST"}
  ParamLists <- AddParams
  InputLists <- InputsOfAdd
  OutputLists <- FirstOrThird
  LiteGraphs = {}
  InfoLists = {}
  MaxDataLength = 8
  MaxTensors = 3
  MaxOps = 2
SPECIFICATION Spec
VIEW StateWithoutRet
INVARIANTS
  GraphIndicesResolve
  ArgumentsAreTensorData
PROPERTIES
  CompositionSpec
\* A destroyed model, and a process that has stopped, take no call.
CHECK_DEADLOCK FALSE
