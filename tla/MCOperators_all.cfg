\* Every operation, with every parameter and every pair of parameters.
CONSTANTS
  Chosen <- AllOperations
  Lossy <- KnownLosses
  Builders <- Registry
  TensorKinds = {}
  TensorTypes = {}
  Quants = {}
  Values = {0, 1, 3}
  Operations = {}
  ParamLists = {}
  InputLists = {}
  OutputLists = {}
  LiteGraphs = {}
  InfoLists = {}
  MaxDataLength = 64
  MaxTensors = 64
  MaxOps = 1
SPECIFICATION PreparedSpec
INVARIANT
  ArgumentsReachTheDevice
PROPERTY
  OrderOfParametersIsFree
\* A model ends when it is finished or refused.
CHECK_DEADLOCK FALSE
