----------------------------- MODULE InnerModel -----------------------------
(***************************************************************************)
(* Composition of one model: OH_NNModel_* and the class InnerModel.        *)
(*                                                                         *)
(* The application adds tensors, gives some of them data, names the        *)
(* operations and the ends of the model, and Finish turns all of it into a *)
(* LiteGraph.  A tensor that an operation took as a parameter is marked    *)
(* and has no place in the graph, so the indices of the model and those of *)
(* the graph differ.  Two other ways give the model a graph: a LiteGraph   *)
(* or a meta graph that the application already has.                       *)
(*                                                                         *)
(* Tensors, operations and nodes are numbered from 1.  Null arguments,     *)
(* which every function refuses, and failures to allocate are left out.    *)
(* The application is one thread.                                          *)
(***************************************************************************)
EXTENDS OpsBuilder

CONSTANTS
  Builders,      \* OpsRegistry: the builder of each operation type
  TensorKinds,   \* descriptions of tensors, the refused ones among them
  TensorTypes,   \* OH_NN_TensorType values that SetTensorType may be given
  Quants,        \* quantization parameters: "none", "some", "invalid" (numBits other than 8)
  Values,        \* data a tensor may be given, abstracted to its first element
  Operations,    \* operation types that AddOperation may be given
  ParamLists,    \* arrays of parameter indices that AddOperation may be given
  InputLists,    \* arrays of input indices
  OutputLists,   \* arrays of output indices
  LiteGraphs,    \* graphs for BuildFromLiteGraph
  InfoLists,     \* arrays for SetInputsAndOutputsInfo, of the kinds above
  MaxDataLength, \* UINT32_MAX
  MaxTensors,    \* bound: tensors
  MaxOps         \* bound: operations

ASSUME InnerModelAssumption ==
  /\ \A list \in ParamLists \union InputLists \union OutputLists : list \in Seq(Nat)
  /\ \A graph \in LiteGraphs : /\ graph.inputs \in Seq(Nat)
                               /\ graph.outputs \in Seq(Nat)
  /\ \A list \in InfoLists : list \in Seq(Range(list))

VARIABLES
  tensors,       \* m_allTensors
  ops,           \* m_ops, with the parameter indices each was built from
  inputIndices,  \* m_inputIndices
  outputIndices, \* m_outputIndices
  inputTensors,  \* m_inputTensors: where each comes from, "model" or "graph", and its index
  outputTensors, \* m_outputTensors
  liteGraph,     \* m_liteGraph
  metaGraph,     \* m_metaGraph # nullptr
  supported,     \* m_supportedOperations.size()
  alive,         \* OH_NNModel_Destroy has not been called
  fault,         \* what stops the process: "none", "null" or "out_of_range"
  ret            \* return code of the last call

vars == <<tensors, ops, inputIndices, outputIndices, inputTensors, outputTensors,
          liteGraph, metaGraph, supported, alive, fault, ret>>
ends == <<inputIndices, outputIndices, inputTensors, outputTensors>>
graphs == <<liteGraph, metaGraph>>

NoGraph == [origin |-> "none", tensors |-> <<>>, inputs |-> <<>>, outputs |-> <<>>,
            nodes |-> <<>>, subGraph |-> FALSE]
MetaGraphOnly == metaGraph
IsBuild == liteGraph # NoGraph \/ metaGraph

Init ==
  /\ tensors = <<>> /\ ops = <<>>
  /\ inputIndices = <<>> /\ outputIndices = <<>>
  /\ inputTensors = <<>> /\ outputTensors = <<>>
  /\ liteGraph = NoGraph /\ metaGraph = FALSE
  /\ supported = 0
  /\ alive = TRUE /\ fault = "none"
  /\ ret = "OH_NN_SUCCESS"

Calling == alive /\ fault = "none"
Returns(code) == ret' = code
Refuses(code) ==
  /\ Returns(code)
  /\ UNCHANGED <<tensors, ops, ends, graphs, supported, alive, fault>>

-----------------------------------------------------------------------------
(* NNTensor.                                                               *)
TypeSize(dtype) ==
  CASE dtype \in {"OH_NN_BOOL", "OH_NN_INT8", "OH_NN_UINT8"} -> 1
    [] dtype \in {"OH_NN_INT16", "OH_NN_UINT16", "OH_NN_FLOAT16"} -> 2
    [] dtype \in {"OH_NN_INT32", "OH_NN_UINT32", "OH_NN_FLOAT32"} -> 4
    [] dtype \in {"OH_NN_INT64", "OH_NN_UINT64", "OH_NN_FLOAT64"} -> 8
    [] OTHER -> 0

(* A dynamic dimension counts as one in the check of the length.           *)
ValidateDimensions(kind) ==
  /\ \A i \in DOMAIN kind.dims : kind.dims[i] = -1 \/ kind.dims[i] > 0
  /\ FoldFunction(LAMBDA d, n : (IF d = -1 THEN 1 ELSE d) * n,
                  TypeSize(kind.dtype), kind.dims) <= MaxDataLength

DataLength(t) == TypeSize(t.dtype) * ElementCount(t)

NewTensor(type, kind, quant) ==
  [type |-> type, dtype |-> kind.dtype, dims |-> kind.dims, quant |-> quant,
   data |-> <<>>, isOpParameter |-> FALSE]

AddTensor(kind, quant) ==
  /\ Calling /\ Len(tensors) < MaxTensors
  /\ IF IsBuild THEN Refuses("OH_NN_OPERATION_FORBIDDEN")
     ELSE IF ~ValidateDimensions(kind) \/ quant = "invalid"
     THEN Refuses("OH_NN_INVALID_PARAMETER")
     ELSE /\ tensors' = Append(tensors, NewTensor(kind.type, kind, quant = "some"))
          /\ Returns("OH_NN_SUCCESS")
          /\ UNCHANGED <<ops, ends, graphs, supported, alive, fault>>

(* InnerModel::AddTensorDesc does not ask IsBuild.                         *)
AddTensorDesc(kind) ==
  /\ Calling /\ Len(tensors) < MaxTensors
  /\ IF ~ValidateDimensions(kind) THEN Refuses("OH_NN_INVALID_PARAMETER")
     ELSE /\ tensors' = Append(tensors, NewTensor("OH_NN_TENSOR", kind, FALSE))
          /\ Returns("OH_NN_SUCCESS")
          /\ UNCHANGED <<ops, ends, graphs, supported, alive, fault>>

SetTensorType(index, type) ==
  /\ Calling
  /\ IF IsBuild THEN Refuses("OH_NN_OPERATION_FORBIDDEN")
     ELSE IF index \notin DOMAIN tensors
     THEN Refuses("OH_NN_INVALID_PARAMETER")
     ELSE /\ tensors' = [tensors EXCEPT ![index].type = type]
          /\ Returns("OH_NN_SUCCESS")
          /\ UNCHANGED <<ops, ends, graphs, supported, alive, fault>>

(* The old parameters are cleared before the new ones are looked at.       *)
SetTensorQuantParam(index, quant) ==
  /\ Calling
  /\ IF IsBuild THEN Refuses("OH_NN_OPERATION_FORBIDDEN")
     ELSE IF index \notin DOMAIN tensors
     THEN Refuses("OH_NN_INVALID_PARAMETER")
     ELSE /\ tensors' = [tensors EXCEPT ![index].quant = (quant = "some")]
          /\ Returns(IF quant = "invalid"
                                            THEN "OH_NN_INVALID_PARAMETER"
                                            ELSE "OH_NN_SUCCESS")
          /\ UNCHANGED <<ops, ends, graphs, supported, alive, fault>>

ValueOverwrites(index, fits) ==
  IF IsBuild THEN "OH_NN_OPERATION_FORBIDDEN"
  ELSE IF index \notin DOMAIN tensors THEN "OH_NN_INVALID_PARAMETER"
  ELSE IF ~fits THEN "OH_NN_INVALID_PARAMETER" ELSE "OH_NN_SUCCESS"

(* A tensor takes data once, of its own length.                            *)
ValueResult(index, fits) ==
  IF IsBuild THEN "OH_NN_OPERATION_FORBIDDEN"
  ELSE IF index \notin DOMAIN tensors THEN "OH_NN_INVALID_PARAMETER"
  ELSE IF tensors[index].data # <<>> THEN "OH_NN_INVALID_PARAMETER"
  ELSE IF IsDynamicShape(tensors[index]) THEN "OH_NN_OPERATION_FORBIDDEN"
  ELSE IF ~fits \/ DataLength(tensors[index]) = 0 THEN "OH_NN_INVALID_PARAMETER"
  ELSE "OH_NN_SUCCESS"

SetTensorValue(index, value, fits) ==
  /\ Calling
  /\ IF ValueResult(index, fits) # "OH_NN_SUCCESS"
     THEN Refuses(ValueResult(index, fits))
     ELSE /\ tensors' = [tensors EXCEPT ![index].data = <<value>>]
          /\ Returns("OH_NN_SUCCESS")
          /\ UNCHANGED <<ops, ends, graphs, supported, alive, fault>>

-----------------------------------------------------------------------------
(* Operations and the ends of the model.                                   *)
ValidateTensorArray(indices) == \A i \in DOMAIN indices : indices[i] \in DOMAIN tensors

ValidateInputAndOutput(inputs, outputs) ==
  /\ Len(inputs) \in 1..MaxIndices /\ Len(outputs) \in 1..MaxIndices
  /\ ValidateTensorArray(inputs) /\ ValidateTensorArray(outputs)
  /\ \A i \in DOMAIN inputs : tensors[inputs[i]].type = "OH_NN_TENSOR"
  /\ \A i \in DOMAIN outputs : tensors[outputs[i]].type = "OH_NN_TENSOR"
  /\ \A i \in DOMAIN inputs, j \in DOMAIN outputs : inputs[i] # outputs[j]

(* The tensors a failing builder has marked stay marked.                   *)
Marking(marked) ==
  tensors' = [i \in DOMAIN tensors |->
                [tensors[i] EXCEPT !.isOpParameter = @ \/ i \in marked]]

AddOperation(type, params, inputs, outputs) ==
  /\ Calling /\ Len(ops) < MaxOps
  /\ IF IsBuild THEN Refuses("OH_NN_OPERATION_FORBIDDEN")
     ELSE IF \/ ~ValidateInputAndOutput(inputs, outputs)
             \/ ~ValidateTensorArray(params)
             \/ type \notin DOMAIN Builders
     THEN Refuses("OH_NN_INVALID_PARAMETER")
     ELSE \E built \in {Build(Builders[type], params, inputs, outputs, tensors)} :
             /\ Marking(built.marked)
             /\ ops' = IF built.ret # "OH_NN_SUCCESS" THEN ops
                       ELSE Append(ops, [type |-> type, params |-> params, ins |-> inputs,
                                         outs |-> outputs, attributes |-> built.attributes,
                                         quantAll |-> built.quantAll])
             /\ fault' = IF built.ret = "null" THEN "null" ELSE fault
             /\ Returns(built.ret)
             /\ UNCHANGED <<ends, graphs, supported, alive>>

OfModel(indices) == [i \in DOMAIN indices |-> [from |-> "model", index |-> indices[i]]]
OfGraph(indices) == [i \in DOMAIN indices |-> [from |-> "graph", index |-> indices[i]]]

SpecifyInputsAndOutputs(inputs, outputs) ==
  /\ Calling
  /\ IF IsBuild \/ inputTensors # <<>>
     THEN Refuses("OH_NN_OPERATION_FORBIDDEN")
     ELSE IF ~ValidateInputAndOutput(inputs, outputs)
     THEN Refuses("OH_NN_INVALID_PARAMETER")
     ELSE /\ inputIndices' = inputs
          /\ outputIndices' = outputs
          /\ inputTensors' = OfModel(inputs)
          /\ outputTensors' = outputTensors \o OfModel(outputs)
          /\ Returns("OH_NN_SUCCESS")
          /\ UNCHANGED <<tensors, ops, graphs, supported, alive, fault>>

CheckParameters ==
  /\ ~IsBuild /\ tensors = <<>>
  /\ inputTensors = <<>> /\ inputIndices = <<>>
  /\ outputTensors = <<>> /\ outputIndices = <<>>

(* The infos before the first refused one have become tensors.             *)
Accepted(infos, count) ==
  /\ \A i \in 1..count : ValidateDimensions(infos[i])
  /\ count < Len(infos) => ~ValidateDimensions(infos[count + 1])

SetInputsAndOutputsInfo(inputs, outputs) ==
  /\ Calling /\ inputs # <<>> /\ outputs # <<>>
  /\ IF ~CheckParameters THEN Refuses("OH_NN_OPERATION_FORBIDDEN")
     ELSE \E count \in 0..Len(inputs \o outputs) :
            LET infos == inputs \o outputs
                ins == [i \in 1..(IF count < Len(inputs) THEN count ELSE Len(inputs)) |-> i]
                outs == [i \in 1..(count - Len(ins)) |-> Len(inputs) + i]
            IN /\ Accepted(infos, count)
               /\ tensors' = [i \in 1..count |-> NewTensor("OH_NN_TENSOR", infos[i], FALSE)]
               /\ inputIndices' = ins /\ inputTensors' = OfModel(ins)
               /\ outputIndices' = outs /\ outputTensors' = OfModel(outs)
               /\ Returns(IF count = Len(infos) THEN "OH_NN_SUCCESS"
                                                ELSE "OH_NN_INVALID_PARAMETER")
               /\ UNCHANGED <<ops, graphs, supported, alive, fault>>

-----------------------------------------------------------------------------
(* Graphs.                                                                 *)

(* AddTensorsToLiteGraph: the tensors that are not marked, in order, and   *)
(* modelIDToGraphID, the place each has in the graph.                      *)
GraphTensors ==
  SelectSeq([i \in DOMAIN tensors |-> i], LAMBDA i : ~tensors[i].isOpParameter)
modelIDToGraphID ==
  [i \in Range(GraphTensors) |-> CHOOSE g \in DOMAIN GraphTensors : GraphTensors[g] = i]
HaveGraphID(indices) == Range(indices) \subseteq DOMAIN modelIDToGraphID
SameIDs(indices) == indices
ToGraphIDs(indices) == [i \in DOMAIN indices |-> modelIDToGraphID[indices[i]]]

(* AddNodesToLiteGraph: the index lookups come before GetPrimitive.        *)
NodeResult(op) ==
  IF ~(HaveGraphID(op.ins) /\ HaveGraphID(op.outs)) THEN "out_of_range"
  ELSE GetPrimitive(Builders[op.type], op.attributes)

Node(op) ==
  [type |-> op.type, ins |-> ToGraphIDs(op.ins), outs |-> ToGraphIDs(op.outs),
   arguments |-> PrimitiveArguments(Builders[op.type], op.attributes),
   quantAll |-> op.quantAll]

NodesMade(count) == \A k \in 1..count : NodeResult(ops[k]) = "made"

GraphWith(count, inputs, outputs) ==
  [NoGraph EXCEPT !.origin = "finish", !.tensors = GraphTensors,
                  !.inputs = inputs, !.outputs = outputs,
                  !.nodes = [k \in 1..count |-> Node(ops[k])]]

ReadyWhenFilled ==
  tensors # <<>> /\ ops # <<>> /\ inputIndices # <<>> /\ outputIndices # <<>>
ReadyToBuild == /\ ~IsBuild /\ tensors # <<>> /\ ops # <<>>
                /\ inputIndices # <<>> /\ outputIndices # <<>>

(* InnerModel::Build, under OH_NNModel_Finish: m_liteGraph is set before   *)
(* the first step that can fail.                                           *)
BuildRefused == Calling /\ ~ReadyToBuild /\ Refuses("OH_NN_OPERATION_FORBIDDEN")

BuildThrows ==
  /\ Calling /\ ReadyToBuild
  /\ ~(HaveGraphID(inputIndices) /\ HaveGraphID(outputIndices))
  /\ liteGraph' = GraphWith(0, <<>>, <<>>)
  /\ fault' = "out_of_range"
  /\ UNCHANGED <<tensors, ops, ends, metaGraph, supported, alive, ret>>

BuildNodeFails(k) ==
  /\ Calling /\ ReadyToBuild
  /\ HaveGraphID(inputIndices) /\ HaveGraphID(outputIndices)
  /\ NodesMade(k - 1) /\ NodeResult(ops[k]) # "made"
  /\ liteGraph' = GraphWith(k - 1, ToGraphIDs(inputIndices), ToGraphIDs(outputIndices))
  /\ IF NodeResult(ops[k]) = "nullptr"
     THEN Returns("OH_NN_FAILED") /\ UNCHANGED fault
     ELSE fault' = NodeResult(ops[k]) /\ UNCHANGED ret
  /\ UNCHANGED <<tensors, ops, ends, metaGraph, supported, alive>>

BuildSucceeds ==
  /\ Calling /\ ReadyToBuild
  /\ HaveGraphID(inputIndices) /\ HaveGraphID(outputIndices)
  /\ NodesMade(Len(ops))
  /\ liteGraph' = [GraphWith(Len(ops), ToGraphIDs(inputIndices), ToGraphIDs(outputIndices))
                     EXCEPT !.subGraph = TRUE]
  /\ Returns("OH_NN_SUCCESS")
  /\ UNCHANGED <<tensors, ops, ends, metaGraph, supported, alive, fault>>

(* ConstructNNTensorsFromLiteGraph: its result, and the prefix of the      *)
(* tensors it has made.                                                    *)
ConstructResult(graph, indices) ==
  IF indices = <<>> \/ Len(indices) > MaxIndices
     \/ \E i \in DOMAIN indices : indices[i] > graph.size
  THEN "OH_NN_INVALID_PARAMETER"
  ELSE IF \E i \in DOMAIN indices : indices[i] \in graph.refused THEN "OH_NN_NULL_PTR"
  ELSE "OH_NN_SUCCESS"

Constructed(graph, indices) ==
  IF ConstructResult(graph, indices) = "OH_NN_INVALID_PARAMETER" THEN <<>>
  ELSE LET made == CHOOSE n \in 0..Len(indices) :
                     /\ \A i \in 1..n : indices[i] \notin graph.refused
                     /\ n = Len(indices) \/ indices[n + 1] \in graph.refused
       IN OfGraph(SubSeq(indices, 1, made))

HasOperations == ops # <<>>
HasParts == tensors # <<>> \/ ops # <<>>

BuildFromLiteGraph(graph) ==
  LET inputs == ConstructResult(graph, graph.inputs)
      outputs == ConstructResult(graph, graph.outputs)
  IN /\ Calling
     /\ IF IsBuild \/ HasParts
        THEN Refuses("OH_NN_OPERATION_FORBIDDEN")
        ELSE /\ inputTensors' = Constructed(graph, graph.inputs)
             /\ outputTensors' = IF inputs = "OH_NN_SUCCESS"
                                 THEN Constructed(graph, graph.outputs) ELSE outputTensors
             /\ liteGraph' = IF inputs = "OH_NN_SUCCESS" /\ outputs = "OH_NN_SUCCESS"
                             THEN [NoGraph EXCEPT !.origin = "lite", !.inputs = graph.inputs,
                                                  !.outputs = graph.outputs]
                             ELSE liteGraph
             /\ Returns(IF inputs = "OH_NN_SUCCESS" THEN outputs ELSE inputs)
             /\ UNCHANGED <<tensors, ops, inputIndices, outputIndices, metaGraph, supported,
                            alive, fault>>

BuildFromMetaGraph ==
  /\ Calling
  /\ IF IsBuild \/ tensors = <<>>
     THEN Refuses("OH_NN_OPERATION_FORBIDDEN")
     ELSE /\ metaGraph' = TRUE
          /\ Returns("OH_NN_SUCCESS")
          /\ UNCHANGED <<tensors, ops, ends, liteGraph, supported, alive, fault>>

(* The device gives one answer for each node of the graph it is handed.    *)
GetSupportedOperations(answered) ==
  /\ Calling
  /\ IF liteGraph = NoGraph
     THEN Refuses("OH_NN_OPERATION_FORBIDDEN")
     ELSE IF ~answered THEN Refuses("OH_NN_FAILED")
     ELSE /\ supported' = Len(liteGraph.nodes)
          /\ Returns("OH_NN_SUCCESS")
          /\ UNCHANGED <<tensors, ops, ends, graphs, alive, fault>>

Destroy ==
  /\ Calling
  /\ alive' = FALSE
  /\ Returns("OH_NN_SUCCESS")
  /\ UNCHANGED <<tensors, ops, ends, graphs, supported, fault>>

Indices == 1..MaxTensors

EditTensors ==
  \/ \E kind \in TensorKinds, quant \in Quants : AddTensor(kind, quant)
  \/ \E kind \in TensorKinds : AddTensorDesc(kind)
  \/ \E index \in Indices, type \in TensorTypes : SetTensorType(index, type)
  \/ \E index \in Indices, quant \in Quants : SetTensorQuantParam(index, quant)
  \/ \E index \in Indices, value \in Values, fits \in BOOLEAN : SetTensorValue(index, value, fits)

Compose ==
  \/ \E type \in Operations, params \in ParamLists,
       inputs \in InputLists, outputs \in OutputLists :
       AddOperation(type, params, inputs, outputs)
  \/ \E inputs \in InputLists, outputs \in OutputLists : SpecifyInputsAndOutputs(inputs, outputs)
  \/ \E inputs, outputs \in InfoLists : SetInputsAndOutputsInfo(inputs, outputs)

Finish == BuildRefused \/ BuildThrows \/ BuildSucceeds \/ \E k \in DOMAIN ops : BuildNodeFails(k)

Next ==
  \/ EditTensors
  \/ Compose
  \/ Finish
  \/ \E graph \in LiteGraphs : BuildFromLiteGraph(graph)
  \/ BuildFromMetaGraph
  \/ \E answered \in BOOLEAN : GetSupportedOperations(answered)
  \/ Destroy

Spec == Init /\ [][Next]_vars

-----------------------------------------------------------------------------
(* Properties.                                                             *)

Tensors == [type : STRING, dtype : STRING, dims : Seq(Int), quant : BOOLEAN,
            data : {<<>>} \union {<<v>> : v \in Values}, isOpParameter : BOOLEAN]
Sources == [from : {"model", "graph"}, index : Nat]

(* Every member is of its C++ type.                                        *)
TypeOK ==
  /\ tensors \in Seq(Tensors)
  /\ \A k \in DOMAIN ops : /\ ops[k].type \in DOMAIN Builders
                           /\ ops[k].ins \in Seq(Nat) /\ ops[k].outs \in Seq(Nat)
                           /\ ops[k].quantAll \in BOOLEAN
  /\ inputIndices \in Seq(Nat) /\ outputIndices \in Seq(Nat)
  /\ inputTensors \in Seq(Sources) /\ outputTensors \in Seq(Sources)
  /\ liteGraph.origin \in {"none", "finish", "lite"}
  /\ metaGraph \in BOOLEAN /\ alive \in BOOLEAN /\ supported \in Nat
  /\ fault \in {"none", "null", "out_of_range"}

(* An index of the graph names the tensor the application named: every     *)
(* node has the inputs and outputs given to AddOperation, and the inputs   *)
(* of the graph, by position, are the tensors that the compilation         *)
(* describes to the executor (GetInputTensorDescs).                        *)
Named(indices) == [i \in DOMAIN indices |-> liteGraph.tensors[indices[i]]]
GraphIndicesResolve ==
  liteGraph.origin = "finish" =>
    /\ \A k \in DOMAIN liteGraph.nodes :
         /\ Named(liteGraph.nodes[k].ins) = ops[k].ins
         /\ Named(liteGraph.nodes[k].outs) = ops[k].outs
    /\ liteGraph.subGraph => /\ OfModel(Named(liteGraph.inputs)) = inputTensors
                             /\ Named(liteGraph.outputs) = outputIndices

(* A node of a finished graph computes with the data its parameters hold:  *)
(* each argument is the data of a tensor given as parameter, which cannot  *)
(* change between AddOperation, which read it, and Finish - or it is the   *)
(* m_useAxis that SetAxis has made true.                                   *)
ArgumentsAreTensorData ==
  \A k \in DOMAIN ops : \A a \in DOMAIN ops[k].attributes :
    \/ \E i \in DOMAIN ops[k].params :
         tensors[ops[k].params[i]].data = <<ops[k].attributes[a]>>
    \/ Builders[ops[k].type].axisNeedsUse /\ a = "m_useAxis" /\ ops[k].attributes[a] = 1

(* The operations that are used read no data as another type: all but      *)
(* LSTM.                                                                   *)
ReadAsChecked ==
  \A type \in Operations \intersect DOMAIN Builders :
    \A p \in DOMAIN Builders[type].params : Builders[type].params[p].readAsFloat = FALSE

(* The loop of a builder takes the parameters in any order: an operation   *)
(* that was added with parameters of different types, which set different  *)
(* members, is built the same from the same parameters in another order,   *)
(* also where the setters constrain each other (AxisConflict).             *)
Reordered(list, order) == [i \in DOMAIN list |-> list[order[i]]]
SetDifferentMembers(b, params, all) ==
  \A i, j \in DOMAIN params : i # j =>
    LET s == all[params[i]]
        t == all[params[j]]
    IN /\ s.type # t.type
       /\ DOMAIN Assigned(b.params[s.type], s) \intersect DOMAIN Assigned(b.params[t.type], t) = {}
OrderOfParametersIsFree ==
  [][\A k \in DOMAIN ops' \ DOMAIN ops :
       LET op == ops'[k]
           b == Builders[op.type]
       IN SetDifferentMembers(b, op.params, tensors) =>
            \A order \in Bijection(DOMAIN op.params, DOMAIN op.params) :
              LET built == Build(b, Reordered(op.params, order), op.ins, op.outs, tensors)
              IN /\ built.ret = "OH_NN_SUCCESS" /\ Marking(built.marked)
                 /\ built.attributes = op.attributes /\ built.quantAll = op.quantAll]_vars

(* No step of a failing call makes the model describe inputs that are not  *)
(* those of its own tensors: tensors of a lite graph are described only    *)
(* when the model has none of its own.                                     *)
EndsAreOfOneKind ==
  (\E i \in DOMAIN inputTensors : inputTensors[i].from = "graph") =>
    /\ inputIndices = <<>> /\ outputIndices = <<>>
    /\ liteGraph.origin # "finish"

(* Whatever is called after a successful Finish, the graph a compilation   *)
(* has been handed, its operations and their data stay as they were.       *)
FinishedModelIsFrozen ==
  [][liteGraph.subGraph => /\ UNCHANGED <<liteGraph, ops, ends, metaGraph>>
                           /\ \A i \in DOMAIN tensors : tensors'[i] = tensors[i]]_vars

(* The operations as they were given, whatever the graph calls them.       *)
Recorded == [k \in DOMAIN ops |->
  [type |-> ops[k].type, ins |-> ops[k].ins, outs |-> ops[k].outs,
   arguments |-> PrimitiveArguments(Builders[ops[k].type], ops[k].attributes),
   quantAll |-> ops[k].quantAll]]

(* What the lists of the model are, for the proofs.                        *)
Listed ==
  /\ tensors \in Seq(Range(tensors)) /\ ops \in Seq(Range(ops))
  /\ \A k \in DOMAIN ops : ops[k].ins \in Seq(Nat) /\ ops[k].outs \in Seq(Nat)
  /\ inputIndices \in Seq(Nat) /\ outputIndices \in Seq(Nat)

(* The ends of the model are named together, of tensors it has.            *)
EndsGoTogether ==
  /\ tensors = <<>> => inputIndices = <<>>
  /\ inputTensors = <<>> => inputIndices = <<>>
  /\ inputIndices = <<>> => outputIndices = <<>>
  /\ inputIndices # <<>> => inputTensors = OfModel(inputIndices)

(* A graph made by Finish holds the first operations, all of them when it  *)
(* has its sub graph.                                                      *)
Resolved(node) ==
  [type |-> node.type, ins |-> Named(node.ins), outs |-> Named(node.outs),
   arguments |-> node.arguments, quantAll |-> node.quantAll]
GraphIsOfModel ==
  /\ liteGraph.origin = "none" => liteGraph = NoGraph
  /\ liteGraph.origin = "finish" =>
       /\ inputIndices # <<>>
       /\ DOMAIN liteGraph.nodes \subseteq DOMAIN ops
       /\ \A k \in DOMAIN liteGraph.nodes : Resolved(liteGraph.nodes[k]) = Recorded[k]
  /\ liteGraph.subGraph =>
       /\ liteGraph.origin = "finish"
       /\ DOMAIN liteGraph.nodes = DOMAIN ops
       /\ Named(liteGraph.inputs) = inputIndices
       /\ Named(liteGraph.outputs) = outputIndices

(* The inductive invariant.                                                *)
IInv == Listed /\ EndsGoTogether /\ GraphIsOfModel

(* inner_model.cpp:622: "If the tensor is used as operation parameter, it  *)
(* will not convert to the tensor of LiteGraph."                           *)
ParametersStayOutOfGraph ==
  liteGraph.subGraph => \A k \in DOMAIN ops :
    Range(ops[k].params) \intersect Range(liteGraph.tensors) = {}

(* inner_model.cpp:632, of the lookups in modelIDToGraphID: "Indices in    *)
(* m_inputIndices and m_outputIndices have been checked in                 *)
(* SpecifyInputAndOutput(), there is no need to check twice."              *)
EveryIndexHasGraphID == fault # "out_of_range"

(* neural_network_runtime.h:247: "If no operator parameter is set, the     *)
(* operator uses the default parameter value."                             *)
DefaultsAreUsed ==
  \A k \in DOMAIN ops :
    ops[k].params = <<>> => GetPrimitive(Builders[ops[k].type], ops[k].attributes) = "made"

(* neural_network_runtime.h:297: after Finish, OH_NNModel_AddTensorToModel *)
(* returns OH_NN_OPERATION_FORBIDDEN.                                      *)
FinishForbidsTensors == [][liteGraph.subGraph => UNCHANGED tensors]_vars

(* neural_network_runtime.h:272: a tensor specified as an end of the model *)
(* "cannot be set using OH_NNModel_SetTensorData".                         *)
EndsTakeNoData ==
  [][\A i \in Range(inputIndices) \union Range(outputIndices) :
       tensors'[i].data = tensors[i].data]_vars

(* neural_network_runtime.h:269: OH_NNModel_SpecifyInputsAndOutputs        *)
(* "Specifies the inputs and outputs of a model."                          *)
SpecifiedEndsAreTheEnds ==
  outputIndices # <<>> => outputTensors = OfModel(outputIndices)

(* neural_network_runtime.h:339: "The operator quantity for the array      *)
(* length is the same as that for the model instance."                     *)
AnswersCoverTheModel ==
  [][supported' # supported => supported' = Len(ops)]_vars

(* The abstract composition: ModelGraph, with each index of the graph      *)
(* replaced by the tensor it names.                                        *)
Published ==
  IF ~liteGraph.subGraph THEN <<>>
  ELSE <<[nodes |-> [k \in DOMAIN liteGraph.nodes |-> Resolved(liteGraph.nodes[k])],
          inputs |-> Named(liteGraph.inputs), outputs |-> Named(liteGraph.outputs)]>>

Composition == INSTANCE ModelGraph WITH
  recorded <- Recorded, ends <- <<inputIndices, outputIndices>>,
  published <- Published, closed <- IsBuild

(* The graph is published once, whole, and is what the calls recorded.     *)
CompositionSpec == Composition!Spec
=============================================================================
