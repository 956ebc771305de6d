-------------------------- MODULE InnerModelProofs --------------------------
(* Proofs, for every table of builders and every set of arguments, that     *)
(* IInv is an invariant of InnerModel, that the indices of a finished graph *)
(* resolve, that a finished model is frozen, that arguments are data of the *)
(* parameters, that parameters may be given in any order, that the device   *)
(* gets every argument, and that InnerModel implements ModelGraph.          *)
EXTENDS ModelConversion, LoopLemmas

-----------------------------------------------------------------------------
(* Lists.                                                                  *)

\* emplace_back: the other elements stay.
LEMMA AppendFacts ==
  ASSUME NEW s, s \in Seq(Range(s)), NEW e
  PROVE  /\ Append(s, e) \in Seq(Range(Append(s, e)))
         /\ Append(s, e) # <<>>
         /\ Len(Append(s, e)) = Len(s) + 1
         /\ DOMAIN s \subseteq DOMAIN Append(s, e)
         /\ \A i \in DOMAIN s : Append(s, e)[i] = s[i]
         /\ \A i \in DOMAIN Append(s, e) : i \in DOMAIN s \/ Append(s, e)[i] = e
<1>1. s \in Seq(Range(s) \union {e})
  BY DEF Range
<1>2. /\ Append(s, e) \in Seq(Range(s) \union {e})
      /\ Len(Append(s, e)) = Len(s) + 1
      /\ \A i \in 1..Len(s) : Append(s, e)[i] = s[i]
      /\ Append(s, e)[Len(s) + 1] = e
  BY <1>1
<1>3. DOMAIN Append(s, e) = 1..(Len(s) + 1) /\ DOMAIN s = 1..Len(s) /\ Len(s) \in Nat
  BY <1>1, <1>2
<1>4. Append(s, e) \in Seq(Range(Append(s, e)))
  BY <1>2, <1>3 DEF Range
<1> QED BY <1>2, <1>3, <1>4

\* A list with changed elements is a list.
LEMMA MapFacts ==
  ASSUME NEW s, s \in Seq(Range(s)), NEW t, DOMAIN t = DOMAIN s,
         t = [i \in DOMAIN t |-> t[i]]
  PROVE  t \in Seq(Range(t)) /\ (t = <<>> <=> s = <<>>)
  BY DEF Range

\* A list filled by a counting loop.
LEMMA CountedList ==
  ASSUME NEW n \in Nat, NEW f, f = [i \in 1..n |-> f[i]]
  PROVE  f \in Seq(Range(f)) /\ Len(f) = n /\ (f = <<>> <=> n = 0)
<1>1. f \in Seq(Range(f)) /\ Len(f) = n
  BY DEF Range
<1>2. f = <<>> => n = 0
  BY <1>1
<1>3. n = 0 => f = <<>>
  BY <1>1
<1> QED BY <1>1, <1>2, <1>3

\* The tensors of a list of indices are as many as the indices.
LEMMA OfModelFacts ==
  ASSUME NEW list \in Seq(Nat)
  PROVE  OfModel(list) = <<>> <=> list = <<>>
<1>1. OfModel(list) = [i \in 1..Len(list) |-> OfModel(list)[i]] /\ Len(list) \in Nat
  BY DEF OfModel
<1>2. OfModel(list) = <<>> <=> Len(list) = 0
  BY <1>1, CountedList
<1> QED BY <1>2

\* The graph indices of model indices name the same tensors again.
LEMMA GraphIDsResolve ==
  ASSUME NEW list \in Seq(Nat), HaveGraphID(list)
  PROVE  [i \in DOMAIN ToGraphIDs(list) |-> GraphTensors[ToGraphIDs(list)[i]]] = list
<1>1. \A i \in DOMAIN list : GraphTensors[modelIDToGraphID[list[i]]] = list[i]
  <2> SUFFICES ASSUME NEW i \in DOMAIN list
               PROVE  GraphTensors[modelIDToGraphID[list[i]]] = list[i]
    OBVIOUS
  <2>1. list[i] \in Range(GraphTensors)
    BY DEF HaveGraphID, modelIDToGraphID, Range
  <2>2. \E g \in DOMAIN GraphTensors : GraphTensors[g] = list[i]
    BY <2>1 DEF Range
  <2> QED BY <2>1, <2>2 DEF modelIDToGraphID
<1>2. DOMAIN ToGraphIDs(list) = DOMAIN list
  BY DEF ToGraphIDs
<1>3. \A i \in DOMAIN list : GraphTensors[ToGraphIDs(list)[i]] = list[i]
  BY <1>1 DEF ToGraphIDs
<1> QED BY <1>2, <1>3

-----------------------------------------------------------------------------
(* The inductive invariant.                                                *)

\* A new model has nothing to be wrong about.
LEMMA InvInit == Init => IInv
<1> SUFFICES ASSUME Init PROVE IInv
  OBVIOUS
<1>1. Listed
  BY DEF Init, Listed
<1>2. EndsGoTogether
  BY DEF Init, EndsGoTogether
<1>3. GraphIsOfModel
  BY DEF Init, GraphIsOfModel, NoGraph
<1> QED BY <1>1, <1>2, <1>3 DEF IInv

\* The graph still fits a model whose operations and ends have not changed.
LEMMA GraphStays ==
  ASSUME GraphIsOfModel, liteGraph' = liteGraph, ops' = ops,
         inputIndices' = inputIndices, outputIndices' = outputIndices
  PROVE  GraphIsOfModel'
<1>1. Recorded' = Recorded
  BY DEF Recorded
<1>2. Named(liteGraph.inputs)' = Named(liteGraph.inputs)
  BY DEF Named
<1>3. Named(liteGraph.outputs)' = Named(liteGraph.outputs)
  BY DEF Named
<1>4. \A k : Resolved(liteGraph.nodes[k])' = Resolved(liteGraph.nodes[k])
  BY DEF Resolved, Named
<1>5. NoGraph' = NoGraph
  BY DEF NoGraph
<1> QED BY <1>1, <1>2, <1>3, <1>4, <1>5, Zenon DEF GraphIsOfModel

\* A call that changes tensors only, and leaves none out, keeps the invariant.
LEMMA TensorsKeepInv ==
  ASSUME IInv, tensors' \in Seq(Range(tensors')), tensors' = <<>> => tensors = <<>>,
         UNCHANGED <<ops, ends, graphs>>
  PROVE  IInv'
<1>1. Listed'
  BY DEF IInv, Listed, ends
<1>2. EndsGoTogether'
  BY DEF IInv, EndsGoTogether, ends, OfModel
<1>3. GraphIsOfModel'
  BY GraphStays DEF IInv, ends, graphs
<1> QED BY <1>1, <1>2, <1>3 DEF IInv

\* So does a refused call.
LEMMA RefusalKeepsInv ==
  ASSUME IInv, UNCHANGED <<tensors, ops, ends, graphs>>
  PROVE  IInv'
<1>1. tensors' \in Seq(Range(tensors')) /\ (tensors' = <<>> => tensors = <<>>)
  BY DEF IInv, Listed
<1> QED BY <1>1, TensorsKeepInv

\* A node that could be made names, through the new graph, the tensors of its operation.
LEMMA NodeResolves ==
  ASSUME Listed, NEW k \in DOMAIN ops, NodeResult(ops[k]) = "made",
         NEW node, node = Node(ops[k]), liteGraph'.tensors = GraphTensors
  PROVE  Resolved(node)' = Recorded[k]
<1>1. /\ ops[k].ins \in Seq(Nat) /\ ops[k].outs \in Seq(Nat)
      /\ HaveGraphID(ops[k].ins) /\ HaveGraphID(ops[k].outs)
  BY DEF Listed, NodeResult
<1>2. /\ node.ins = ToGraphIDs(ops[k].ins) /\ node.outs = ToGraphIDs(ops[k].outs)
      /\ node.type = ops[k].type /\ node.quantAll = ops[k].quantAll
      /\ node.arguments = PrimitiveArguments(Builders[ops[k].type], ops[k].attributes)
  BY DEF Node
<1>3. Named(node.ins)' = ops[k].ins
  <2>1. [i \in DOMAIN ToGraphIDs(ops[k].ins) |-> GraphTensors[ToGraphIDs(ops[k].ins)[i]]] = ops[k].ins
    BY <1>1, GraphIDsResolve
  <2> QED BY <1>2, <2>1 DEF Named
<1>4. Named(node.outs)' = ops[k].outs
  <2>1. [i \in DOMAIN ToGraphIDs(ops[k].outs) |-> GraphTensors[ToGraphIDs(ops[k].outs)[i]]] = ops[k].outs
    BY <1>1, GraphIDsResolve
  <2> QED BY <1>2, <2>1 DEF Named
<1> QED BY <1>2, <1>3, <1>4 DEF Resolved, Recorded

\* So a graph of Finish holds the first operations.
LEMMA GraphOfFinish ==
  ASSUME IInv, inputIndices # <<>>, NEW count \in 0..Len(ops), NodesMade(count),
         NEW ins, NEW outs, NEW subGraph \in BOOLEAN,
         liteGraph'.origin = "finish", liteGraph'.tensors = GraphTensors,
         liteGraph'.inputs = ins, liteGraph'.outputs = outs,
         liteGraph'.nodes = [k \in 1..count |-> Node(ops[k])], liteGraph'.subGraph = subGraph,
         UNCHANGED <<tensors, ops, ends, metaGraph>>,
         subGraph => /\ count = Len(ops)
                     /\ HaveGraphID(inputIndices) /\ HaveGraphID(outputIndices)
                     /\ ins = ToGraphIDs(inputIndices) /\ outs = ToGraphIDs(outputIndices)
  PROVE  IInv'
<1>1. /\ ops' = ops /\ tensors' = tensors
      /\ inputIndices' = inputIndices /\ outputIndices' = outputIndices
      /\ inputTensors' = inputTensors /\ outputTensors' = outputTensors
  BY DEF ends
<1>2. Listed' /\ EndsGoTogether'
  <2>1. Listed'
    BY <1>1 DEF IInv, Listed
  <2>2. EndsGoTogether'
    BY <1>1 DEF IInv, EndsGoTogether, OfModel
  <2> QED BY <2>1, <2>2
<1>3. /\ liteGraph'.origin = "finish" /\ liteGraph'.tensors = GraphTensors
      /\ liteGraph'.inputs = ins /\ liteGraph'.outputs = outs
      /\ liteGraph'.nodes = [k \in 1..count |-> Node(ops[k])]
      /\ liteGraph'.subGraph = subGraph
  OBVIOUS
<1>4. DOMAIN ops = 1..Len(ops) /\ Len(ops) \in Nat
  BY DEF IInv, Listed
<1>0. \A k \in 1..count : k \in DOMAIN ops
  BY ONLY <1>4, count \in 0..Len(ops)
<1>5. \A k \in DOMAIN liteGraph'.nodes : Resolved(liteGraph.nodes[k])' = Recorded'[k]
  <2> SUFFICES ASSUME NEW k \in 1..count
               PROVE  Resolved(liteGraph.nodes[k])' = Recorded'[k]
    BY <1>3
  <2>1. k \in DOMAIN ops /\ NodeResult(ops[k]) = "made" /\ liteGraph'.nodes[k] = Node(ops[k])
    BY <1>0, <1>3 DEF NodesMade
  <2>2. \A node : node = Node(ops[k]) => Resolved(node)' = Recorded[k]
    BY <1>3, <2>1, NodeResolves DEF IInv
  <2>3. Recorded' = Recorded
    BY <1>1 DEF Recorded
  <2>4. Resolved(liteGraph.nodes[k])' = Recorded[k]
    BY <2>1, <2>2 DEF Resolved, Named
  <2> QED BY <2>3, <2>4
<1>6. ASSUME subGraph
      PROVE  /\ DOMAIN liteGraph'.nodes = DOMAIN ops
             /\ Named(liteGraph.inputs)' = inputIndices
             /\ Named(liteGraph.outputs)' = outputIndices
  <2>1. inputIndices \in Seq(Nat) /\ outputIndices \in Seq(Nat)
    BY DEF IInv, Listed
  <2>2. Named(liteGraph.inputs)' = inputIndices
    BY <1>3, <1>6, <2>1, GraphIDsResolve DEF Named
  <2>3. Named(liteGraph.outputs)' = outputIndices
    BY <1>3, <1>6, <2>1, GraphIDsResolve DEF Named
  <2> QED BY <1>3, <1>4, <1>6, <2>2, <2>3
<1>7. GraphIsOfModel'
  <2>1. liteGraph'.origin # "none" /\ DOMAIN liteGraph'.nodes \subseteq DOMAIN ops
    BY <1>0, <1>3
  <2> QED BY <1>1, <1>3, <1>5, <1>6, <2>1, Zenon DEF GraphIsOfModel
<1> QED BY <1>2, <1>7 DEF IInv

\* Adding an operation keeps the graph's view: nothing has been built yet.
LEMMA AddOperationKeepsInv ==
  ASSUME IInv, NEW type, NEW params, NEW inputs \in InputLists, NEW outputs \in OutputLists,
         AddOperation(type, params, inputs, outputs)
  PROVE  IInv'
<1>1. CASE UNCHANGED <<tensors, ops, ends, graphs>>
  BY <1>1, RefusalKeepsInv
<1>2. CASE ~IsBuild /\ ~UNCHANGED <<tensors, ops, ends, graphs>>
  <2> DEFINE built == Build(Builders[type], params, inputs, outputs, tensors)
             op == [type |-> type, params |-> params, ins |-> inputs, outs |-> outputs,
                    attributes |-> built.attributes, quantAll |-> built.quantAll]
  <2>1. /\ Marking(built.marked)
        /\ ops' = ops \/ ops' = Append(ops, op)
        /\ UNCHANGED <<ends, graphs>>
    BY <1>2 DEF AddOperation, Refuses
  <2> HIDE DEF built
  <2>2. inputs \in Seq(Nat) /\ outputs \in Seq(Nat)
    BY InnerModelAssumption
  <2>3. op.ins \in Seq(Nat) /\ op.outs \in Seq(Nat)
    BY <2>2
  <2> HIDE DEF op
  <2>4. tensors' \in Seq(Range(tensors')) /\ (tensors' = <<>> <=> tensors = <<>>)
    <3>1. DOMAIN tensors' = DOMAIN tensors /\ tensors' = [i \in DOMAIN tensors' |-> tensors'[i]]
      BY <2>1 DEF Marking
    <3> QED BY <3>1, MapFacts DEF IInv, Listed
  <2>5. CASE ops' = ops
    BY <2>1, <2>4, <2>5, TensorsKeepInv
  <2>6. CASE ops' = Append(ops, op)
    <3>1. /\ ops \in Seq(Range(ops))
          /\ \A k \in DOMAIN ops : ops[k].ins \in Seq(Nat) /\ ops[k].outs \in Seq(Nat)
      BY DEF IInv, Listed
    <3>2. /\ ops' \in Seq(Range(ops'))
          /\ \A k \in DOMAIN ops' : ops'[k].ins \in Seq(Nat) /\ ops'[k].outs \in Seq(Nat)
      BY <2>3, <2>6, <3>1, AppendFacts
    <3>3. Listed'
      BY <2>1, <2>4, <3>2 DEF IInv, Listed, ends
    <3>4. EndsGoTogether'
      BY <2>1, <2>4 DEF IInv, EndsGoTogether, ends, OfModel
    <3>5. GraphIsOfModel'
      BY <1>2, <2>1 DEF IInv, GraphIsOfModel, IsBuild, graphs, NoGraph
    <3> QED BY <3>3, <3>4, <3>5 DEF IInv
  <2> QED BY <2>1, <2>5, <2>6
<1> QED BY <1>1, <1>2 DEF AddOperation, Refuses

\* The ends are named of tensors the model has, once.
LEMMA SpecifyKeepsInv ==
  ASSUME IInv, NEW inputs \in InputLists, NEW outputs \in OutputLists,
         SpecifyInputsAndOutputs(inputs, outputs)
  PROVE  IInv'
<1>1. CASE UNCHANGED <<tensors, ops, ends, graphs>>
  BY <1>1, RefusalKeepsInv
<1>2. CASE ~UNCHANGED <<tensors, ops, ends, graphs>>
  <2>1. /\ ~IsBuild /\ ValidateInputAndOutput(inputs, outputs)
        /\ inputIndices' = inputs /\ outputIndices' = outputs
        /\ inputTensors' = OfModel(inputs)
        /\ UNCHANGED <<tensors, ops, graphs>>
    BY <1>2 DEF SpecifyInputsAndOutputs, Refuses
  <2>2. inputs \in Seq(Nat) /\ outputs \in Seq(Nat)
    BY InnerModelAssumption
  <2>3. inputs # <<>> /\ tensors # <<>>
    <3>1. Len(inputs) >= 1 /\ \A i \in DOMAIN inputs : inputs[i] \in DOMAIN tensors
      <4>1. ValidateTensorArray(inputs) /\ Len(inputs) \in 1..MaxIndices
        BY <2>1 DEF ValidateInputAndOutput
      <4>2. Len(inputs) \in Nat /\ Len(inputs) >= 1
        BY <2>2, <4>1
      <4> QED BY <4>1, <4>2 DEF ValidateTensorArray
    <3>2. 1 \in DOMAIN inputs /\ inputs[1] \in DOMAIN tensors
      BY <2>2, <3>1
    <3> QED BY <3>2
  <2>4. Listed'
    BY <2>1, <2>2 DEF IInv, Listed
  <2>5. EndsGoTogether'
    <3>1. OfModel(inputs) # <<>>
      BY <2>2, <2>3, OfModelFacts
    <3> QED BY <2>1, <2>3, <3>1 DEF EndsGoTogether, OfModel
  <2>6. GraphIsOfModel'
    BY <2>1 DEF IInv, GraphIsOfModel, IsBuild, graphs, NoGraph
  <2> QED BY <2>4, <2>5, <2>6 DEF IInv
<1> QED BY <1>1, <1>2

\* SetInputsAndOutputsInfo numbers the tensors it makes, inputs first.
LEMMA InfosKeepInv ==
  ASSUME IInv, NEW inputs \in InfoLists, NEW outputs \in InfoLists,
         SetInputsAndOutputsInfo(inputs, outputs)
  PROVE  IInv'
<1>1. CASE UNCHANGED <<tensors, ops, ends, graphs>>
  BY <1>1, RefusalKeepsInv
<1>2. CASE ~UNCHANGED <<tensors, ops, ends, graphs>>
  <2> DEFINE infos == inputs \o outputs
             ins(count) == [i \in 1..(IF count < Len(inputs) THEN count ELSE Len(inputs)) |-> i]
             outs(count) == [i \in 1..(count - Len(ins(count))) |-> Len(inputs) + i]
  <2>1. PICK count \in 0..Len(infos) :
          /\ tensors' = [i \in 1..count |-> NewTensor("OH_NN_TENSOR", infos[i], FALSE)]
          /\ inputIndices' = ins(count) /\ inputTensors' = OfModel(ins(count))
          /\ outputIndices' = outs(count)
          /\ UNCHANGED <<ops, graphs>>
    BY <1>2 DEF SetInputsAndOutputsInfo, Refuses
  <2>2. /\ inputs # <<>> /\ ~IsBuild
    BY <1>2 DEF SetInputsAndOutputsInfo, Refuses, CheckParameters
  <2>3. Len(inputs) \in Nat /\ Len(inputs) > 0 /\ count \in Nat
    <3>1. inputs \in Seq(Range(inputs)) /\ outputs \in Seq(Range(outputs))
      BY InnerModelAssumption
    <3>2. Len(inputs) \in Nat /\ Len(inputs) > 0 /\ Len(infos) \in Nat
      <4>1. inputs \in Seq(Range(inputs) \union Range(outputs)) /\ outputs \in Seq(Range(inputs) \union Range(outputs))
        BY <3>1
      <4> QED BY <2>2, <4>1
    <3> QED BY <2>1, <3>2
  <2>4. Len(ins(count)) = IF count < Len(inputs) THEN count ELSE Len(inputs)
    BY <2>3
  <2>5. ins(count) \in Seq(Nat) /\ outs(count) \in Seq(Nat)
    BY <2>3, <2>4
  <2>6. ins(count) = <<>> => count = 0
    <3>1. Len(ins(count)) = 0 => count = 0
      BY <2>3, <2>4
    <3> HIDE DEF ins
    <3> QED BY <3>1
  <2>7. count = 0 => outs(count) = <<>>
    BY <2>3, <2>4
  <2>8. tensors' \in Seq(Range(tensors')) /\ (tensors' = <<>> => count = 0)
    BY <2>1, <2>3, CountedList
  <2>9. count = 0 => ins(count) = <<>>
    BY <2>3
  <2>10. OfModel(ins(count)) = <<>> => ins(count) = <<>>
    BY <2>5, OfModelFacts
  <2>11. Listed'
    BY <2>1, <2>5, <2>8 DEF IInv, Listed
  <2> HIDE DEF ins, outs
  <2>12. EndsGoTogether'
    BY <2>1, <2>6, <2>7, <2>8, <2>9, <2>10 DEF EndsGoTogether, OfModel
  <2>13. GraphIsOfModel'
    BY <2>1, <2>2 DEF IInv, GraphIsOfModel, IsBuild, graphs, NoGraph
  <2> QED BY <2>11, <2>12, <2>13 DEF IInv
<1> QED BY <1>1, <1>2

-----------------------------------------------------------------------------
(* Every step.                                                             *)

\* The calls that change tensors leave graph and operations alone.
LEMMA EditTensorsKeepsInv ==
  ASSUME IInv, EditTensors
  PROVE  IInv'
<1>1. ASSUME NEW kind \in TensorKinds, NEW quant \in Quants, AddTensor(kind, quant)
      PROVE  IInv'
  <2>1. CASE UNCHANGED <<tensors, ops, ends, graphs>>
    BY <2>1, RefusalKeepsInv
  <2>2. CASE ~UNCHANGED <<tensors, ops, ends, graphs>>
    <3>1. /\ \E t : tensors' = Append(tensors, t)
          /\ UNCHANGED <<ops, ends, graphs>>
      BY <1>1, <2>2 DEF AddTensor, Refuses
    <3> QED BY <3>1, AppendFacts, TensorsKeepInv DEF IInv, Listed
  <2> QED BY <2>1, <2>2
<1>2. ASSUME NEW kind \in TensorKinds, AddTensorDesc(kind)
      PROVE  IInv'
  <2>1. CASE UNCHANGED <<tensors, ops, ends, graphs>>
    BY <2>1, RefusalKeepsInv
  <2>2. CASE ~UNCHANGED <<tensors, ops, ends, graphs>>
    <3>1. /\ \E t : tensors' = Append(tensors, t)
          /\ UNCHANGED <<ops, ends, graphs>>
      BY <1>2, <2>2 DEF AddTensorDesc, Refuses
    <3> QED BY <3>1, AppendFacts, TensorsKeepInv DEF IInv, Listed
  <2> QED BY <2>1, <2>2
<1>3. ASSUME NEW index \in Indices,
             \/ \E type \in TensorTypes : SetTensorType(index, type)
             \/ \E quant \in Quants : SetTensorQuantParam(index, quant)
             \/ \E value \in Values, fits \in BOOLEAN : SetTensorValue(index, value, fits)
      PROVE  IInv'
  <2>1. CASE UNCHANGED <<tensors, ops, ends, graphs>>
    BY <2>1, RefusalKeepsInv
  <2>2. CASE ~UNCHANGED <<tensors, ops, ends, graphs>>
    <3>1. /\ \E t : tensors' = [tensors EXCEPT ![index] = t]
          /\ UNCHANGED <<ops, ends, graphs>>
      BY <1>3, <2>2 DEF SetTensorType, SetTensorQuantParam, SetTensorValue, Refuses
    <3>2. tensors' \in Seq(Range(tensors')) /\ (tensors' = <<>> <=> tensors = <<>>)
      BY <3>1, MapFacts DEF IInv, Listed
    <3> QED BY <3>1, <3>2, TensorsKeepInv
  <2> QED BY <2>1, <2>2
<1> QED BY <1>1, <1>2, <1>3 DEF EditTensors

\* Finish publishes what was recorded, or part of it.
LEMMA FinishKeepsInv ==
  ASSUME IInv, Finish
  PROVE  IInv'
<1>0. Len(ops) \in Nat /\ DOMAIN ops = 1..Len(ops)
  BY DEF IInv, Listed
<1>1. CASE BuildRefused
  BY <1>1, RefusalKeepsInv DEF BuildRefused, Refuses
<1>2. CASE BuildThrows
  <2>1. /\ inputIndices # <<>>
        /\ liteGraph'.origin = "finish" /\ liteGraph'.tensors = GraphTensors
        /\ liteGraph'.inputs = <<>> /\ liteGraph'.outputs = <<>>
        /\ liteGraph'.nodes = [n \in 1..0 |-> Node(ops[n])] /\ liteGraph'.subGraph = FALSE
        /\ UNCHANGED <<tensors, ops, ends, metaGraph>>
    BY <1>2 DEF BuildThrows, ReadyToBuild, GraphWith, NoGraph
  <2>2. 0 \in 0..Len(ops) /\ NodesMade(0)
    BY <1>0 DEF NodesMade
  <2> QED BY <2>1, <2>2, GraphOfFinish
<1>3. ASSUME NEW k \in DOMAIN ops, BuildNodeFails(k)
      PROVE  IInv'
  <2> DEFINE ins == ToGraphIDs(inputIndices)
             outs == ToGraphIDs(outputIndices)
  <2>1. /\ inputIndices # <<>> /\ NodesMade(k - 1)
        /\ liteGraph'.origin = "finish" /\ liteGraph'.tensors = GraphTensors
        /\ liteGraph'.inputs = ins /\ liteGraph'.outputs = outs
        /\ liteGraph'.nodes = [n \in 1..(k - 1) |-> Node(ops[n])] /\ liteGraph'.subGraph = FALSE
        /\ UNCHANGED <<tensors, ops, ends, metaGraph>>
    BY <1>3 DEF BuildNodeFails, ReadyToBuild, GraphWith, NoGraph
  <2>2. k - 1 \in 0..Len(ops)
    BY <1>0
  <2> HIDE DEF ins, outs
  <2> QED BY <2>1, <2>2, GraphOfFinish
<1>4. CASE BuildSucceeds
  <2>1. /\ inputIndices # <<>> /\ NodesMade(Len(ops))
        /\ HaveGraphID(inputIndices) /\ HaveGraphID(outputIndices)
        /\ liteGraph'.origin = "finish" /\ liteGraph'.tensors = GraphTensors
        /\ liteGraph'.inputs = ToGraphIDs(inputIndices) /\ liteGraph'.outputs = ToGraphIDs(outputIndices)
        /\ liteGraph'.nodes = [n \in 1..Len(ops) |-> Node(ops[n])] /\ liteGraph'.subGraph = TRUE
        /\ UNCHANGED <<tensors, ops, ends, metaGraph>>
    BY <1>4 DEF BuildSucceeds, ReadyToBuild, GraphWith, NoGraph
  <2>2. Len(ops) \in 0..Len(ops)
    BY <1>0
  <2> QED BY <2>1, <2>2, GraphOfFinish
<1> QED BY <1>1, <1>2, <1>3, <1>4 DEF Finish

\* A graph given as a whole comes with ends of its own.
LEMMA LiteGraphKeepsInv ==
  ASSUME IInv, NEW graph \in LiteGraphs, BuildFromLiteGraph(graph)
  PROVE  IInv'
<1>1. CASE UNCHANGED <<tensors, ops, ends, graphs>>
  BY <1>1, RefusalKeepsInv
<1>2. CASE ~UNCHANGED <<tensors, ops, ends, graphs>>
  <2>1. /\ ~IsBuild /\ tensors = <<>> /\ ops = <<>>
        /\ UNCHANGED <<tensors, ops, inputIndices, outputIndices, metaGraph>>
        /\ \/ liteGraph' = liteGraph
           \/ \E i, o : liteGraph' = [NoGraph EXCEPT !.origin = "lite", !.inputs = i, !.outputs = o]
    BY <1>2 DEF BuildFromLiteGraph, HasParts, Refuses
  <2>2. inputIndices = <<>> /\ outputIndices = <<>>
    BY <2>1 DEF IInv, EndsGoTogether
  <2>3. Listed'
    BY <2>1 DEF IInv, Listed
  <2>4. EndsGoTogether'
    BY <2>1, <2>2 DEF EndsGoTogether
  <2>5. GraphIsOfModel'
    <3>1. CASE liteGraph' = liteGraph
      BY <2>1, <3>1 DEF IInv, GraphIsOfModel, IsBuild, NoGraph
    <3>2. CASE \E i, o : liteGraph' = [NoGraph EXCEPT !.origin = "lite", !.inputs = i, !.outputs = o]
      BY <3>2 DEF GraphIsOfModel, NoGraph
    <3> QED BY <2>1, <3>1, <3>2
  <2> QED BY <2>3, <2>4, <2>5 DEF IInv
<1> QED BY <1>1, <1>2

\* Every call preserves the invariant.
LEMMA InvStep == IInv /\ [Next]_vars => IInv'
<1> SUFFICES ASSUME IInv, [Next]_vars PROVE IInv'
  OBVIOUS
<1>1. CASE EditTensors
  BY <1>1, EditTensorsKeepsInv
<1>2. CASE Compose
  BY <1>2, AddOperationKeepsInv, SpecifyKeepsInv, InfosKeepInv DEF Compose
<1>3. CASE Finish
  BY <1>3, FinishKeepsInv
<1>4. CASE \E graph \in LiteGraphs : BuildFromLiteGraph(graph)
  BY <1>4, LiteGraphKeepsInv
<1>5. CASE BuildFromMetaGraph
  <2>1. CASE UNCHANGED <<tensors, ops, ends, graphs>>
    BY <2>1, RefusalKeepsInv
  <2>2. CASE UNCHANGED <<tensors, ops, ends, liteGraph>>
    <3>1. Listed'
      BY <2>2 DEF IInv, Listed, ends
    <3>2. EndsGoTogether'
      BY <2>2 DEF IInv, EndsGoTogether, ends, OfModel
    <3>3. GraphIsOfModel'
      BY <2>2, GraphStays DEF IInv, ends
    <3> QED BY <3>1, <3>2, <3>3 DEF IInv
  <2> QED BY <1>5, <2>1, <2>2 DEF BuildFromMetaGraph, Refuses
<1>6. CASE \E answered \in BOOLEAN : GetSupportedOperations(answered)
  BY <1>6, RefusalKeepsInv DEF GetSupportedOperations, Refuses
<1>7. CASE Destroy
  BY <1>7, RefusalKeepsInv DEF Destroy
<1>8. CASE UNCHANGED vars
  BY <1>8, RefusalKeepsInv DEF vars, ends, graphs
<1> QED BY <1>1, <1>2, <1>3, <1>4, <1>5, <1>6, <1>7, <1>8 DEF Next

\* The lists of the model stay lists, its ends are named together, and a graph
\* that Finish has made holds the operations the application added, in order.
THEOREM Invariance == Spec => []IInv
  BY InvInit, InvStep, PTL DEF Spec

\* Every index of a finished graph names the tensor the application named, and
\* the graph's inputs are those the compilation describes to the executor.
THEOREM IndicesResolve == Spec => []GraphIndicesResolve
<1>1. IInv => GraphIndicesResolve
  <2> SUFFICES ASSUME IInv, liteGraph.origin = "finish"
               PROVE  /\ \A k \in DOMAIN liteGraph.nodes :
                           /\ Named(liteGraph.nodes[k].ins) = ops[k].ins
                           /\ Named(liteGraph.nodes[k].outs) = ops[k].outs
                      /\ liteGraph.subGraph =>
                           /\ OfModel(Named(liteGraph.inputs)) = inputTensors
                           /\ Named(liteGraph.outputs) = outputIndices
    BY DEF GraphIndicesResolve
  <2>1. ASSUME NEW k \in DOMAIN liteGraph.nodes
        PROVE  /\ Named(liteGraph.nodes[k].ins) = ops[k].ins
               /\ Named(liteGraph.nodes[k].outs) = ops[k].outs
    <3>1. k \in DOMAIN ops /\ Resolved(liteGraph.nodes[k]) = Recorded[k]
      BY <2>1 DEF IInv, GraphIsOfModel
    <3>2. Recorded[k].ins = ops[k].ins /\ Recorded[k].outs = ops[k].outs
      BY <3>1 DEF Recorded
    <3>3. /\ Resolved(liteGraph.nodes[k]).ins = Named(liteGraph.nodes[k].ins)
          /\ Resolved(liteGraph.nodes[k]).outs = Named(liteGraph.nodes[k].outs)
      BY DEF Resolved
    <3> QED BY <3>1, <3>2, <3>3
  <2>2. ASSUME liteGraph.subGraph
        PROVE  /\ OfModel(Named(liteGraph.inputs)) = inputTensors
               /\ Named(liteGraph.outputs) = outputIndices
    BY <2>2 DEF IInv, GraphIsOfModel, EndsGoTogether
  <2> QED BY <2>1, <2>2
<1> QED BY <1>1, Invariance, PTL

\* Tensors of a lite graph are described to nobody as inputs of a model that
\* has inputs of its own.
THEOREM EndsAreApart == Spec => []EndsAreOfOneKind
<1>1. IInv => EndsAreOfOneKind
  <2> SUFFICES ASSUME IInv, NEW i \in DOMAIN inputTensors, inputTensors[i].from = "graph"
               PROVE  /\ inputIndices = <<>> /\ outputIndices = <<>>
                      /\ liteGraph.origin # "finish"
    BY DEF EndsAreOfOneKind
  <2>1. inputIndices = <<>>
    BY DEF IInv, EndsGoTogether, OfModel
  <2> QED BY <2>1 DEF IInv, EndsGoTogether, GraphIsOfModel
<1> QED BY <1>1, Invariance, PTL

\* A model whose graph is complete is built: only AddTensorDesc, which does not
\* ask, still changes it, and it appends.
LEMMA FinishedIsBuilt == liteGraph.subGraph => IsBuild
  BY DEF IsBuild, NoGraph

\* No call changes a finished model.
LEMMA FrozenStep ==
  ASSUME IInv, Next, liteGraph.subGraph
  PROVE  /\ UNCHANGED <<liteGraph, ops, ends, metaGraph>>
         /\ \A i \in DOMAIN tensors : tensors'[i] = tensors[i]
<1>0. IsBuild
  BY FinishedIsBuilt
<1>1. CASE UNCHANGED <<liteGraph, metaGraph, ops, ends, tensors>>
  BY <1>1
<1>2. CASE EditTensors
  <2>1. CASE \E kind \in TensorKinds : AddTensorDesc(kind)
    <3>1. /\ UNCHANGED <<liteGraph, ops, ends, metaGraph>>
          /\ \/ tensors' = tensors
             \/ \E t : tensors' = Append(tensors, t)
      BY <2>1 DEF AddTensorDesc, Refuses, graphs
    <3>2. ASSUME NEW t, tensors' = Append(tensors, t)
          PROVE  \A i \in DOMAIN tensors : tensors'[i] = tensors[i]
      BY <3>2, AppendFacts DEF IInv, Listed
    <3> QED BY <3>1, <3>2
  <2>2. CASE ~\E kind \in TensorKinds : AddTensorDesc(kind)
    <3>1. UNCHANGED <<liteGraph, metaGraph, ops, ends, tensors>>
      BY <1>0, <1>2, <2>2 DEF EditTensors, AddTensor, SetTensorType, SetTensorQuantParam,
         SetTensorValue, ValueResult, Refuses, graphs
    <3> QED BY <1>1, <3>1
  <2> QED BY <2>1, <2>2
<1>3. CASE Compose
  <2>1. UNCHANGED <<liteGraph, metaGraph, ops, ends, tensors>>
    BY <1>0, <1>3 DEF Compose, AddOperation, SpecifyInputsAndOutputs, SetInputsAndOutputsInfo,
       CheckParameters, Refuses, graphs
  <2> QED BY <1>1, <2>1
<1>4. CASE Finish
  <2>1. UNCHANGED <<liteGraph, metaGraph, ops, ends, tensors>>
    BY <1>0, <1>4 DEF Finish, BuildRefused, BuildThrows, BuildSucceeds, BuildNodeFails,
       ReadyToBuild, Refuses, graphs
  <2> QED BY <1>1, <2>1
<1>5. CASE (\E graph \in LiteGraphs : BuildFromLiteGraph(graph)) \/ BuildFromMetaGraph
  <2>1. UNCHANGED <<liteGraph, metaGraph, ops, ends, tensors>>
    BY <1>0, <1>5 DEF BuildFromLiteGraph, BuildFromMetaGraph, Refuses, graphs
  <2> QED BY <1>1, <2>1
<1>6. CASE (\E answered \in BOOLEAN : GetSupportedOperations(answered)) \/ Destroy
  <2>1. UNCHANGED <<liteGraph, metaGraph, ops, ends, tensors>>
    BY <1>6 DEF GetSupportedOperations, Destroy, Refuses, graphs
  <2> QED BY <1>1, <2>1
<1> QED BY <1>2, <1>3, <1>4, <1>5, <1>6 DEF Next

\* After a successful Finish the graph handed to a compilation, the operations
\* and the data of the tensors they name never change.
THEOREM Frozen == Spec => FinishedModelIsFrozen
<1>1. IInv /\ [Next]_vars =>
        [liteGraph.subGraph => /\ UNCHANGED <<liteGraph, ops, ends, metaGraph>>
                               /\ \A i \in DOMAIN tensors : tensors'[i] = tensors[i]]_vars
  BY FrozenStep
<1> QED BY <1>1, Invariance, PTL DEF Spec, FinishedModelIsFrozen

-----------------------------------------------------------------------------
(* The data of the parameters.                                             *)

\* The last of the numbers up to n that has a property.
LEMMA LastNumber ==
  ASSUME NEW n \in Nat, NEW S \in SUBSET (1..n), S # {}
  PROVE  \E k \in S : \A j \in S : j <= k
<1> DEFINE Below == {n - k : k \in S}
<1>1. \A k \in S : k \in 1..n /\ n - k \in Nat /\ n - (n - k) = k
  OBVIOUS
<1>2. Below \in SUBSET Nat /\ Below # {}
  BY <1>1
<1>3. PICK m \in Below : \A j \in Below : m <= j
  BY <1>2, LeastNumber
<1>4. PICK k \in S : m = n - k
  OBVIOUS
<1>5. ASSUME NEW j \in S PROVE j <= k
  <2>1. n - k <= n - j
    BY <1>3, <1>4, <1>5
  <2> QED
    BY <1>1, <1>4, <2>1
<1> QED
  BY <1>5

\* No parameter is read as a float that it was not checked for.
ReadsNoFloat(b, params, all) ==
  \A k \in DOMAIN params : b.params[all[params[k]].type].readAsFloat = FALSE
\* The value is the data of one of the parameters.
IsDataOf(value, params, all) ==
  \E k \in DOMAIN params : all[params[k]].data # <<>> /\ value = all[params[k]].data[1]

\* The types of the parameters, and the members that are set along with them.
TypesIn(params, all) == {all[params[k]].type : k \in 1..Len(params)}
Along(b, params, all) == SetAlong(b, TypesIn(params, all))

\* Of some parameters there is a first and a last one.
LEMMA OneCounts ==
  ASSUME NEW n \in Nat, NEW S \in SUBSET (1..n), S # {}, NEW first \in BOOLEAN
  PROVE  \E k \in 1..n : k \in S /\ \A j \in 1..n : j \in S => IF first THEN k <= j ELSE j <= k
<1>1. S \in SUBSET Nat
  OBVIOUS
<1>2. PICK m \in S : \A j \in S : m <= j
  BY <1>1, LeastNumber
<1>3. PICK l \in S : \A j \in S : j <= l
  BY LastNumber
<1> QED
  BY <1>2, <1>3

\* Every member that the parameters assign is the data of one of them that assigns
\* it, unless a setter reads its tensor as something else, or it is set along.
LEMMA AttributesAreData ==
  ASSUME NEW b, NEW params \in Seq(Nat), NEW all,
         ReadsNoFloat(b, params, all), NEW a \in DOMAIN Attributes(b, params, all)
  PROVE  \/ IsDataOf(Attributes(b, params, all)[a], params, all)
         \/ b.axisNeedsUse /\ a = "m_useAxis" /\ Attributes(b, params, all)[a] = 1
<1> DEFINE n == Len(params)
           Given(k) == Assigned(b.params[all[params[k]].type], all[params[k]])
           given == [k \in 1..n |-> Given(k)]
           IsCounted(k) == /\ a \in DOMAIN given[k]
                           /\ \A j \in 1..n : a \in DOMAIN given[j] => IF a \in b.appends THEN k <= j ELSE j <= k
           counted == CHOOSE k \in 1..n : IsCounted(k)
<1>1. n \in Nat /\ DOMAIN params = 1..n
  OBVIOUS
<1>2. /\ a \in Along(b, params, all) \/ a \in UNION {DOMAIN given[k] : k \in 1..n}
      /\ Attributes(b, params, all)[a] = IF a \in Along(b, params, all) THEN 1 ELSE given[counted][a]
  BY DEF Attributes, Along, TypesIn
<1>3. CASE a \in Along(b, params, all)
  BY <1>2, <1>3 DEF Along, SetAlong
<1>4. CASE a \notin Along(b, params, all)
  <2> DEFINE S == {k \in 1..n : a \in DOMAIN given[k]}
  <2>1. counted \in 1..n /\ a \in DOMAIN given[counted]
    <3> HIDE DEF given, n
    <3>1. S \in SUBSET (1..n) /\ S # {}
      BY <1>2, <1>4
    <3> DEFINE first == a \in b.appends
    <3>2. first \in BOOLEAN
      OBVIOUS
    <3> HIDE DEF S, first
    <3>3. \E k \in 1..n : k \in S /\ \A j \in 1..n : j \in S => IF first THEN k <= j ELSE j <= k
      BY <1>1, <3>1, <3>2, OneCounts
    <3>4. \E k \in 1..n : IsCounted(k)
      BY <3>3 DEF S, first
    <3> QED
      BY <3>4
  <2>2. given[counted] = Given(counted)
    <3> HIDE DEF counted, Given, n
    <3> QED
      BY <2>1
  <2> HIDE DEF counted, given
  <2>3. all[params[counted]].data # <<>> /\ Given(counted)[a] = all[params[counted]].data[1]
    <3>1. a \in DOMAIN Given(counted)
      BY <2>1, <2>2
    <3> QED
      BY <1>1, <2>1, <3>1 DEF Assigned, ReadsNoFloat
  <2> QED
    BY <1>1, <1>2, <1>4, <2>1, <2>2, <2>3 DEF IsDataOf
<1> QED
  BY <1>3, <1>4

\* The loop of Build accepts every parameter.
AllFit(b, params, all) ==
  \A k \in DOMAIN params : ParamResult(b, params, all, k) = "OH_NN_SUCCESS"

\* A builder that succeeds has accepted every parameter.
LEMMA EveryParameterFits ==
  ASSUME NEW b, NEW params \in Seq(Nat), NEW inputs, NEW outputs, NEW all,
         Build(b, params, inputs, outputs, all).ret = "OH_NN_SUCCESS"
  PROVE  /\ Build(b, params, inputs, outputs, all).attributes = Attributes(b, params, all)
         /\ AllFit(b, params, all)
<1> DEFINE n == LastLookedAt(b, params, all)
           Result(k) == ParamResult(b, params, all, k)
           result == IF n = 0 THEN "OH_NN_SUCCESS" ELSE Result(n)
<1>1. /\ Build(b, params, inputs, outputs, all).attributes = Attributes(b, params, all)
      /\ result = "OH_NN_SUCCESS"
  <2> HIDE DEF n, Result
  <2> QED
    BY DEF Build, Refused, n, Result
<1> DEFINE refused == {k \in DOMAIN params : Result(k) # "OH_NN_SUCCESS"}
<1>2. refused = {}
  <2> SUFFICES ASSUME refused # {} PROVE FALSE
    OBVIOUS
  <2>1. refused \in SUBSET Nat
    OBVIOUS
  <2>2. \E k \in refused : \A j \in refused : k <= j
    <3> HIDE DEF refused
    <3> QED
      BY <2>1, LeastNumber
  <2>3. n = CHOOSE k \in refused : \A j \in refused : k <= j
    BY DEF LastLookedAt
  <2>4. n \in refused
    <3> HIDE DEF refused, n
    <3> QED
      BY <2>2, <2>3
  <2>5. n # 0 /\ Result(n) # "OH_NN_SUCCESS"
    <3> HIDE DEF n, Result
    <3> QED
      BY <2>4
  <2> QED
    BY <1>1, <2>5
<1>3. \A k \in DOMAIN params : Result(k) = "OH_NN_SUCCESS"
  <2> HIDE DEF Result
  <2> QED
    BY <1>2
<1> QED
  BY <1>1, <1>3 DEF AllFit

\* A build that succeeds has known the type of every parameter.
LEMMA AllAccepted ==
  ASSUME NEW b, NEW params \in Seq(Nat), NEW inputs, NEW outputs, NEW all,
         Build(b, params, inputs, outputs, all).ret = "OH_NN_SUCCESS"
  PROVE  /\ Build(b, params, inputs, outputs, all).attributes = Attributes(b, params, all)
         /\ \A k \in DOMAIN params : all[params[k]].type \in DOMAIN b.params
<1>1. /\ Build(b, params, inputs, outputs, all).attributes = Attributes(b, params, all)
      /\ AllFit(b, params, all)
  BY EveryParameterFits
<1> QED
  BY <1>1 DEF AllFit, ParamResult

\* A tensor has no data, or one value.
HasData(t) == "data" \in DOMAIN t /\ (t.data # <<>> => t.data = <<t.data[1]>>)
\* Every member of a builder is set along with another, or the data of one of its
\* parameters.
FromParameter(op) ==
  \A a \in DOMAIN op.attributes :
    \/ \E i \in DOMAIN op.params :
         op.params[i] \in DOMAIN tensors /\ tensors[op.params[i]].data = <<op.attributes[a]>>
    \/ Builders[op.type].axisNeedsUse /\ a = "m_useAxis" /\ op.attributes[a] = 1
DataInv ==
  /\ \A i \in DOMAIN tensors : HasData(tensors[i])
  /\ \A k \in DOMAIN ops : FromParameter(ops[k])

\* A tensor that has data keeps them.
DataKept ==
  \A i \in DOMAIN tensors : /\ i \in DOMAIN tensors'
                            /\ tensors[i].data # <<>> => tensors'[i].data = tensors[i].data

\* Data that stay, stay the arguments they were.
LEMMA KeptData ==
  ASSUME DataInv, DataKept, NEW op, FromParameter(op)
  PROVE  FromParameter(op)'
<1> SUFFICES ASSUME NEW a \in DOMAIN op.attributes,
                    ~(Builders[op.type].axisNeedsUse /\ a = "m_useAxis" /\ op.attributes[a] = 1)
             PROVE  \E i \in DOMAIN op.params :
                      op.params[i] \in DOMAIN tensors' /\ tensors'[op.params[i]].data = <<op.attributes[a]>>
  BY DEF FromParameter
<1>1. PICK i \in DOMAIN op.params :
        op.params[i] \in DOMAIN tensors /\ tensors[op.params[i]].data = <<op.attributes[a]>>
  BY DEF FromParameter
<1>2. tensors[op.params[i]].data # <<>>
  BY <1>1
<1> QED
  BY <1>1, <1>2 DEF DataKept

\* The calls that record no operation.
LEMMA TensorsKeepData ==
  ASSUME DataInv, DataKept, ops' = ops, \A i \in DOMAIN tensors' : HasData(tensors'[i])
  PROVE  DataInv'
<1>1. ASSUME NEW k \in DOMAIN ops PROVE FromParameter(ops[k])'
  <2>1. PICK op : op = ops[k]
    OBVIOUS
  <2>2. FromParameter(op)'
    BY <1>1, <2>1, KeptData DEF DataInv
  <2> QED
    BY <2>1, <2>2 DEF FromParameter
<1> QED
  BY <1>1 DEF DataInv, HasData

\* AddTensor and the setters: SetTensorValue refuses a tensor that has data.
LEMMA EditTensorsKeepsData ==
  ASSUME IInv, DataInv, EditTensors
  PROVE  DataInv'
<1>0. tensors \in Seq(Range(tensors)) /\ \A i \in DOMAIN tensors : HasData(tensors[i])
  BY DEF IInv, Listed, DataInv
<1>1. CASE UNCHANGED <<tensors, ops>>
  BY <1>0, <1>1, TensorsKeepData DEF DataKept
<1>2. ASSUME NEW type, NEW kind, NEW quant,
             tensors' = Append(tensors, NewTensor(type, kind, quant)), ops' = ops
      PROVE  DataInv'
  <2> DEFINE t == NewTensor(type, kind, quant)
  <2>1. HasData(t)
    BY DEF NewTensor, HasData
  <2> HIDE DEF t
  <2>2. /\ DOMAIN tensors \subseteq DOMAIN tensors'
        /\ \A i \in DOMAIN tensors : tensors'[i] = tensors[i]
        /\ \A i \in DOMAIN tensors' : i \in DOMAIN tensors \/ tensors'[i] = t
    BY <1>0, <1>2, AppendFacts DEF t
  <2>3. \A i \in DOMAIN tensors' : HasData(tensors'[i])
    BY <1>0, <2>1, <2>2
  <2>4. DataKept
    BY <2>2 DEF DataKept
  <2> QED
    BY <1>2, <2>3, <2>4, TensorsKeepData
<1>3. ASSUME NEW index \in DOMAIN tensors, NEW t,
             tensors' = [tensors EXCEPT ![index] = t], ops' = ops,
             "data" \in DOMAIN t,
             t.data = tensors[index].data \/ (tensors[index].data = <<>> /\ \E v : t.data = <<v>>)
      PROVE  DataInv'
  <2>1. HasData(t)
    <3>1. CASE t.data = tensors[index].data
      <4>1. tensors[index].data # <<>> => tensors[index].data = <<tensors[index].data[1]>>
        BY <1>0, <1>3 DEF HasData
      <4> QED
        BY <1>3, <3>1, <4>1 DEF HasData
    <3>2. CASE \E v : t.data = <<v>>
      <4>1. PICK v : t.data = <<v>>
        BY <3>2
      <4>2. <<v>>[1] = v
        OBVIOUS
      <4> QED
        BY <1>3, <4>1, <4>2 DEF HasData
    <3> QED
      BY <1>3, <3>1, <3>2
  <2>2. /\ DOMAIN tensors' = DOMAIN tensors
        /\ \A i \in DOMAIN tensors : tensors'[i] = IF i = index THEN t ELSE tensors[i]
    BY <1>3
  <2>3. \A i \in DOMAIN tensors' : HasData(tensors'[i])
    BY <1>0, <2>1, <2>2
  <2>4. DataKept
    BY <1>3, <2>2 DEF DataKept
  <2> QED
    BY <1>3, <2>3, <2>4, TensorsKeepData
<1>4. ASSUME NEW kind \in TensorKinds, NEW quant \in Quants, AddTensor(kind, quant)
      PROVE  DataInv'
  BY <1>1, <1>2, <1>4 DEF AddTensor, Refuses
<1>5. ASSUME NEW kind \in TensorKinds, AddTensorDesc(kind)
      PROVE  DataInv'
  BY <1>1, <1>2, <1>5 DEF AddTensorDesc, Refuses
<1>6. ASSUME NEW index \in Indices, NEW type \in TensorTypes, SetTensorType(index, type), ~UNCHANGED <<tensors, ops>>
      PROVE  DataInv'
  <2> DEFINE t == [tensors[index] EXCEPT !.type = type]
  <2>1. index \in DOMAIN tensors /\ tensors' = [tensors EXCEPT ![index] = t] /\ ops' = ops
    BY <1>6 DEF SetTensorType, Refuses
  <2>2. "data" \in DOMAIN t /\ t.data = tensors[index].data
    BY <1>0, <2>1 DEF HasData
  <2> HIDE DEF t
  <2> QED
    BY <1>3, <2>1, <2>2
<1>7. ASSUME NEW index \in Indices, NEW quant \in Quants, SetTensorQuantParam(index, quant), ~UNCHANGED <<tensors, ops>>
      PROVE  DataInv'
  <2> DEFINE t == [tensors[index] EXCEPT !.quant = (quant = "some")]
  <2>1. index \in DOMAIN tensors /\ tensors' = [tensors EXCEPT ![index] = t] /\ ops' = ops
    BY <1>7 DEF SetTensorQuantParam, Refuses
  <2>2. "data" \in DOMAIN t /\ t.data = tensors[index].data
    BY <1>0, <2>1 DEF HasData
  <2> HIDE DEF t
  <2> QED
    BY <1>3, <2>1, <2>2
<1>8. ASSUME NEW index \in Indices, NEW value \in Values, NEW fits \in BOOLEAN,
             SetTensorValue(index, value, fits), ~UNCHANGED <<tensors, ops>>
      PROVE  DataInv'
  <2> DEFINE t == [tensors[index] EXCEPT !.data = <<value>>]
  <2>1. ValueResult(index, fits) = "OH_NN_SUCCESS" /\ tensors' = [tensors EXCEPT ![index] = t] /\ ops' = ops
    BY <1>8 DEF SetTensorValue, Refuses
  <2>2. index \in DOMAIN tensors /\ tensors[index].data = <<>>
    BY <2>1 DEF ValueResult
  <2>3. "data" \in DOMAIN t /\ t.data = <<value>>
    BY <1>0, <2>2 DEF HasData
  <2> HIDE DEF t
  <2> QED
    BY <1>3, <2>1, <2>2, <2>3
<1> QED
  BY <1>1, <1>4, <1>5, <1>6, <1>7, <1>8 DEF EditTensors

\* The new operation has the data that its builder has read.
LEMMA AddOperationKeepsData ==
  ASSUME ReadAsChecked, IInv, DataInv,
         NEW type \in Operations, NEW params \in ParamLists, NEW inputs, NEW outputs,
         AddOperation(type, params, inputs, outputs)
  PROVE  DataInv'
<1>0. /\ tensors \in Seq(Range(tensors)) /\ ops \in Seq(Range(ops))
      /\ \A i \in DOMAIN tensors : HasData(tensors[i])
      /\ params \in Seq(Nat)
  BY InnerModelAssumption DEF IInv, Listed, DataInv
<1>1. CASE UNCHANGED <<tensors, ops>>
  BY <1>0, <1>1, TensorsKeepData DEF DataKept
<1> DEFINE built == Build(Builders[type], params, inputs, outputs, tensors)
           op == [type |-> type, params |-> params, ins |-> inputs, outs |-> outputs,
                  attributes |-> built.attributes, quantAll |-> built.quantAll]
<1>2. CASE ~UNCHANGED <<tensors, ops>>
  <2>1. /\ type \in DOMAIN Builders /\ ValidateTensorArray(params)
        /\ Marking(built.marked)
        /\ ops' = IF built.ret # "OH_NN_SUCCESS" THEN ops ELSE Append(ops, op)
    BY <1>2 DEF AddOperation, Refuses
  <2>2. op.params = params /\ op.attributes = built.attributes /\ op.type = type
    OBVIOUS
  <2>3. /\ DOMAIN tensors' = DOMAIN tensors
        /\ \A i \in DOMAIN tensors : "data" \in DOMAIN tensors'[i] /\ tensors'[i].data = tensors[i].data
    BY <1>0, <2>1 DEF Marking, HasData
  <2>4. DataKept /\ \A i \in DOMAIN tensors' : HasData(tensors'[i])
    BY <1>0, <2>3 DEF DataKept, HasData
  <2>5. CASE ops' = ops
    BY <2>4, <2>5, TensorsKeepData
  <2>6. CASE ops' = Append(ops, op) /\ built.ret = "OH_NN_SUCCESS"
    <3>1. /\ built.attributes = Attributes(Builders[type], params, tensors)
          /\ \A k \in DOMAIN params : tensors[params[k]].type \in DOMAIN Builders[type].params
      BY <1>0, <2>6, AllAccepted
    <3>2. \A k \in DOMAIN params : Builders[type].params[tensors[params[k]].type].readAsFloat = FALSE
      BY <2>1, <3>1 DEF ReadAsChecked
    <3> HIDE DEF built
    <3>3. ASSUME NEW a \in DOMAIN op.attributes,
                 ~(Builders[type].axisNeedsUse /\ a = "m_useAxis" /\ op.attributes[a] = 1)
          PROVE  \E i \in DOMAIN op.params :
                   op.params[i] \in DOMAIN tensors /\ tensors[op.params[i]].data = <<op.attributes[a]>>
      <4>1. PICK k \in DOMAIN params : /\ tensors[params[k]].data # <<>>
                                       /\ built.attributes[a] = tensors[params[k]].data[1]
        <5>1. a \in DOMAIN Attributes(Builders[type], params, tensors)
          BY <2>2, <3>1, <3>3
        <5>2. ReadsNoFloat(Builders[type], params, tensors)
          BY <3>2 DEF ReadsNoFloat
        <5>3. params \in Seq(Nat)
          BY <1>0
        <5>4. IsDataOf(Attributes(Builders[type], params, tensors)[a], params, tensors)
          BY <2>2, <3>1, <3>3, <5>1, <5>2, <5>3, AttributesAreData
        <5> QED
          BY <3>1, <5>4 DEF IsDataOf
      <4>2. params[k] \in DOMAIN tensors
        BY <2>1 DEF ValidateTensorArray
      <4> QED
        BY <1>0, <2>2, <4>1, <4>2 DEF HasData
    <3> HIDE DEF op
    <3>4. FromParameter(op)
      BY <2>2, <3>3 DEF FromParameter
    <3>5. \A k \in DOMAIN ops' : (k \in DOMAIN ops /\ ops'[k] = ops[k]) \/ ops'[k] = op
      BY <1>0, <2>6, AppendFacts
    <3>6. ASSUME NEW k \in DOMAIN ops' PROVE FromParameter(ops[k])'
      <4>1. PICK o : o = ops'[k]
        OBVIOUS
      <4>2. FromParameter(o)
        BY <3>4, <3>5, <4>1 DEF DataInv
      <4>3. FromParameter(o)'
        BY <2>4, <4>2, KeptData
      <4> QED
        BY <4>1, <4>3 DEF FromParameter
    <3> QED
      BY <2>4, <3>6 DEF DataInv, HasData
  <2> QED
    BY <2>1, <2>5, <2>6
<1> QED
  BY <1>1, <1>2

\* SetInputsAndOutputsInfo makes tensors where there are none, so no operation
\* has any member yet.
LEMMA InfosKeepData ==
  ASSUME IInv, DataInv, NEW inputs, NEW outputs, SetInputsAndOutputsInfo(inputs, outputs)
  PROVE  DataInv'
<1>1. CASE UNCHANGED <<tensors, ops>>
  BY <1>1, TensorsKeepData DEF DataKept, DataInv
<1>2. CASE ~UNCHANGED <<tensors, ops>>
  <2>1. tensors = <<>> /\ CheckParameters
    BY <1>2 DEF SetInputsAndOutputsInfo, CheckParameters, Refuses
  <2>2. PICK count : /\ tensors' = [i \in 1..count |-> NewTensor("OH_NN_TENSOR", (inputs \o outputs)[i], FALSE)]
                     /\ ops' = ops
    BY <2>1 DEF SetInputsAndOutputsInfo
  <2>3. \A i \in DOMAIN tensors' : HasData(tensors'[i])
    BY <2>2 DEF NewTensor, HasData
  <2>4. DataKept
    BY <2>1 DEF DataKept
  <2> QED
    BY <2>2, <2>3, <2>4, TensorsKeepData
<1> QED
  BY <1>1, <1>2

\* Every call preserves what the invariant says of data.
LEMMA DataStep ==
  ASSUME ReadAsChecked, IInv, DataInv, [Next]_vars
  PROVE  DataInv'
<1>1. CASE UNCHANGED <<tensors, ops>>
  BY <1>1, TensorsKeepData DEF DataKept, DataInv
<1>2. CASE Compose
  BY <1>1, <1>2, AddOperationKeepsData, InfosKeepData DEF Compose, SpecifyInputsAndOutputs, Refuses
<1> QED
  BY <1>1, <1>2, EditTensorsKeepsData
  DEF Next, Finish, BuildRefused, BuildThrows, BuildSucceeds, BuildNodeFails, BuildFromLiteGraph, BuildFromMetaGraph,
      GetSupportedOperations, Destroy, Refuses, vars

\* Each argument of an operation is the data that a tensor given as its
\* parameter still has, whatever SetTensorValue and Finish do after the setters
\* have read it, with operations that read data as the type they have checked.
THEOREM Arguments == ReadAsChecked => (Spec => []ArgumentsAreTensorData)
<1> SUFFICES ASSUME ReadAsChecked PROVE Spec => []ArgumentsAreTensorData
  OBVIOUS
<1>1. Init => DataInv
  BY DEF Init, DataInv
<1>2. IInv /\ DataInv /\ [Next]_vars => DataInv'
  BY DataStep
<1>3. DataInv => ArgumentsAreTensorData
  BY DEF DataInv, FromParameter, ArgumentsAreTensorData
<1> QED
  BY <1>1, <1>2, <1>3, Invariance, PTL DEF Spec

-----------------------------------------------------------------------------
(* The order of the parameters.                                            *)

\* Another order has the same elements, each once.
LEMMA ReorderedFacts ==
  ASSUME NEW list \in Seq(Nat), NEW order \in Bijection(DOMAIN list, DOMAIN list)
  PROVE  /\ Reordered(list, order) \in Seq(Nat) /\ Len(Reordered(list, order)) = Len(list)
         /\ DOMAIN Reordered(list, order) = DOMAIN list
         /\ \A k \in DOMAIN list : order[k] \in DOMAIN list /\ Reordered(list, order)[k] = list[order[k]]
         /\ \A i, j \in DOMAIN list : order[i] = order[j] => i = j
         /\ \A j \in DOMAIN list : \E i \in DOMAIN list : order[i] = j
         /\ Range(Reordered(list, order)) = Range(list)
<1>1. /\ order \in [DOMAIN list -> DOMAIN list]
      /\ \A i, j \in DOMAIN list : order[i] = order[j] => i = j
      /\ \A j \in DOMAIN list : \E i \in DOMAIN list : order[i] = j
  BY DEF Bijection, Injection, Surjection, IsInjective
<1>2. /\ DOMAIN Reordered(list, order) = DOMAIN list
      /\ \A k \in DOMAIN list : order[k] \in DOMAIN list /\ Reordered(list, order)[k] = list[order[k]]
  BY <1>1 DEF Reordered
<1>3. Reordered(list, order) \in Seq(Nat) /\ Len(Reordered(list, order)) = Len(list)
  BY <1>1 DEF Reordered
<1>4. Range(Reordered(list, order)) = Range(list)
  <2>1. ASSUME NEW e \in Range(Reordered(list, order)) PROVE e \in Range(list)
    <3>1. PICK k \in DOMAIN list : e = Reordered(list, order)[k]
      BY <1>2 DEF Range
    <3>2. order[k] \in DOMAIN list /\ e = list[order[k]]
      BY <1>2, <3>1
    <3> QED
      BY <3>2 DEF Range
  <2>2. ASSUME NEW e \in Range(list) PROVE e \in Range(Reordered(list, order))
    <3>1. PICK j \in DOMAIN list : e = list[j]
      BY DEF Range
    <3>2. PICK i \in DOMAIN list : order[i] = j
      BY <1>1
    <3> QED
      BY <1>2, <3>1, <3>2 DEF Range
  <2> QED
    BY <2>1, <2>2
<1> QED
  BY <1>1, <1>2, <1>3, <1>4

\* The setters refuse an axis that comes with useAxis = false ...
IsAxis(types, i) == types[i] = "OH_NN_FULL_CONNECTION_AXIS"
IsUse(types, i) == types[i] = "OH_NN_FULL_CONNECTION_USE_AXIS"
IsFalse(values, i) == values[i] = <<0>>
LEMMA ConflictHasPair ==
  ASSUME NEW b, NEW types, NEW values, NEW n \in Nat, NEW k \in 1..n, AxisConflict(b, types, values, k)
  PROVE  /\ b.axisNeedsUse
         /\ \E i, j \in 1..n : IsAxis(types, i) /\ IsUse(types, j) /\ IsFalse(values, j)
<1> DEFINE before == {i \in 1..(k - 1) : IsAxis(types, i) \/ IsUse(types, i)}
           last == CHOOSE i \in before : \A j \in before : j <= i
<1>1. /\ b.axisNeedsUse /\ before # {}
      /\ \/ IsAxis(types, k) /\ IsUse(types, last) /\ IsFalse(values, last)
         \/ IsUse(types, k) /\ IsFalse(values, k) /\ \E i \in before : IsAxis(types, i)
  BY DEF AxisConflict, IsAxis, IsUse, IsFalse
<1>2. before \in SUBSET (1..n)
  OBVIOUS
<1>3. last \in 1..n
  <2> HIDE DEF before
  <2>1. \E i \in before : \A j \in before : j <= i
    BY <1>1, <1>2, LastNumber
  <2>2. last \in before
    BY <2>1
  <2> QED
    BY <1>2, <2>2
<1>4. CASE IsAxis(types, k) /\ IsUse(types, last) /\ IsFalse(values, last)
  <2> HIDE DEF last
  <2> QED
    BY <1>1, <1>3, <1>4
<1>5. CASE IsUse(types, k) /\ IsFalse(values, k) /\ \E i \in before : IsAxis(types, i)
  BY <1>1, <1>2, <1>5
<1> QED
  BY <1>1, <1>4, <1>5

\* ... whichever comes first, when each is given once.
LEMMA PairConflicts ==
  ASSUME NEW b, NEW types, NEW values, NEW n \in Nat, b.axisNeedsUse,
         \A i, j \in 1..n : types[i] = types[j] => i = j,
         NEW i \in 1..n, NEW j \in 1..n, IsAxis(types, i), IsUse(types, j), IsFalse(values, j)
  PROVE  \E k \in 1..n : AxisConflict(b, types, values, k)
<1> DEFINE before(k) == {x \in 1..(k - 1) : IsAxis(types, x) \/ IsUse(types, x)}
           last(k) == CHOOSE x \in before(k) : \A y \in before(k) : y <= x
<1>1. i # j
  BY DEF IsAxis, IsUse, IsFalse
<1>2. CASE i < j
  <2>1. i \in before(j)
    BY <1>2
  <2> QED
    BY <2>1 DEF AxisConflict, IsAxis, IsUse, IsFalse
<1>3. CASE j < i
  <2>1. j \in before(i)
    BY <1>3
  <2>2. \A x \in before(i) : x \in 1..n /\ x # i /\ (types[x] = types[i] \/ types[x] = types[j])
    BY DEF IsAxis, IsUse, IsFalse
  <2>3. before(i) = {j}
    BY <2>1, <2>2
  <2>4. last(i) = j
    <3> HIDE DEF before
    <3> QED
      BY <2>3
  <2> QED
    BY <2>1, <2>4 DEF AxisConflict, IsAxis, IsUse, IsFalse
<1> QED
  BY <1>1, <1>2, <1>3

\* What the loop of Build compares: the types and the data of its parameters.
TypesOf(params, all) == [i \in DOMAIN params |-> all[params[i]].type]
ValuesOf(params, all) == [i \in DOMAIN params |-> all[params[i]].data]

\* A parameter is accepted for what it is and for what came before it.
LEMMA ParamAccepted ==
  ASSUME NEW b, NEW params, NEW all, NEW k \in DOMAIN params
  PROVE  ParamResult(b, params, all, k) = "OH_NN_SUCCESS" <=>
           /\ all[params[k]].type \in DOMAIN b.params
           /\ SetterResult(b.params[all[params[k]].type], all[params[k]]) = "OH_NN_SUCCESS"
           /\ ~AxisConflict(b, TypesOf(params, all), ValuesOf(params, all), k)
  BY DEF ParamResult, TypesOf, ValuesOf

\* Parameters of different types are accepted in every order.
LEMMA AcceptedInAnyOrder ==
  ASSUME NEW b, NEW params \in Seq(Nat), NEW all, NEW order \in Bijection(DOMAIN params, DOMAIN params),
         SetDifferentMembers(b, params, all), AllFit(b, params, all)
  PROVE  AllFit(b, Reordered(params, order), all)
<1> DEFINE moved == Reordered(params, order)
           n == Len(params)
<1>1. n \in Nat /\ DOMAIN params = 1..n
  OBVIOUS
<1>2. /\ DOMAIN moved = DOMAIN params
      /\ \A k \in DOMAIN params : order[k] \in DOMAIN params /\ moved[k] = params[order[k]]
  BY ReorderedFacts
<1> HIDE DEF moved, n
<1>3. SUFFICES ASSUME NEW k \in 1..n PROVE ParamResult(b, moved, all, k) = "OH_NN_SUCCESS"
  BY <1>1, <1>2 DEF AllFit, moved
<1>4. /\ all[moved[k]].type \in DOMAIN b.params
      /\ SetterResult(b.params[all[moved[k]].type], all[moved[k]]) = "OH_NN_SUCCESS"
  <2>1. ParamResult(b, params, all, order[k]) = "OH_NN_SUCCESS"
    BY <1>1, <1>2 DEF AllFit
  <2> QED
    BY <1>1, <1>2, <2>1, ParamAccepted
<1>5. ASSUME AxisConflict(b, TypesOf(moved, all), ValuesOf(moved, all), k) PROVE FALSE
  <2>1. b.axisNeedsUse
    BY <1>1, <1>5, ConflictHasPair
  <2>2. PICK i \in 1..n, j \in 1..n :
          /\ IsAxis(TypesOf(moved, all), i) /\ IsUse(TypesOf(moved, all), j)
          /\ IsFalse(ValuesOf(moved, all), j)
    BY <1>1, <1>5, ConflictHasPair
  <2>3. /\ order[i] \in 1..n /\ order[j] \in 1..n
        /\ IsAxis(TypesOf(params, all), order[i]) /\ IsUse(TypesOf(params, all), order[j])
        /\ IsFalse(ValuesOf(params, all), order[j])
    BY <1>1, <1>2, <2>2 DEF IsAxis, IsUse, IsFalse, TypesOf, ValuesOf
  <2>4. \A x, y \in 1..n : TypesOf(params, all)[x] = TypesOf(params, all)[y] => x = y
    BY <1>1 DEF SetDifferentMembers, TypesOf
  <2>5. PICK l \in 1..n : AxisConflict(b, TypesOf(params, all), ValuesOf(params, all), l)
    BY <1>1, <2>1, <2>3, <2>4, PairConflicts
  <2> QED
    BY <1>1, <2>5, ParamAccepted DEF AllFit
<1> QED
  BY <1>1, <1>2, <1>4, <1>5, ParamAccepted

\* The members that the parameter at k assigns, with their values.
AssignedBy(b, params, all, k) == Assigned(b.params[all[params[k]].type], all[params[k]])

\* The members f are those that the parameters assign, each its own, and those
\* that are set along with them.
Collects(f, b, params, all) ==
  /\ \A a : a \in DOMAIN f <=> \/ a \in Along(b, params, all)
                               \/ \E k \in DOMAIN params : a \in DOMAIN AssignedBy(b, params, all, k)
  /\ f = [a \in DOMAIN f |-> f[a]]
  /\ \A a \in Along(b, params, all) : f[a] = 1
  /\ \A k \in DOMAIN params : \A a \in DOMAIN AssignedBy(b, params, all, k) :
       a \in Along(b, params, all) \/ f[a] = AssignedBy(b, params, all, k)[a]

\* Parameters that set different members each give theirs.
LEMMA AttributesOfDifferent ==
  ASSUME NEW b, NEW params \in Seq(Nat), NEW all, SetDifferentMembers(b, params, all)
  PROVE  Collects(Attributes(b, params, all), b, params, all)
<1> DEFINE n == Len(params)
           Given(k) == AssignedBy(b, params, all, k)
           given == [k \in 1..n |-> Given(k)]
           IsCounted(a, k) == /\ a \in DOMAIN given[k]
                              /\ \A j \in 1..n : a \in DOMAIN given[j] => IF a \in b.appends THEN k <= j ELSE j <= k
           counted(a) == CHOOSE k \in 1..n : IsCounted(a, k)
           along == Along(b, params, all)
<1>1. n \in Nat /\ DOMAIN params = 1..n
  OBVIOUS
<1>2. Attributes(b, params, all) =
        [a \in along \union UNION {DOMAIN given[k] : k \in 1..n} |-> IF a \in along THEN 1 ELSE given[counted(a)][a]]
  BY DEF Attributes, AssignedBy, Along, TypesIn
<1>3. \A i, j \in 1..n : i # j => DOMAIN Given(i) \intersect DOMAIN Given(j) = {}
  BY <1>1 DEF SetDifferentMembers, AssignedBy
<1>4. \A k \in 1..n : given[k] = Given(k)
  OBVIOUS
<1> HIDE DEF given, Given, n, along
<1>5. ASSUME NEW k \in 1..n, NEW a \in DOMAIN given[k] PROVE counted(a) = k
  <2>1. \A j \in 1..n : a \in DOMAIN given[j] => j = k
    BY <1>3, <1>4, <1>5
  <2>2. IsCounted(a, k)
    BY <1>1, <1>5, <2>1
  <2>3. counted(a) \in 1..n /\ IsCounted(a, counted(a))
    BY <2>2
  <2> QED
    BY <2>1, <2>3
<1> HIDE DEF counted
<1>6. \A a \in along : Attributes(b, params, all)[a] = 1
  BY <1>2
<1>7. \A k \in 1..n : \A a \in DOMAIN Given(k) : a \in along \/ Attributes(b, params, all)[a] = Given(k)[a]
  BY <1>2, <1>4, <1>5
<1>8. \A a : a \in DOMAIN Attributes(b, params, all) <=> a \in along \/ \E k \in 1..n : a \in DOMAIN Given(k)
  BY <1>2, <1>4
<1>9. Attributes(b, params, all) =
        [a \in DOMAIN Attributes(b, params, all) |-> Attributes(b, params, all)[a]]
  BY <1>2
<1> QED
  BY <1>1, <1>6, <1>7, <1>8, <1>9 DEF Given, along, Collects

\* Then the order they are given in does not matter.
LEMMA AttributesInAnyOrder ==
  ASSUME NEW b, NEW params \in Seq(Nat), NEW all, NEW order \in Bijection(DOMAIN params, DOMAIN params),
         SetDifferentMembers(b, params, all)
  PROVE  Attributes(b, Reordered(params, order), all) = Attributes(b, params, all)
<1> DEFINE moved == Reordered(params, order)
           Here(k) == AssignedBy(b, params, all, k)
           There(k) == AssignedBy(b, moved, all, k)
<1>1. /\ moved \in Seq(Nat) /\ DOMAIN moved = DOMAIN params
      /\ \A k \in DOMAIN params : order[k] \in DOMAIN params /\ moved[k] = params[order[k]]
      /\ \A i, j \in DOMAIN params : order[i] = order[j] => i = j
      /\ \A j \in DOMAIN params : \E i \in DOMAIN params : order[i] = j
  BY ReorderedFacts
<1> HIDE DEF moved
<1>2. SetDifferentMembers(b, moved, all)
  <2> SUFFICES ASSUME NEW i \in DOMAIN moved, NEW j \in DOMAIN moved, i # j
               PROVE  LET s == all[moved[i]]
                          t == all[moved[j]]
                      IN /\ s.type # t.type
                         /\ DOMAIN Assigned(b.params[s.type], s)
                              \intersect DOMAIN Assigned(b.params[t.type], t) = {}
    BY DEF SetDifferentMembers
  <2>0. order[i] \in DOMAIN params /\ order[j] \in DOMAIN params /\ order[i] # order[j]
    BY <1>1
  <2>1. PICK x \in DOMAIN params, y \in DOMAIN params : x = order[i] /\ y = order[j] /\ x # y
    BY <2>0
  <2>2. moved[i] = params[x] /\ moved[j] = params[y]
    BY <1>1, <2>1
  <2> QED
    BY <2>1, <2>2 DEF SetDifferentMembers
<1>3. \A k \in DOMAIN params : There(k) = Here(order[k])
  BY <1>1 DEF AssignedBy
<1> DEFINE A == Attributes(b, params, all)
           M == Attributes(b, moved, all)
<1>a. Collects(A, b, params, all)
  BY AttributesOfDifferent
<1>m. Collects(M, b, moved, all)
  BY <1>1, <1>2, AttributesOfDifferent
<1> HIDE DEF A, M
<1> DEFINE along == Along(b, params, all)
<1>s. Along(b, moved, all) = along
  <2>1. DOMAIN params = 1..Len(params) /\ DOMAIN params = 1..Len(moved)
    BY <1>1
  <2>2. ASSUME NEW k \in DOMAIN params PROVE all[moved[k]].type \in TypesIn(params, all)
    <3>1. PICK i \in DOMAIN params : moved[k] = params[i]
      BY <1>1
    <3> QED
      BY <2>1, <3>1 DEF TypesIn
  <2>3. ASSUME NEW k \in DOMAIN params PROVE all[params[k]].type \in TypesIn(moved, all)
    <3>1. PICK i \in DOMAIN params : order[i] = k
      BY <1>1
    <3> QED
      BY <1>1, <2>1, <3>1 DEF TypesIn
  <2>4. TypesIn(moved, all) = TypesIn(params, all)
    <3>1. \A x \in TypesIn(moved, all) : x \in TypesIn(params, all)
      BY <2>1, <2>2 DEF TypesIn
    <3>2. \A x \in TypesIn(params, all) : x \in TypesIn(moved, all)
      BY <2>1, <2>3 DEF TypesIn
    <3> QED
      BY <3>1, <3>2
  <2> QED
    BY <2>4 DEF Along
<1> HIDE DEF along
<1>4. /\ \A a : a \in DOMAIN A <=> a \in along \/ \E k \in DOMAIN params : a \in DOMAIN Here(k)
      /\ A = [a \in DOMAIN A |-> A[a]]
      /\ \A a \in along : A[a] = 1
      /\ \A k \in DOMAIN params : \A a \in DOMAIN Here(k) : a \in along \/ A[a] = Here(k)[a]
  BY <1>a DEF Collects, along
<1>5. /\ \A a : a \in DOMAIN M <=> a \in along \/ \E k \in DOMAIN params : a \in DOMAIN There(k)
      /\ M = [a \in DOMAIN M |-> M[a]]
      /\ \A a \in along : M[a] = 1
      /\ \A k \in DOMAIN params : \A a \in DOMAIN There(k) : a \in along \/ M[a] = There(k)[a]
  BY <1>1, <1>m, <1>s DEF Collects
<1> HIDE DEF Here, There
<1>6. DOMAIN M = DOMAIN A
  <2>1. \A a \in DOMAIN M : a \in DOMAIN A
    BY <1>1, <1>3, <1>4, <1>5
  <2>2. ASSUME NEW a \in DOMAIN A PROVE a \in DOMAIN M
    <3> SUFFICES ASSUME a \notin along PROVE a \in DOMAIN M
      BY <1>5
    <3>1. PICK j \in DOMAIN params : a \in DOMAIN Here(j)
      BY <1>4
    <3>2. PICK i \in DOMAIN params : order[i] = j
      BY <1>1
    <3>3. a \in DOMAIN There(i)
      BY <1>3, <3>1, <3>2
    <3> QED
      BY <1>5, <3>3
  <2> QED
    BY <2>1, <2>2
<1>7. ASSUME NEW a \in DOMAIN M PROVE M[a] = A[a]
  <2> SUFFICES ASSUME a \notin along PROVE M[a] = A[a]
    BY <1>4, <1>5
  <2>1. PICK k \in DOMAIN params : a \in DOMAIN There(k) /\ M[a] = There(k)[a]
    BY <1>1, <1>5
  <2>2. order[k] \in DOMAIN params /\ a \in DOMAIN Here(order[k]) /\ There(k)[a] = Here(order[k])[a]
    BY <1>1, <1>3, <2>1
  <2>3. A[a] = Here(order[k])[a]
    BY <1>4, <2>2
  <2> QED
    BY <2>1, <2>2, <2>3
<1>8. M = A
  BY <1>4, <1>5, <1>6, <1>7
<1> QED
  BY <1>8 DEF M, A, moved

\* What Build asks of an operation, besides its parameters.
Permitted(b, params, inputs, outputs, all) ==
  /\ CheckIOIndex(b, inputs, outputs, all) /\ CheckParamIndex(b, params, all)
  /\ RanksFit(b, inputs, all) /\ CheckPasses(b, inputs, Attributes(b, params, all), all)
\* The parameters it marks when it accepts all.
Marks(b, params, all) ==
  {params[k] : k \in {i \in DOMAIN params :
     b.marksAll \/ (all[params[i]].type \in DOMAIN b.params
                    /\ Identifies(b.params[all[params[i]].type], all[params[i]]))}}

\* What Build then makes of it.
BuiltOf(b, params, outputs, all) ==
  [ret |-> "OH_NN_SUCCESS", marked |-> Marks(b, params, all), attributes |-> Attributes(b, params, all),
   quantAll |-> b.setsQuantType /\ all[outputs[1]].quant]

\* A build that succeeds was permitted.
LEMMA BuildPermits ==
  ASSUME NEW b, NEW params \in Seq(Nat), NEW inputs, NEW outputs, NEW all,
         Build(b, params, inputs, outputs, all).ret = "OH_NN_SUCCESS"
  PROVE  Permitted(b, params, inputs, outputs, all)
  BY DEF Build, Refused, Permitted

\* A build that is permitted and accepts every parameter marks them all.
LEMMA BuildOfAccepted ==
  ASSUME NEW b, NEW params \in Seq(Nat), NEW inputs, NEW outputs, NEW all,
         AllFit(b, params, all), Permitted(b, params, inputs, outputs, all)
  PROVE  Build(b, params, inputs, outputs, all) = BuiltOf(b, params, outputs, all)
<1> DEFINE n == LastLookedAt(b, params, all)
           tensor(k) == all[params[k]]
           marked == {params[k] : k \in {i \in 1..n :
                        \/ b.marksAll
                        \/ /\ tensor(i).type \in DOMAIN b.params
                           /\ Identifies(b.params[tensor(i).type], tensor(i))}}
           result == IF n = 0 THEN "OH_NN_SUCCESS" ELSE ParamResult(b, params, all, n)
<1>1. Len(params) \in Nat /\ DOMAIN params = 1..Len(params)
  OBVIOUS
<1>2. n = Len(params)
  BY DEF AllFit, LastLookedAt
<1>3. marked = Marks(b, params, all)
  BY <1>1, <1>2 DEF Marks
<1>4. result = "OH_NN_SUCCESS"
  BY <1>1, <1>2 DEF AllFit
<1> HIDE DEF marked, result, n
<1>5. Build(b, params, inputs, outputs, all) =
        [ret |-> "OH_NN_SUCCESS", marked |-> marked, attributes |-> Attributes(b, params, all),
         quantAll |-> b.setsQuantType /\ all[outputs[1]].quant]
  BY <1>4 DEF Build, Permitted, marked, result, n
<1> QED
  BY <1>3, <1>5 DEF BuiltOf

\* Parameters of different types that set different members build the same
\* operation in every order.
LEMMA BuildInAnyOrder ==
  ASSUME NEW b, NEW params \in Seq(Nat), NEW inputs, NEW outputs, NEW all,
         NEW order \in Bijection(DOMAIN params, DOMAIN params),
         SetDifferentMembers(b, params, all),
         Build(b, params, inputs, outputs, all).ret = "OH_NN_SUCCESS"
  PROVE  Build(b, Reordered(params, order), inputs, outputs, all) = Build(b, params, inputs, outputs, all)
<1> DEFINE moved == Reordered(params, order)
<1>1. /\ moved \in Seq(Nat) /\ Len(moved) = Len(params) /\ DOMAIN moved = DOMAIN params
      /\ \A k \in DOMAIN params : order[k] \in DOMAIN params /\ moved[k] = params[order[k]]
      /\ \A j \in DOMAIN params : \E i \in DOMAIN params : order[i] = j
      /\ Range(moved) = Range(params)
  BY ReorderedFacts
<1>2. AllFit(b, params, all) /\ Permitted(b, params, inputs, outputs, all)
  BY EveryParameterFits, BuildPermits
<1>3. AllFit(b, moved, all)
  BY <1>2, AcceptedInAnyOrder
<1>4. Attributes(b, moved, all) = Attributes(b, params, all)
  BY AttributesInAnyOrder
<1> HIDE DEF moved
<1>5. Permitted(b, moved, inputs, outputs, all)
  BY <1>1, <1>2, <1>4 DEF Permitted, CheckParamIndex
<1>6. Marks(b, moved, all) = Marks(b, params, all)
  <2> DEFINE IsMarked(i) == b.marksAll \/ (all[i].type \in DOMAIN b.params
                                           /\ Identifies(b.params[all[i].type], all[i]))
  <2>1. Marks(b, params, all) = {i \in Range(params) : IsMarked(i)}
    BY DEF Marks, Range
  <2>2. Marks(b, moved, all) = {i \in Range(moved) : IsMarked(i)}
    BY DEF Marks, Range
  <2> QED
    BY <1>1, <2>1, <2>2
<1>7. Build(b, params, inputs, outputs, all) = BuiltOf(b, params, outputs, all)
  BY <1>2, BuildOfAccepted
<1>8. Build(b, moved, inputs, outputs, all) = BuiltOf(b, moved, outputs, all)
  <2>1. moved \in Seq(Nat)
    BY <1>1
  <2> QED
    BY <2>1, <1>3, <1>5, BuildOfAccepted
<1>9. BuiltOf(b, moved, outputs, all) = BuiltOf(b, params, outputs, all)
  BY <1>4, <1>6 DEF BuiltOf
<1> QED
  BY <1>7, <1>8, <1>9 DEF moved

\* The operation k has just been added: it has been built from these.
Adds(k, type, params, inputs, outputs) ==
  LET built == Build(Builders[type], params, inputs, outputs, tensors)
  IN /\ built.ret = "OH_NN_SUCCESS" /\ Marking(built.marked)
     /\ ops'[k] = [type |-> type, params |-> params, ins |-> inputs, outs |-> outputs,
                   attributes |-> built.attributes, quantAll |-> built.quantAll]

\* Only AddOperation changes the operations.
LEMMA OnlyAddOperation ==
  ASSUME [Next]_vars, ops' # ops
  PROVE  \E type \in Operations, params \in ParamLists, inputs \in InputLists, outputs \in OutputLists :
           AddOperation(type, params, inputs, outputs)
  BY DEF Next, Compose, EditTensors, AddTensor, AddTensorDesc, SetTensorType, SetTensorQuantParam, SetTensorValue,
         SpecifyInputsAndOutputs, SetInputsAndOutputsInfo, Finish, BuildRefused, BuildThrows, BuildSucceeds,
         BuildNodeFails, BuildFromLiteGraph, BuildFromMetaGraph, GetSupportedOperations, Destroy, Refuses, vars

\* A new operation is one that AddOperation has built.
LEMMA AddedOperation ==
  ASSUME IInv, [Next]_vars, NEW k \in DOMAIN ops' \ DOMAIN ops
  PROVE  \E type \in DOMAIN Builders, params \in ParamLists, inputs \in InputLists, outputs \in OutputLists :
           Adds(k, type, params, inputs, outputs)
<1>1. PICK type \in Operations, params \in ParamLists, inputs \in InputLists, outputs \in OutputLists :
        AddOperation(type, params, inputs, outputs) /\ ops' # ops
  BY OnlyAddOperation
<1> DEFINE built == Build(Builders[type], params, inputs, outputs, tensors)
           op == [type |-> type, params |-> params, ins |-> inputs, outs |-> outputs,
                  attributes |-> built.attributes, quantAll |-> built.quantAll]
<1>2. /\ Marking(built.marked) /\ built.ret = "OH_NN_SUCCESS" /\ ops' = Append(ops, op)
      /\ type \in DOMAIN Builders
  BY <1>1 DEF AddOperation, Refuses
<1>3. ops'[k] = op
  <2> HIDE DEF op
  <2> QED
    BY <1>2, AppendFacts DEF IInv, Listed
<1>4. Adds(k, type, params, inputs, outputs)
  BY <1>2, <1>3 DEF Adds
<1> QED
  BY <1>2, <1>4

\* The order in which the application lists the parameters of an operation is
\* free, for every builder whose loop is that of OpsBuilder: parameters of
\* different types that set different members are accepted in every order once
\* they are in one, and build the same operation, though a setter may look at
\* what an earlier one has set.
THEOREM OrderIsFree == Spec => OrderOfParametersIsFree
<1>1. ASSUME IInv, [Next]_vars, NEW k \in DOMAIN ops' \ DOMAIN ops,
             SetDifferentMembers(Builders[ops'[k].type], ops'[k].params, tensors),
             NEW order \in Bijection(DOMAIN ops'[k].params, DOMAIN ops'[k].params)
      PROVE  LET op == ops'[k]
                 built == Build(Builders[op.type], Reordered(op.params, order), op.ins, op.outs, tensors)
             IN /\ built.ret = "OH_NN_SUCCESS" /\ Marking(built.marked)
                /\ built.attributes = op.attributes /\ built.quantAll = op.quantAll
  <2>1. PICK type \in DOMAIN Builders, params \in ParamLists, inputs \in InputLists, outputs \in OutputLists :
          Adds(k, type, params, inputs, outputs)
    BY <1>1, AddedOperation
  <2> DEFINE built == Build(Builders[type], params, inputs, outputs, tensors)
  <2>2. /\ built.ret = "OH_NN_SUCCESS" /\ Marking(built.marked)
        /\ ops'[k].type = type /\ ops'[k].params = params /\ ops'[k].ins = inputs /\ ops'[k].outs = outputs
        /\ ops'[k].attributes = built.attributes /\ ops'[k].quantAll = built.quantAll
    BY <2>1 DEF Adds
  <2>3. params \in Seq(Nat)
    BY InnerModelAssumption
  <2>4. Build(Builders[type], Reordered(params, order), inputs, outputs, tensors) = built
    BY <1>1, <2>2, <2>3, BuildInAnyOrder
  <2> HIDE DEF built
  <2> QED
    BY <2>2, <2>4
<1>2. IInv /\ [Next]_vars => [\A k \in DOMAIN ops' \ DOMAIN ops :
        LET op == ops'[k]
            b == Builders[op.type]
        IN SetDifferentMembers(b, op.params, tensors) =>
             \A order \in Bijection(DOMAIN op.params, DOMAIN op.params) :
               LET built == Build(b, Reordered(op.params, order), op.ins, op.outs, tensors)
               IN /\ built.ret = "OH_NN_SUCCESS" /\ Marking(built.marked)
                  /\ built.attributes = op.attributes /\ built.quantAll = op.quantAll]_vars
  BY <1>1
<1> QED
  BY <1>2, Invariance, PTL DEF Spec, OrderOfParametersIsFree

-----------------------------------------------------------------------------
(* The way to the device.                                                  *)

\* Nothing but an operation of Finish is a node, and an operation has members
\* of its builder only.
MembersInv ==
  /\ liteGraph.origin # "finish" => liteGraph.nodes = <<>>
  /\ \A k \in DOMAIN ops : DOMAIN ops[k].attributes \subseteq Members(Builders[ops[k].type])
                           /\ ops[k].type \in DOMAIN Builders

\* The operations stay, and any other has just been added.
LEMMA OperationsStay ==
  ASSUME IInv, [Next]_vars, NEW k \in DOMAIN ops'
  PROVE  (k \in DOMAIN ops /\ ops'[k] = ops[k]) \/ k \in DOMAIN ops' \ DOMAIN ops
<1> SUFFICES ASSUME k \in DOMAIN ops, ops' # ops PROVE ops'[k] = ops[k]
  OBVIOUS
<1>1. PICK type \in Operations, params \in ParamLists, inputs \in InputLists, outputs \in OutputLists :
        AddOperation(type, params, inputs, outputs)
  BY OnlyAddOperation
<1>2. PICK op : ops' = Append(ops, op)
  BY <1>1 DEF AddOperation, Refuses
<1> QED
  BY <1>2, AppendFacts DEF IInv, Listed

\* A builder sets no member that none of its setters has.
LEMMA MembersOfBuilder ==
  ASSUME NEW b, NEW params \in Seq(Nat), NEW inputs, NEW outputs, NEW all,
         Build(b, params, inputs, outputs, all).ret = "OH_NN_SUCCESS"
  PROVE  DOMAIN Build(b, params, inputs, outputs, all).attributes \subseteq Members(b)
<1>1. /\ Build(b, params, inputs, outputs, all).attributes = Attributes(b, params, all)
      /\ \A k \in DOMAIN params : all[params[k]].type \in DOMAIN b.params
  BY AllAccepted
<1>2. ASSUME NEW a \in DOMAIN Attributes(b, params, all) PROVE a \in Members(b)
  <2> DEFINE given == [k \in 1..Len(params) |-> Assigned(b.params[all[params[k]].type], all[params[k]])]
  <2> SUFFICES ASSUME a \notin Along(b, params, all) PROVE a \in Members(b)
    BY <1>1 DEF Along, TypesIn, SetAlong, Members
  <2>0. a \in UNION {DOMAIN given[k] : k \in 1..Len(params)}
    BY DEF Attributes, Along, TypesIn
  <2>1. PICK k \in DOMAIN params : a \in DOMAIN Assigned(b.params[all[params[k]].type], all[params[k]])
    BY <2>0
  <2>2. PICK r \in b.params[all[params[k]].type].readings : a = r.attribute
    BY <2>1 DEF Assigned
  <2> QED
    BY <1>1, <2>2 DEF Members
<1> QED
  BY <1>1, <1>2

\* Every call preserves what the invariant says of members.
LEMMA MembersStep ==
  ASSUME IInv, MembersInv, [Next]_vars
  PROVE  MembersInv'
<1>1. liteGraph'.origin # "finish" => liteGraph'.nodes = <<>>
  <2>1. CASE liteGraph' = liteGraph
    BY <2>1 DEF MembersInv
  <2>2. CASE Finish
    BY <2>1, <2>2 DEF Finish, BuildRefused, BuildThrows, BuildSucceeds, BuildNodeFails, Refuses, graphs, GraphWith, NoGraph
  <2>3. ASSUME NEW graph \in LiteGraphs, BuildFromLiteGraph(graph) PROVE liteGraph' = liteGraph \/ liteGraph'.nodes = <<>>
    BY <2>3 DEF BuildFromLiteGraph, Refuses, graphs, NoGraph
  <2>4. CASE Compose
    <3>1. ASSUME NEW type, NEW params, NEW inputs, NEW outputs, AddOperation(type, params, inputs, outputs)
          PROVE  UNCHANGED graphs
      BY <3>1 DEF AddOperation, Refuses
    <3>2. ASSUME NEW inputs, NEW outputs, SpecifyInputsAndOutputs(inputs, outputs) PROVE UNCHANGED graphs
      BY <3>2 DEF SpecifyInputsAndOutputs, Refuses
    <3>3. ASSUME NEW inputs, NEW outputs, SetInputsAndOutputsInfo(inputs, outputs) PROVE UNCHANGED graphs
      BY <3>3, ZenonT(60) DEF SetInputsAndOutputsInfo, Refuses
    <3>4. UNCHANGED graphs
      BY <2>4, <3>1, <3>2, <3>3 DEF Compose
    <3> QED
      BY <2>1, <3>4 DEF graphs
  <2> QED
    BY <2>1, <2>2, <2>3, <2>4
    DEF Next, EditTensors, AddTensor, AddTensorDesc, SetTensorType, SetTensorQuantParam, SetTensorValue,
        BuildFromMetaGraph, GetSupportedOperations, Destroy, Refuses, vars, graphs
<1>2. ASSUME NEW k \in DOMAIN ops'
      PROVE  DOMAIN ops'[k].attributes \subseteq Members(Builders[ops'[k].type]) /\ ops'[k].type \in DOMAIN Builders
  <2>1. CASE k \in DOMAIN ops /\ ops'[k] = ops[k]
    BY <2>1 DEF MembersInv
  <2>2. CASE k \in DOMAIN ops' \ DOMAIN ops
    <3>1. PICK type \in DOMAIN Builders, params \in ParamLists, inputs \in InputLists, outputs \in OutputLists :
            Adds(k, type, params, inputs, outputs)
      BY <2>2, AddedOperation
    <3>2. params \in Seq(Nat)
      BY InnerModelAssumption
    <3> DEFINE built == Build(Builders[type], params, inputs, outputs, tensors)
    <3>3. /\ built.ret = "OH_NN_SUCCESS"
          /\ ops'[k].type = type /\ ops'[k].attributes = built.attributes
      BY <3>1 DEF Adds
    <3>4. DOMAIN built.attributes \subseteq Members(Builders[type])
      BY <3>2, <3>3, MembersOfBuilder
    <3> HIDE DEF built
    <3> QED
      BY <3>3, <3>4
  <2> QED
    BY <2>1, <2>2, OperationsStay
<1> QED
  BY <1>1, <1>2 DEF MembersInv

\* A converter whose table has each member delivers each argument.
LEMMA ConversionDelivers ==
  ASSUME EveryMemberIsRead, NEW type \in DOMAIN Builders, NEW v \in HDIVersions,
         Converted(v, Builders[type].primitive),
         NEW arguments, NEW m \in DOMAIN arguments, m \in Members(Builders[type]) \ Builders[type].drops
  PROVE  Delivers(v, Builders[type].primitive, arguments, m)
<1> DEFINE class == Builders[type].primitive
           table == convertOpMap[v]
           fields == Convert(v, class, arguments)
<1>1. PICK f \in DOMAIN table[class] : table[class][f][1] = class /\ Member(class, table[class][f][2]) = m
  BY DEF EveryMemberIsRead
<1>2. class \in DOMAIN table
  BY DEF Converted
<1> HIDE DEF class, table
<1>3. f \in DOMAIN fields /\ fields[f] = <<arguments[m]>>
  BY <1>1, <1>2 DEF Convert, table
<1> QED
  BY <1>1, <1>3 DEF Delivers, class, table

\* Whatever the application composes, the nodes handed to a device hold every
\* argument that the setters of the builders have read, for each version of the
\* interface whose converter reads the members the builders have: what the
\* parameters are, how the operations are ordered and what fails in between
\* makes no difference.
THEOREM ReachDevice == EveryMemberIsRead => (Spec => []ArgumentsReachTheDevice)
<1> SUFFICES ASSUME EveryMemberIsRead PROVE Spec => []ArgumentsReachTheDevice
  OBVIOUS
<1>1. Init => MembersInv
  BY DEF Init, MembersInv, NoGraph
<1>2. IInv /\ MembersInv /\ [Next]_vars => MembersInv'
  BY MembersStep
<1>3. ASSUME IInv, MembersInv PROVE ArgumentsReachTheDevice
  <2> SUFFICES ASSUME NEW k \in DOMAIN liteGraph.nodes, NEW v \in HDIVersions,
                      Converted(v, Builders[ops[k].type].primitive),
                      NEW m \in DOMAIN liteGraph.nodes[k].arguments
               PROVE  Delivers(v, Builders[ops[k].type].primitive, liteGraph.nodes[k].arguments, m)
    BY DEF ArgumentsReachTheDevice
  <2>1. liteGraph.origin = "finish"
    BY <1>3 DEF MembersInv
  <2>2. k \in DOMAIN ops /\ Resolved(liteGraph.nodes[k]) = Recorded[k]
    BY <1>3, <2>1 DEF IInv, GraphIsOfModel
  <2>3. liteGraph.nodes[k].arguments = PrimitiveArguments(Builders[ops[k].type], ops[k].attributes)
    BY <2>2 DEF Resolved, Recorded
  <2>4. ops[k].type \in DOMAIN Builders /\ DOMAIN ops[k].attributes \subseteq Members(Builders[ops[k].type])
    BY <1>3, <2>2 DEF MembersInv
  <2>5. m \in Members(Builders[ops[k].type]) \ Builders[ops[k].type].drops
    BY <2>3, <2>4 DEF PrimitiveArguments, Restrict
  <2> QED
    BY <2>4, <2>5, ConversionDelivers
<1> QED
  BY <1>1, <1>2, <1>3, Invariance, PTL DEF Spec

-----------------------------------------------------------------------------
(* The refinement.                                                         *)

\* A model without a graph has published nothing.
LEMMA ClosedWhenBuilt == ~IsBuild => liteGraph = NoGraph /\ Published = <<>>
  BY DEF IsBuild, Published, NoGraph

\* Initial states map to initial states.
LEMMA CompositionInit == Init => Composition!Init
  BY DEF Init, Composition!Init, Composition!Unnamed, Recorded, Published, IsBuild, NoGraph

\* A call that leaves operations and graph alone is a stutter.
LEMMA Unchanged ==
  ASSUME UNCHANGED <<ops, inputIndices, outputIndices, liteGraph, metaGraph>>
  PROVE  UNCHANGED Composition!vars
<1>1. Recorded' = Recorded
  BY DEF Recorded
<1>2. IsBuild' = IsBuild
  BY DEF IsBuild, NoGraph
<1>3. Published' = Published
  BY DEF Published, Resolved, Named
<1> QED BY <1>1, <1>2, <1>3 DEF Composition!vars

\* An accepted operation is recorded behind the others.
LEMMA AddOperationRecords ==
  ASSUME IInv, NEW type, NEW params, NEW inputs, NEW outputs,
         AddOperation(type, params, inputs, outputs)
  PROVE  [Composition!Next]_(Composition!vars)
<1>1. CASE UNCHANGED <<ops, inputIndices, outputIndices, liteGraph, metaGraph>>
  BY <1>1, Unchanged
<1>2. CASE ~UNCHANGED <<ops, inputIndices, outputIndices, liteGraph, metaGraph>>
  <2>1. /\ ~IsBuild
        /\ \E op : ops' = Append(ops, op)
        /\ UNCHANGED <<inputIndices, outputIndices, liteGraph, metaGraph>>
    BY <1>2 DEF AddOperation, Refuses, ends, graphs
  <2>2. /\ ops \in Seq(Range(ops)) /\ Len(ops') = Len(ops) + 1
        /\ ops' \in Seq(Range(ops'))
        /\ DOMAIN ops \subseteq DOMAIN ops'
        /\ \A i \in DOMAIN ops : ops'[i] = ops[i]
    BY <2>1, AppendFacts DEF IInv, Listed
  <2>3. /\ Recorded = [k \in 1..Len(ops) |-> Recorded[k]]
        /\ Recorded' = [k \in 1..Len(ops') |-> Recorded'[k]]
        /\ Len(ops) \in Nat /\ Len(ops') \in Nat
    BY <2>2 DEF Recorded
  <2>4. Len(Recorded) = Len(ops) /\ Len(Recorded') = Len(ops')
    BY <2>3, CountedList
  <2>5. \A i \in DOMAIN Recorded : Recorded'[i] = Recorded[i]
    BY <2>2 DEF Recorded
  <2>6. IsBuild' = IsBuild /\ Published' = Published
    BY <2>1 DEF IsBuild, NoGraph, Published, Resolved, Named
  <2>7. Composition!Record
    BY <2>1, <2>2, <2>4, <2>5, <2>6 DEF Composition!Record
  <2> QED BY <2>7 DEF Composition!Next
<1> QED BY <1>1, <1>2

\* The ends are named once.
LEMMA EndsAreNamed ==
  ASSUME IInv, ~IsBuild, inputIndices = <<>>, UNCHANGED <<ops, liteGraph, metaGraph>>
  PROVE  [Composition!Next]_(Composition!vars)
<1>1. <<inputIndices, outputIndices>> = <<<<>>, <<>>>>
  BY DEF IInv, EndsGoTogether
<1>2. Recorded' = Recorded /\ IsBuild' = IsBuild /\ Published' = Published
  <2>1. Recorded' = Recorded
    BY DEF Recorded
  <2>2. IsBuild' = IsBuild
    BY DEF IsBuild, NoGraph
  <2>3. Published' = Published
    BY DEF Published, Resolved, Named
  <2> QED BY <2>1, <2>2, <2>3
<1>3. Composition!NameEnds
  BY <1>1, <1>2 DEF Composition!NameEnds, Composition!Unnamed
<1> QED BY <1>3 DEF Composition!Next

\* A call that composes records an operation, names the ends or stutters.
LEMMA ComposeImplements ==
  ASSUME IInv, Compose
  PROVE  [Composition!Next]_(Composition!vars)
<1>1. CASE \E type \in Operations, params \in ParamLists, inputs \in InputLists,
               outputs \in OutputLists : AddOperation(type, params, inputs, outputs)
  BY <1>1, AddOperationRecords
<1>2. CASE \E inputs \in InputLists, outputs \in OutputLists :
             SpecifyInputsAndOutputs(inputs, outputs)
  <2>1. \/ UNCHANGED <<ops, inputIndices, outputIndices, liteGraph, metaGraph>>
        \/ /\ ~IsBuild /\ inputTensors = <<>>
           /\ UNCHANGED <<ops, liteGraph, metaGraph>>
    BY <1>2 DEF SpecifyInputsAndOutputs, Refuses, ends, graphs
  <2>2. CASE UNCHANGED <<ops, inputIndices, outputIndices, liteGraph, metaGraph>>
    BY <2>2, Unchanged
  <2>3. CASE ~IsBuild /\ inputTensors = <<>> /\ UNCHANGED <<ops, liteGraph, metaGraph>>
    <3>1. inputIndices = <<>>
      BY <2>3 DEF IInv, EndsGoTogether
    <3> QED BY <2>3, <3>1, EndsAreNamed
  <2> QED BY <2>1, <2>2, <2>3
<1>3. CASE \E inputs, outputs \in InfoLists : SetInputsAndOutputsInfo(inputs, outputs)
  <2>1. \/ UNCHANGED <<ops, inputIndices, outputIndices, liteGraph, metaGraph>>
        \/ /\ ~IsBuild /\ inputIndices = <<>>
           /\ UNCHANGED <<ops, liteGraph, metaGraph>>
    <3>1. PICK inputs \in InfoLists, outputs \in InfoLists : SetInputsAndOutputsInfo(inputs, outputs)
      BY <1>3
    <3>2. CASE CheckParameters
      <4>1. ~IsBuild /\ inputIndices = <<>>
        BY <3>2 DEF CheckParameters
      <4>2. UNCHANGED <<ops, liteGraph, metaGraph>>
        <5>1. UNCHANGED <<ops, graphs>>
          BY <3>1, <3>2, ZenonT(60) DEF SetInputsAndOutputsInfo
        <5> QED BY <5>1 DEF graphs
      <4> QED BY <4>1, <4>2
    <3>3. CASE ~CheckParameters
      <4>1. Refuses("OH_NN_OPERATION_FORBIDDEN")
        BY <3>1, <3>3 DEF SetInputsAndOutputsInfo
      <4> QED BY <4>1 DEF Refuses, ends, graphs
    <3> QED BY <3>2, <3>3
  <2>2. CASE UNCHANGED <<ops, inputIndices, outputIndices, liteGraph, metaGraph>>
    BY <2>2, Unchanged
  <2>3. CASE ~IsBuild /\ inputIndices = <<>> /\ UNCHANGED <<ops, liteGraph, metaGraph>>
    BY <2>3, EndsAreNamed
  <2> QED BY <2>1, <2>2, <2>3
<1> QED BY <1>1, <1>2, <1>3 DEF Compose

\* A step that makes the model built without completing a graph closes it.
LEMMA Closes ==
  ASSUME ~IsBuild, IsBuild', ~liteGraph'.subGraph, UNCHANGED <<ops, inputIndices, outputIndices>>
  PROVE  [Composition!Next]_(Composition!vars)
<1>1. Recorded' = Recorded
  BY DEF Recorded
<1>2. Published' = Published
  BY ClosedWhenBuilt DEF Published
<1>3. Composition!Close
  BY <1>1, <1>2 DEF Composition!Close
<1> QED BY <1>3 DEF Composition!Next

\* A complete graph is the record of the model, by tensors instead of indices.
LEMMA FinishPublishes ==
  ASSUME IInv, IInv', BuildSucceeds
  PROVE  [Composition!Next]_(Composition!vars)
<1>1. /\ ~IsBuild /\ ops # <<>> /\ inputIndices # <<>> /\ outputIndices # <<>>
      /\ liteGraph'.subGraph /\ UNCHANGED <<ops, inputIndices, outputIndices>>
  BY DEF BuildSucceeds, ReadyToBuild, GraphWith, NoGraph, ends
<1>2. Recorded' = Recorded
  BY <1>1 DEF Recorded
<1>3. Recorded # <<>>
  <2>1. DOMAIN Recorded = DOMAIN ops
    BY DEF Recorded
  <2>2. ops \in Seq(Range(ops))
    BY DEF IInv, Listed
  <2>3. 1 \in DOMAIN ops
    BY <1>1, <2>2
  <2> QED BY <2>1, <2>3
<1>4. /\ DOMAIN liteGraph'.nodes = DOMAIN ops'
      /\ \A k \in DOMAIN liteGraph'.nodes : Resolved(liteGraph.nodes[k])' = Recorded'[k]
      /\ Named(liteGraph.inputs)' = inputIndices'
      /\ Named(liteGraph.outputs)' = outputIndices'
  BY <1>1 DEF IInv, GraphIsOfModel
<1>5. [k \in DOMAIN liteGraph'.nodes |-> Resolved(liteGraph.nodes[k])'] = Recorded
  <2>1. Recorded' = [k \in DOMAIN ops' |-> Recorded'[k]]
    BY DEF Recorded
  <2> QED BY <1>2, <1>4, <2>1
<1>6. Published' = <<[nodes |-> Recorded, inputs |-> inputIndices, outputs |-> outputIndices]>>
  BY <1>1, <1>4, <1>5 DEF Published
<1>7. IsBuild'
  BY <1>1 DEF IsBuild, NoGraph
<1>8. Composition!Publish
  BY <1>1, <1>2, <1>3, <1>6, <1>7 DEF Composition!Publish
<1> QED BY <1>8 DEF Composition!Next

\* Finish publishes all that was recorded, or closes without.
LEMMA FinishImplements ==
  ASSUME IInv, IInv', Finish
  PROVE  [Composition!Next]_(Composition!vars)
<1>1. CASE BuildRefused
  BY <1>1, Unchanged DEF BuildRefused, Refuses, ends, graphs
<1>2. CASE BuildThrows \/ \E k \in DOMAIN ops : BuildNodeFails(k)
  <2>1. /\ ~IsBuild /\ liteGraph'.origin = "finish" /\ ~liteGraph'.subGraph
        /\ UNCHANGED <<ops, inputIndices, outputIndices>>
    BY <1>2 DEF BuildThrows, BuildNodeFails, ReadyToBuild, GraphWith, NoGraph, ends
  <2>2. IsBuild'
    BY <2>1 DEF IsBuild, NoGraph
  <2> QED BY <2>1, <2>2, Closes
<1>3. CASE BuildSucceeds
  BY <1>3, FinishPublishes
<1> QED BY <1>1, <1>2, <1>3 DEF Finish

\* Every call is a step of ModelGraph or a stutter.
LEMMA CompositionStep ==
  IInv /\ IInv' /\ [Next]_vars => [Composition!Next]_(Composition!vars)
<1> SUFFICES ASSUME IInv, IInv', [Next]_vars PROVE [Composition!Next]_(Composition!vars)
  OBVIOUS
<1>1. CASE EditTensors
  <2>1. UNCHANGED <<ops, inputIndices, outputIndices, liteGraph, metaGraph>>
    BY <1>1 DEF EditTensors, AddTensor, AddTensorDesc, SetTensorType, SetTensorQuantParam,
       SetTensorValue, Refuses, ends, graphs
  <2> QED BY <2>1, Unchanged
<1>2. CASE Compose
  BY <1>2, ComposeImplements
<1>3. CASE Finish
  BY <1>3, FinishImplements
<1>4. CASE (\E graph \in LiteGraphs : BuildFromLiteGraph(graph)) \/ BuildFromMetaGraph
  <2>1. \/ UNCHANGED <<ops, inputIndices, outputIndices, liteGraph, metaGraph>>
        \/ /\ ~IsBuild /\ UNCHANGED <<ops, inputIndices, outputIndices>>
           /\ \/ liteGraph'.origin = "lite" /\ ~liteGraph'.subGraph
              \/ metaGraph' /\ liteGraph' = liteGraph
    BY <1>4 DEF BuildFromLiteGraph, BuildFromMetaGraph, Refuses, NoGraph, ends, graphs
  <2>2. CASE /\ ~IsBuild /\ UNCHANGED <<ops, inputIndices, outputIndices>>
             /\ \/ liteGraph'.origin = "lite" /\ ~liteGraph'.subGraph
                \/ metaGraph' /\ liteGraph' = liteGraph
    <3>1. IsBuild' /\ ~liteGraph'.subGraph
      BY <2>2 DEF IsBuild, NoGraph
    <3> QED BY <2>2, <3>1, Closes
  <2> QED BY <2>1, <2>2, Unchanged
<1>5. CASE \/ \E answered \in BOOLEAN : GetSupportedOperations(answered)
           \/ Destroy \/ UNCHANGED vars
  <2>1. UNCHANGED <<ops, inputIndices, outputIndices, liteGraph, metaGraph>>
    BY <1>5 DEF GetSupportedOperations, Destroy, Refuses, vars, ends, graphs
  <2> QED BY <2>1, Unchanged
<1> QED BY <1>1, <1>2, <1>3, <1>4, <1>5 DEF Next

\* InnerModel implements ModelGraph: what Finish publishes is exactly what the
\* calls recorded, once, with every index resolved to the tensor it names.
THEOREM Implements == Spec => CompositionSpec
  BY CompositionInit, CompositionStep, Invariance, PTL
  DEF Spec, CompositionSpec, Composition!Spec
=============================================================================
