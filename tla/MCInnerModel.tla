---------------------------- MODULE MCInnerModel ----------------------------
(* InnerModel with four operations of the registry: Relu has no parameter,  *)
(* Add one that is marked, QuantDTypeCast cannot be made without its        *)
(* parameters, Scale dereferences the one it was not given.                 *)
EXTENDS ModelConversion, OpsRegistry

\* What the proofs ask of the tables holds of the registry and the operations used here,
\* and of all others but LSTM.
ReadsAsOther(type) == \E p \in DOMAIN Registry[type].params : Registry[type].params[p].readAsFloat
ASSUME RegistryAssumption ==
  /\ EveryMemberIsRead /\ ReadAsChecked
  /\ {type \in DOMAIN Registry : ReadsAsOther(type)} = {"OH_NN_OPS_LSTM"}

\* No action reads the last return code.
StateWithoutRet == <<tensors, ops, inputIndices, outputIndices, inputTensors, outputTensors,
                     liteGraph, metaGraph, supported, alive, fault>>

Kind(type, dtype, dims) == [type |-> type, dtype |-> dtype, dims |-> dims]
Float == Kind("OH_NN_TENSOR", "OH_NN_FLOAT32", <<2>>)
Activation == Kind("OH_NN_ADD_ACTIVATIONTYPE", "OH_NN_INT8", <<>>)
Zero == Kind("OH_NN_TENSOR", "OH_NN_FLOAT32", <<0>>)
Dynamic == Kind("OH_NN_TENSOR", "OH_NN_FLOAT32", <<-1>>)
Long == Kind("OH_NN_TENSOR", "OH_NN_FLOAT32", <<3>>)

TwoKinds == {Float, Activation}
AllKinds == {Float, Activation, Zero, Dynamic, Long}
\* Marking the first tensor shifts the place of the others in the graph.
AddParams == {<<>>, <<1>>}
InputsOfAdd == {<<2>>, <<2, 2>>}
FirstOrThird == {<<1>>, <<3>>}
AnyList == {<<>>, <<1>>, <<2>>, <<1, 2>>, <<1, 1, 1>>}
Graphs == {[size |-> 2, inputs |-> <<1>>, outputs |-> <<2>>, refused |-> {}],
           [size |-> 2, inputs |-> <<1>>, outputs |-> <<1, 2>>, refused |-> {2}],
           [size |-> 2, inputs |-> <<>>, outputs |-> <<2>>, refused |-> {}],
           [size |-> 2, inputs |-> <<1>>, outputs |-> <<3>>, refused |-> {}]}
NoParams == {<<>>}
Infos == {<<Float>>, <<Dynamic, Zero>>, <<Float, Dynamic>>}
=============================================================================
