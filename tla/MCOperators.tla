---------------------------- MODULE MCOperators -----------------------------
(* InnerModel for every operation of the registry: the application has      *)
(* prepared the tensors of one operation with up to two parameters, adds    *)
(* the operation, names the ends of the model and finishes it.              *)
EXTENDS ModelConversion, OpsRegistry, FiniteSets

CONSTANT Chosen  \* operation types

VARIABLE chosen  \* the operation being prepared

NoValue == {<<>>}
Dims == {<<>>, <<2>>, <<4>>, <<2, 2>>}
AllOperations == DOMAIN Registry

CountOf(counts) == CHOOSE n \in counts : \A m \in counts : n <= m

\* The inputs have the ranks and the shapes that the builder asks for.
InputDims(b, i) ==
  CASE \E req \in b.ranked : req[1] = i -> <<2, 2, 2, 2>>
    [] b.check = "gammaBeta" /\ i > 1 -> <<2>>
    [] OTHER -> <<2, 2>>
Input(b, i) ==
  [type |-> "OH_NN_TENSOR", dtype |-> "OH_NN_INT32", dims |-> InputDims(b, i), quant |-> FALSE,
   data |-> IF b.check = "castType" /\ i = 2 THEN <<3>> ELSE <<>>, isOpParameter |-> FALSE]
Output(quant) ==
  [type |-> "OH_NN_TENSOR", dtype |-> "OH_NN_INT32", dims |-> <<2, 2>>, quant |-> quant,
   data |-> <<>>, isOpParameter |-> FALSE]

\* The tensors that a setter of parameter type p has a reading for.
Given(b, p) ==
  {t \in {[type |-> p, dtype |-> r.dtype, dims |-> d, quant |-> FALSE, data |-> v,
           isOpParameter |-> FALSE] :
            r \in b.params[p].readings, d \in Dims, v \in {<<>>, <<0>>, <<1>>}} :
     \E r \in b.params[p].readings : Fits(r, t)}

\* No parameter, one, or two; a third only where the builder cannot do without the first two.
ParameterTensors(b) ==
  LET types == DOMAIN b.params
      given == [p \in types |-> Given(b, p)]
      filled == [p \in types |-> {t \in given[p] : t.data # <<>>}]
      some(n) == {ps \in [1..n -> types] : \A i, j \in 1..n : i # j => ps[i] # ps[j]}
  IN {<<>>} \union {<<t>> : t \in UNION {given[p] : p \in types}}
       \union UNION {filled[ps[1]] \X filled[ps[2]] : ps \in some(2)}
       \union IF Cardinality(b.needs) < 2 THEN {}
              ELSE UNION {filled[ps[1]] \X filled[ps[2]] \X filled[ps[3]] : ps \in some(3)}

Prepared ==
  \E type \in Chosen, quant \in BOOLEAN :
    LET b == Registry[type]
        inputs == CountOf(b.inputs)
        outputs == CountOf(b.outputs)
    IN \E given \in ParameterTensors(b) :
         /\ tensors = [i \in 1..inputs |-> Input(b, i)]
                         \o [i \in 1..outputs |-> Output(quant)] \o given
         /\ ops = <<>>
         /\ inputIndices = <<>> /\ outputIndices = <<>>
         /\ inputTensors = <<>> /\ outputTensors = <<>>
         /\ liteGraph = NoGraph /\ metaGraph = FALSE /\ supported = 0
         /\ alive = TRUE /\ fault = "none"
         /\ ret = "OH_NN_SUCCESS" /\ chosen = type

Count(n, after) == [i \in 1..n |-> after + i]
AddPrepared ==
  /\ ops = <<>> /\ ret = "OH_NN_SUCCESS"
  /\ LET b == Registry[chosen]
         inputs == CountOf(b.inputs)
         outputs == CountOf(b.outputs)
         others == Len(tensors) - inputs - outputs
     IN AddOperation(chosen, Count(others, inputs + outputs), Count(inputs, 0), Count(outputs, inputs))

NameEnds == /\ ops # <<>> /\ inputIndices = <<>>
            /\ SpecifyInputsAndOutputs(ops[1].ins, ops[1].outs)

FinishPrepared == inputIndices # <<>> /\ ~IsBuild /\ Finish

PreparedNext == (AddPrepared \/ NameEnds \/ FinishPrepared) /\ UNCHANGED chosen
PreparedSpec == Prepared /\ [][PreparedNext]_<<vars, chosen>>

\* neural_network_runtime.h:246: "If unnecessary parameters are added when adding an
\* operator, this method returns OH_NN_INVALID_PARAMETER."  The parameters of an average
\* pooling are unnecessary for a maximum pooling.
OfAveragePooling == {p \in DOMAIN AvgPoolBuilder.params : p \in
  {"OH_NN_AVG_POOL_KERNEL_SIZE", "OH_NN_AVG_POOL_STRIDE", "OH_NN_AVG_POOL_PAD_MODE",
   "OH_NN_AVG_POOL_PAD", "OH_NN_AVG_POOL_ACTIVATION_TYPE", "OH_NN_AVG_POOL_ROUND_MODE",
   "OH_NN_AVG_POOL_GLOBAL"}}
UnnecessaryParametersAreRefused ==
  \A k \in DOMAIN ops : ops[k].type = "OH_NN_OPS_MAX_POOL" =>
    \A i \in DOMAIN ops[k].params : tensors[ops[k].params[i]].type \notin OfAveragePooling
=============================================================================
