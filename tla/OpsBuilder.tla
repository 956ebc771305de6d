----------------------------- MODULE OpsBuilder -----------------------------
(***************************************************************************)
(* What every operator builder has in common: the checks of the class      *)
(* OpsBuilder and the pattern of the Build and Set* methods that the       *)
(* builder classes under ops/ repeat.  A builder is described by a record  *)
(* (Operation below); ArithmeticOps, NeuralOps and TensorOps hold one      *)
(* record for each builder class, OpsRegistry the map from the operation   *)
(* types to them.                                                          *)
(*                                                                         *)
(* A tensor of the model is a record: its OH_NN_TensorType, its data type, *)
(* its dimensions, whether it has quantization parameters (quant), its     *)
(* buffer (data: <<>> for a null m_buffer, else its first element), and    *)
(* m_isOpParameter (isOpParameter).  Tensors are numbered from 1.          *)
(***************************************************************************)
EXTENDS Integers, Sequences, Functions

(* neural_network_runtime_type.h: OH_NN_FUSED_NONE .. OH_NN_FUSED_RELU6,   *)
(* the pad modes of ValidatePadMode, OH_NN_UNKNOWN .. OH_NN_FLOAT64.       *)
FuseTypes == 0..2
PadModes == 0..2
EltwiseModes == 0..3
DataTypes == 0..12

(* INPUT_OUTPUT_MAX_INDICES bounds the indices an operation can have.      *)
MaxIndices == 200
Exactly(n) == {n}
AtLeast(n) == n..MaxIndices

(* m_elementCount: 0 when a dimension is not known yet.                    *)
IsDynamicShape(t) == \E i \in DOMAIN t.dims : t.dims[i] = -1
ElementCount(t) ==
  IF IsDynamicShape(t) THEN 0 ELSE FoldFunction(LAMBDA d, n : d * n, 1, t.dims)

-----------------------------------------------------------------------------
(* The Set* methods.  A reading is one way for a setter to accept a tensor *)
(* and the member it assigns; marks says when the setter itself calls      *)
(* IdentifyOpParameter.                                                    *)
Setter(dtype, attribute) ==
  [readings |-> {[dtype |-> dtype, counts |-> Exactly(1), ranks |-> Nat,
                  values |-> Int, attribute |-> attribute]},
   marks |-> "never", checksNull |-> TRUE, readAsFloat |-> FALSE]

Int64(attribute) == Setter("OH_NN_INT64", attribute)
Int32(attribute) == Setter("OH_NN_INT32", attribute)
Int8(attribute) == Setter("OH_NN_INT8", attribute)
Float32(attribute) == Setter("OH_NN_FLOAT32", attribute)
Bool(attribute) == Setter("OH_NN_BOOL", attribute)

AnyCount(s) == [s EXCEPT !.readings = {[r EXCEPT !.counts = Nat] : r \in @}]
Shaped(s, rank, count) ==
  [s EXCEPT !.readings =
     {[r EXCEPT !.counts = Exactly(count), !.ranks = Exactly(rank)] : r \in @}]
Scalar(s) == Shaped(s, 0, 1)
Keyed(s, keys) == [s EXCEPT !.readings = {[r EXCEPT !.values = keys] : r \in @}]
FuseType(attribute) == Keyed(Int8(attribute), FuseTypes)

(* One element is a pad mode, four are a list of paddings.                 *)
PadModeOrList(attribute) ==
  [Int64(attribute) EXCEPT !.readings =
     {[r EXCEPT !.counts = Exactly(4)] : r \in @}
       \union Keyed(Int8("m_padMode"), PadModes).readings]

Marked(s) == [s EXCEPT !.marks = "first"]
MarkedIfTyped(s) == [s EXCEPT !.marks = "typed"]
Unguarded(s) == [s EXCEPT !.checksNull = FALSE]
ReadAsFloat(s) == [s EXCEPT !.readAsFloat = TRUE]

Fits(r, t) ==
  /\ t.dtype = r.dtype
  /\ ElementCount(t) \in r.counts
  /\ Len(t.dims) \in r.ranks

(* What the setter returns for tensor t; "null" is a dereference of the    *)
(* null buffer.                                                            *)
SetterResult(s, t) ==
  LET fitting == {r \in s.readings : Fits(r, t)}
  IN CASE fitting = {} -> "OH_NN_INVALID_PARAMETER"
       [] t.data = <<>> /\ s.checksNull -> "OH_NN_INVALID_PARAMETER"
       [] t.data = <<>> /\ ~s.checksNull ->
            IF ElementCount(t) = 0 THEN "OH_NN_SUCCESS" ELSE "null"
       [] OTHER -> IF \E r \in fitting : t.data[1] \in r.values
                   THEN "OH_NN_SUCCESS" ELSE "OH_NN_INVALID_PARAMETER"

AssignedCount(s, t) ==
  [a \in {r.attribute : r \in {x \in s.readings : Fits(x, t) /\ t.data # <<>>}} |->
     ElementCount(t)]

(* The members it assigns, with the value each gets: an int64 read through *)
(* a float pointer and converted back is 0 for the values of this model.   *)
Assigned(s, t) ==
  [a \in {r.attribute : r \in {x \in s.readings : Fits(x, t) /\ t.data # <<>>}} |->
     IF s.readAsFloat THEN 0 ELSE t.data[1]]

Identifies(s, t) ==
  \/ s.marks = "first"
  \/ s.marks = "typed" /\ \E r \in s.readings : r.dtype = t.dtype

-----------------------------------------------------------------------------
(* A builder class.  "ranked" holds the pairs <<input, rank>> that Build   *)
(* checks before the parameters, "appends" the list members whose setter   *)
(* appends to what is there; "primitive" is the class of the primitive     *)
(* that GetPrimitive creates, "variant" a fixed argument of it, "drops"    *)
(* the members it leaves out, "needs" the members without which it cannot  *)
(* make one, and "without" what it does then.                              *)
NoSetters == <<>>
Operation(inputs, outputs, primitive) ==
  [inputs |-> inputs, outputs |-> outputs, ranked |-> {}, paramMax |-> 0,
   params |-> NoSetters, marksAll |-> FALSE, axisNeedsUse |-> FALSE,
   check |-> "none", setsQuantType |-> FALSE, appends |-> {},
   primitive |-> primitive, variant |-> "none", drops |-> {},
   needs |-> {}, without |-> "nothing"]

CheckIOIndex(b, inputsIndex, outputsIndex, allTensors) ==
  /\ Len(inputsIndex) \in b.inputs
  /\ Len(outputsIndex) \in b.outputs
  /\ Range(inputsIndex) \subseteq DOMAIN allTensors
  /\ Range(outputsIndex) \subseteq DOMAIN allTensors

CheckParamIndex(b, paramsIndex, allTensors) ==
  /\ Len(paramsIndex) <= b.paramMax
  /\ Range(paramsIndex) \subseteq DOMAIN allTensors

AxisAfterUseOnly(b, types, values, k) ==
  /\ b.axisNeedsUse
  /\ types[k] = "OH_NN_FULL_CONNECTION_AXIS"
  /\ \E i \in 1..(k - 1) : types[i] = "OH_NN_FULL_CONNECTION_USE_AXIS" /\ values[i] = <<0>>

(* SetAxis and SetUseAxis of the full connection: an axis together with    *)
(* useAxis = false is refused in either order.                             *)
AxisConflict(b, types, values, k) ==
  LET isAxis(i) == types[i] = "OH_NN_FULL_CONNECTION_AXIS"
      isUse(i) == types[i] = "OH_NN_FULL_CONNECTION_USE_AXIS"
      before == {i \in 1..(k - 1) : isAxis(i) \/ isUse(i)}
      last == CHOOSE i \in before : \A j \in before : j <= i
  IN /\ b.axisNeedsUse
     /\ before # {}
     /\ \/ isAxis(k) /\ isUse(last) /\ values[last] = <<0>>
        \/ isUse(k) /\ values[k] = <<0>> /\ \E i \in before : isAxis(i)

(* What the loop over the parameters does with the k-th of them.           *)
ParamResult(b, paramsIndex, allTensors, k) ==
  LET t == allTensors[paramsIndex[k]]
      types == [i \in DOMAIN paramsIndex |-> allTensors[paramsIndex[i]].type]
      values == [i \in DOMAIN paramsIndex |-> allTensors[paramsIndex[i]].data]
  IN IF t.type \notin DOMAIN b.params THEN "OH_NN_INVALID_PARAMETER"
     ELSE LET result == SetterResult(b.params[t.type], t)
          IN IF result = "OH_NN_SUCCESS" /\ AxisConflict(b, types, values, k)
             THEN "OH_NN_INVALID_PARAMETER" ELSE result

(* The last parameter the loop looks at: the first that is not accepted.   *)
LastLookedAt(b, paramsIndex, allTensors) ==
  LET refused == {k \in DOMAIN paramsIndex :
                    ParamResult(b, paramsIndex, allTensors, k) # "OH_NN_SUCCESS"}
  IN IF refused = {} THEN Len(paramsIndex)
     ELSE CHOOSE k \in refused : \A j \in refused : k <= j

(* The checks before and after that loop that are not about parameters.    *)
RanksFit(b, inputsIndex, allTensors) ==
  \A req \in b.ranked : Len(allTensors[inputsIndex[req[1]]].dims) = req[2]

(* CastBuilder: the second input holds a data type.  LayerNormBuilder:     *)
(* gamma and beta have the trailing dimensions of the first input.         *)
CheckPasses(b, inputsIndex, attributes, allTensors) ==
  LET input(i) == allTensors[inputsIndex[i]]
      axis == IF "m_beginNormAxis" \in DOMAIN attributes
              THEN attributes["m_beginNormAxis"] ELSE 1
      rank == Len(input(1).dims)
      trailing == SubSeq(input(1).dims, axis + 1, rank)
  IN CASE b.check = "none" -> TRUE
       [] b.check = "castType" -> /\ input(2).data # <<>>
                                  /\ input(2).data[1] \in DataTypes
       [] b.check = "gammaBeta" -> /\ axis \in 1..(rank - 1)
                                   /\ input(2).dims = trailing
                                   /\ input(3).dims = trailing

(* SetAxis of the full connection also makes m_useAxis true, and after it   *)
(* no parameter can make it false (AxisConflict).                          *)
SetAlong(b, types) ==
  IF b.axisNeedsUse /\ "OH_NN_FULL_CONNECTION_AXIS" \in types THEN {"m_useAxis"} ELSE {}

(* The members the parameters assign.  A parameter given twice counts      *)
(* last; of a list that it is appended to, the first element stays.        *)
Attributes(b, paramsIndex, allTensors) ==
  LET n == Len(paramsIndex)
      tensor(k) == allTensors[paramsIndex[k]]
      given == [k \in 1..n |-> Assigned(b.params[tensor(k).type], tensor(k))]
      counts(a) == CHOOSE k \in 1..n :
                     /\ a \in DOMAIN given[k]
                     /\ \A j \in 1..n : a \in DOMAIN given[j] => IF a \in b.appends THEN k <= j ELSE j <= k
      along == SetAlong(b, {tensor(k).type : k \in 1..n})
  IN [a \in along \union UNION {DOMAIN given[k] : k \in 1..n} |->
        IF a \in along THEN 1 ELSE given[counts(a)][a]]

Refused(marked) ==
  [ret |-> "OH_NN_INVALID_PARAMETER", marked |-> marked, attributes |-> <<>>,
   quantAll |-> FALSE]

(* Build of a fresh builder: its return code, the tensors on which it has  *)
(* called IdentifyOpParameter (they stay marked when Build fails), the     *)
(* members it has set and m_quantType.                                     *)
Build(b, paramsIndex, inputsIndex, outputsIndex, allTensors) ==
  LET n == LastLookedAt(b, paramsIndex, allTensors)
      tensor(k) == allTensors[paramsIndex[k]]
      marked == {paramsIndex[k] : k \in {i \in 1..n :
                   \/ b.marksAll
                   \/ /\ tensor(i).type \in DOMAIN b.params
                      /\ Identifies(b.params[tensor(i).type], tensor(i))}}
      result == IF n = 0 THEN "OH_NN_SUCCESS"
                ELSE ParamResult(b, paramsIndex, allTensors, n)
      attributes == Attributes(b, paramsIndex, allTensors)
  IN CASE \/ ~CheckIOIndex(b, inputsIndex, outputsIndex, allTensors)
          \/ ~CheckParamIndex(b, paramsIndex, allTensors) -> Refused({})
       [] ~RanksFit(b, inputsIndex, allTensors) -> Refused({})
       [] result # "OH_NN_SUCCESS" -> [Refused(marked) EXCEPT !.ret = result]
       [] ~CheckPasses(b, inputsIndex, attributes, allTensors) -> Refused(marked)
       [] OTHER -> [ret |-> "OH_NN_SUCCESS", marked |-> marked, attributes |-> attributes,
                    quantAll |-> b.setsQuantType /\ allTensors[outputsIndex[1]].quant]

(* GetPrimitive of a builder whose Build has set these members: "made",    *)
(* "nullptr" (no primitive) or "null" (a null member is dereferenced).     *)
GetPrimitive(b, attributes) ==
  IF b.needs \subseteq DOMAIN attributes THEN "made" ELSE b.without

(* The arguments a parameter gave to the primitive.                        *)
PrimitiveArguments(b, attributes) == Restrict(attributes, DOMAIN attributes \ b.drops)
=============================================================================
