--------------------------- MODULE ArithmeticOps ----------------------------
(***************************************************************************)
(* The builders of the arithmetic, comparison and logical operations. Each *)
(* record gives the numbers of inputs and outputs, the largest number of   *)
(* parameters and, for each parameter type, the setter (OpsBuilder).       *)
(***************************************************************************)
EXTENDS OpsBuilder

AbsBuilder == [Operation(Exactly(1), Exactly(1), "Activation") EXCEPT !.variant = "ABS"]

AddBuilder ==
  [Operation(Exactly(2), Exactly(1), "AddFusion") EXCEPT
     !.setsQuantType = TRUE, !.paramMax = 1,
     !.params = [OH_NN_ADD_ACTIVATIONTYPE |-> Marked(AnyCount(FuseType("m_activationType")))]]

BiasAddBuilder == [Operation(Exactly(2), Exactly(1), "BiasAdd") EXCEPT !.setsQuantType = TRUE]
CeilBuilder == Operation(Exactly(1), Exactly(1), "Ceil")

ClipBuilder ==
  [Operation(Exactly(1), Exactly(1), "Clip") EXCEPT
     !.paramMax = 2, !.marksAll = TRUE,
     !.params = [OH_NN_CLIP_MAX |-> Float32("m_max"),
                 OH_NN_CLIP_MIN |-> Float32("m_min")]]

CosBuilder == Operation(Exactly(1), Exactly(1), "Cos")

DivBuilder ==
  [Operation(Exactly(2), Exactly(1), "DivFusion") EXCEPT
     !.setsQuantType = TRUE, !.paramMax = 1,
     !.params = [OH_NN_DIV_ACTIVATIONTYPE |-> Marked(FuseType("m_activationType"))]]

EltwiseBuilder ==
  [Operation(Exactly(2), Exactly(1), "Eltwise") EXCEPT
     !.setsQuantType = TRUE, !.paramMax = 1,
     !.params = [OH_NN_ELTWISE_MODE |-> Marked(Keyed(Int8("m_mode"), EltwiseModes))]]

EqualBuilder == Operation(Exactly(2), Exactly(1), "Equal")
ErfBuilder == Operation(Exactly(1), Exactly(1), "Erf")

ExpBuilder ==
  [Operation(Exactly(1), Exactly(1), "ExpFusion") EXCEPT
     !.paramMax = 3, !.marksAll = TRUE,
     !.params = [OH_NN_EXP_BASE |-> Float32("m_base"),
                 OH_NN_EXP_SCALE |-> Float32("m_scale"),
                 OH_NN_EXP_SHIFT |-> Float32("m_shift")]]

FloorBuilder == Operation(Exactly(1), Exactly(1), "Floor")
GreaterBuilder == Operation(Exactly(2), Exactly(1), "Greater")

GreaterEqualBuilder ==
  [Operation(Exactly(2), Exactly(1), "GreaterEqual") EXCEPT
     !.setsQuantType = TRUE]

LessBuilder == Operation(Exactly(2), Exactly(1), "Less")

LessEqualBuilder ==
  [Operation(Exactly(2), Exactly(1), "LessEqual") EXCEPT
     !.setsQuantType = TRUE]

LogBuilder == Operation(Exactly(1), Exactly(1), "Log")
LogicalAndBuilder == Operation(Exactly(2), Exactly(1), "LogicalAnd")
LogicalNotBuilder == Operation(Exactly(1), Exactly(1), "LogicalNot")
LogicalOrBuilder == Operation(Exactly(2), Exactly(1), "LogicalOr")
MaximumBuilder == Operation(Exactly(2), Exactly(1), "Maximum")
MinimumBuilder == Operation(Exactly(2), Exactly(1), "Minimum")
ModBuilder == Operation(Exactly(2), Exactly(1), "Mod")

MulBuilder ==
  [Operation(Exactly(2), Exactly(1), "MulFusion") EXCEPT
     !.setsQuantType = TRUE, !.paramMax = 1,
     !.params = [OH_NN_MUL_ACTIVATION_TYPE |-> Marked(FuseType("m_activationType"))]]

NegBuilder == Operation(Exactly(1), Exactly(1), "Neg")
NotEqualBuilder == Operation(Exactly(2), Exactly(1), "NotEqual")

PowBuilder ==
  [Operation(Exactly(2), Exactly(1), "PowFusion") EXCEPT
     !.setsQuantType = TRUE, !.paramMax = 2, !.marksAll = TRUE,
     !.params = [OH_NN_POW_SCALE |-> Float32("m_scale"),
                 OH_NN_POW_SHIFT |-> Float32("m_shift")]]

ReciprocalBuilder == Operation(Exactly(1), Exactly(1), "Reciprocal")
RoundBuilder == Operation(Exactly(1), Exactly(1), "Round")
RsqrtBuilder == [Operation(Exactly(1), Exactly(1), "Rsqrt") EXCEPT !.setsQuantType = TRUE]
SinBuilder == Operation(Exactly(1), Exactly(1), "Sin")
SqrtBuilder == [Operation(Exactly(1), Exactly(1), "Sqrt") EXCEPT !.setsQuantType = TRUE]
SquareBuilder == Operation(Exactly(1), Exactly(1), "Square")
SquaredDifferenceBuilder == Operation(Exactly(2), Exactly(1), "SquaredDifference")

SubBuilder ==
  [Operation(Exactly(2), Exactly(1), "SubFusion") EXCEPT
     !.setsQuantType = TRUE, !.paramMax = 1, !.marksAll = TRUE,
     !.params = [OH_NN_SUB_ACTIVATIONTYPE |-> FuseType("m_activationType")]]
=============================================================================
