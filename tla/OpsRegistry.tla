-------------------------------- MODULE OpsRegistry -------------------------
(***************************************************************************)
(* m_opsRegedit after the static registrars (REGISTER_OPS) of the builders *)
(* have run: the first registration of an operation type counts.           *)
(***************************************************************************)
EXTENDS ArithmeticOps, NeuralOps, TensorOps

Registry ==
  [OH_NN_OPS_ABS |-> AbsBuilder,
   OH_NN_OPS_ADD |-> AddBuilder,
   OH_NN_OPS_ALL |-> AllBuilder,
   OH_NN_OPS_ARG_MAX |-> ArgMaxBuilder,
   OH_NN_OPS_ASSERT |-> AssertBuilder,
   OH_NN_OPS_AVG_POOL |-> AvgPoolBuilder,
   OH_NN_OPS_BATCH_NORM |-> BatchNormBuilder,
   OH_NN_OPS_BATCH_TO_SPACE_ND |-> BatchToSpaceNDBuilder,
   OH_NN_OPS_BIAS_ADD |-> BiasAddBuilder,
   OH_NN_OPS_BROADCAST_TO |-> BroadcastToBuilder,
   OH_NN_OPS_CAST |-> CastBuilder,
   OH_NN_OPS_CEIL |-> CeilBuilder,
   OH_NN_OPS_CLIP |-> ClipBuilder,
   OH_NN_OPS_CONCAT |-> ConcatBuilder,
   OH_NN_OPS_CONSTANT_OF_SHAPE |-> ConstantOfShapeBuilder,
   OH_NN_OPS_CONV2D |-> Conv2DBuilder,
   OH_NN_OPS_CONV2D_TRANSPOSE |-> Conv2DTransposeBuilder,
   OH_NN_OPS_COS |-> CosBuilder,
   OH_NN_OPS_CROP |-> CropBuilder,
   OH_NN_OPS_DEPTHWISE_CONV2D_NATIVE |-> DepthwiseConv2DNativeBuilder,
   OH_NN_OPS_DEPTH_TO_SPACE |-> DepthToSpaceBuilder,
   OH_NN_OPS_DETECTION_POST_PROCESS |-> DetectionPostProcessBuilder,
   OH_NN_OPS_DIV |-> DivBuilder,
   OH_NN_OPS_ELTWISE |-> EltwiseBuilder,
   OH_NN_OPS_EQUAL |-> EqualBuilder,
   OH_NN_OPS_ERF |-> ErfBuilder,
   OH_NN_OPS_EXP |-> ExpBuilder,
   OH_NN_OPS_EXPAND_DIMS |-> ExpandDimsBuilder,
   OH_NN_OPS_FILL |-> FillBuilder,
   OH_NN_OPS_FLATTEN |-> FlattenBuilder,
   OH_NN_OPS_FLOOR |-> FloorBuilder,
   OH_NN_OPS_FULL_CONNECTION |-> FullConnectionBuilder,
   OH_NN_OPS_GATHER |-> GatherBuilder,
   OH_NN_OPS_GATHER_ND |-> GatherNDBuilder,
   OH_NN_OPS_GELU |-> GeluBuilder,
   OH_NN_OPS_GREATER |-> GreaterBuilder,
   OH_NN_OPS_GREATER_EQUAL |-> GreaterEqualBuilder,
   OH_NN_OPS_HARD_SIGMOID |-> HardSigmoidBuilder,
   OH_NN_OPS_HSWISH |-> HswishBuilder,
   OH_NN_OPS_INSTANCE_NORM |-> InstanceNormBuilder,
   OH_NN_OPS_L2_NORMALIZE |-> L2NormalizeBuilder,
   OH_NN_OPS_LAYER_NORM |-> LayerNormBuilder,
   OH_NN_OPS_LEAKY_RELU |-> LeakyReluBuilder,
   OH_NN_OPS_LESS |-> LessBuilder,
   OH_NN_OPS_LESS_EQUAL |-> LessEqualBuilder,
   OH_NN_OPS_LOG |-> LogBuilder,
   OH_NN_OPS_LOGICAL_AND |-> LogicalAndBuilder,
   OH_NN_OPS_LOGICAL_NOT |-> LogicalNotBuilder,
   OH_NN_OPS_LOGICAL_OR |-> LogicalOrBuilder,
   OH_NN_OPS_LOG_SOFTMAX |-> LogSoftmaxBuilder,
   OH_NN_OPS_LRN |-> LRNBuilder,
   OH_NN_OPS_LSTM |-> LSTMBuilder,
   OH_NN_OPS_MATMUL |-> MatmulBuilder,
   OH_NN_OPS_MAXIMUM |-> MaximumBuilder,
   OH_NN_OPS_MAX_POOL |-> MaxPoolBuilder,
   OH_NN_OPS_MINIMUM |-> MinimumBuilder,
   OH_NN_OPS_MOD |-> ModBuilder,
   OH_NN_OPS_MUL |-> MulBuilder,
   OH_NN_OPS_NEG |-> NegBuilder,
   OH_NN_OPS_NOT_EQUAL |-> NotEqualBuilder,
   OH_NN_OPS_ONE_HOT |-> OnehotBuilder,
   OH_NN_OPS_PAD |-> PadBuilder,
   OH_NN_OPS_POW |-> PowBuilder,
   OH_NN_OPS_PRELU |-> PReluBuilder,
   OH_NN_OPS_QUANT_DTYPE_CAST |-> QuantDTypeCastBuilder,
   OH_NN_OPS_RANGE |-> RangeBuilder,
   OH_NN_OPS_RANK |-> RankBuilder,
   OH_NN_OPS_RECIPROCAL |-> ReciprocalBuilder,
   OH_NN_OPS_REDUCE_ALL |-> ReduceAllBuilder,
   OH_NN_OPS_REDUCE_L2 |-> ReduceL2Builder,
   OH_NN_OPS_REDUCE_MAX |-> ReduceMaxBuilder,
   OH_NN_OPS_REDUCE_MEAN |-> ReduceMeanBuilder,
   OH_NN_OPS_REDUCE_MIN |-> ReduceMinBuilder,
   OH_NN_OPS_REDUCE_PROD |-> ReduceProdBuilder,
   OH_NN_OPS_REDUCE_SUM |-> ReduceSumBuilder,
   OH_NN_OPS_RELU |-> ReluBuilder,
   OH_NN_OPS_RELU6 |-> Relu6Builder,
   OH_NN_OPS_RESHAPE |-> ReshapeBuilder,
   OH_NN_OPS_RESIZE_BILINEAR |-> ResizeBilinearBuilder,
   OH_NN_OPS_ROUND |-> RoundBuilder,
   OH_NN_OPS_RSQRT |-> RsqrtBuilder,
   OH_NN_OPS_SCALE |-> ScaleBuilder,
   OH_NN_OPS_SCATTER_ND |-> ScatterNDBuilder,
   OH_NN_OPS_SELECT |-> SelectBuilder,
   OH_NN_OPS_SHAPE |-> ShapeBuilder,
   OH_NN_OPS_SIGMOID |-> SigmoidBuilder,
   OH_NN_OPS_SIN |-> SinBuilder,
   OH_NN_OPS_SLICE |-> SliceBuilder,
   OH_NN_OPS_SOFTMAX |-> SoftmaxBuilder,
   OH_NN_OPS_SPACE_TO_BATCH_ND |-> SpaceToBatchNDBuilder,
   OH_NN_OPS_SPACE_TO_DEPTH |-> SpaceToDepthBuilder,
   OH_NN_OPS_SPARSE_TO_DENSE |-> SparseToDenseBuilder,
   OH_NN_OPS_SPLIT |-> SplitBuilder,
   OH_NN_OPS_SQRT |-> SqrtBuilder,
   OH_NN_OPS_SQUARE |-> SquareBuilder,
   OH_NN_OPS_SQUARED_DIFFERENCE |-> SquaredDifferenceBuilder,
   OH_NN_OPS_SQUEEZE |-> SqueezeBuilder,
   OH_NN_OPS_STACK |-> StackBuilder,
   OH_NN_OPS_STRIDED_SLICE |-> StridedSliceBuilder,
   OH_NN_OPS_SUB |-> SubBuilder,
   OH_NN_OPS_SWISH |-> SwishBuilder,
   OH_NN_OPS_TANH |-> TanhBuilder,
   OH_NN_OPS_TILE |-> TileBuilder,
   OH_NN_OPS_TOP_K |-> TopKBuilder,
   OH_NN_OPS_TRANSPOSE |-> TransposeBuilder,
   OH_NN_OPS_UNSQUEEZE |-> UnsqueezeBuilder,
   OH_NN_OPS_UNSTACK |-> UnstackBuilder,
   OH_NN_OPS_WHERE |-> WhereBuilder]
=============================================================================
