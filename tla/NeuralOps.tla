----------------------------- MODULE NeuralOps ------------------------------
(***************************************************************************)
(* The builders of the layers: convolutions, pooling, normalization and    *)
(* activations. Each record gives the numbers of inputs and outputs, the   *)
(* largest number of parameters and, for each parameter type, the setter   *)
(* (OpsBuilder).                                                           *)
(***************************************************************************)
EXTENDS OpsBuilder, TLC

PoolingSetters ==
  [OH_NN_MAX_POOL_KERNEL_SIZE |-> Marked(AnyCount(Int64("m_kernelSize"))),
   OH_NN_MAX_POOL_STRIDE |-> Marked(AnyCount(Int64("m_strides"))),
   OH_NN_MAX_POOL_PAD_MODE |-> Marked(PadModeOrList("m_pad")),
   OH_NN_MAX_POOL_PAD |-> Marked(PadModeOrList("m_pad")),
   OH_NN_AVG_POOL_KERNEL_SIZE |-> Marked(AnyCount(Int64("m_kernelSize"))),
   OH_NN_AVG_POOL_STRIDE |-> Marked(AnyCount(Int64("m_strides"))),
   OH_NN_AVG_POOL_PAD_MODE |-> Marked(PadModeOrList("m_pad")),
   OH_NN_AVG_POOL_PAD |-> Marked(PadModeOrList("m_pad"))]

PoolingMoreSetters ==
  [OH_NN_MAX_POOL_ACTIVATION_TYPE |-> Marked(FuseType("m_activationType")),
   OH_NN_MAX_POOL_ROUND_MODE |-> Marked(Keyed(Int32("m_roundMode"), {0, 1})),
   OH_NN_MAX_POOL_GLOBAL |-> Bool("m_global"),
   OH_NN_AVG_POOL_ACTIVATION_TYPE |-> Marked(FuseType("m_activationType")),
   OH_NN_AVG_POOL_ROUND_MODE |-> Marked(Keyed(Int32("m_roundMode"), {0, 1})),
   OH_NN_AVG_POOL_GLOBAL |-> Bool("m_global")]

PoolingBuilder(primitive) ==
  [Operation(Exactly(1), Exactly(1), primitive) EXCEPT
     !.paramMax = 7, !.setsQuantType = TRUE, !.params = PoolingSetters @@ PoolingMoreSetters]

AvgPoolBuilder == PoolingBuilder("AvgPoolFusion")

BatchNormBuilder ==
  [Operation(Exactly(5), Exactly(1), "FusedBatchNorm") EXCEPT
     !.setsQuantType = TRUE, !.paramMax = 1,
     !.params = [OH_NN_BATCH_NORM_EPSILON |-> Marked(Float32("m_epsilon"))]]

Conv2DSetters ==
  [OH_NN_CONV2D_STRIDES |-> Marked(AnyCount(Int64("m_strides"))),
   OH_NN_CONV2D_DILATION |-> Marked(AnyCount(Int64("m_dilation"))),
   OH_NN_CONV2D_PAD |-> Marked(PadModeOrList("m_pad")),
   OH_NN_CONV2D_PAD_MODE |-> Marked(PadModeOrList("m_pad")),
   OH_NN_CONV2D_GROUP |-> Marked(Int64("m_group")),
   OH_NN_CONV2D_ACTIVATION_TYPE |-> Marked(FuseType("m_activationType"))]

Conv2DBuilder ==
  [Operation(Exactly(3), Exactly(1), "Conv2DFusion") EXCEPT
     !.setsQuantType = TRUE, !.paramMax = 6, !.ranked = {<<2, 4>>}, !.params = Conv2DSetters]

Conv2DTransposeSetters ==
  [OH_NN_CONV2D_TRANSPOSE_STRIDES |-> Marked(AnyCount(Int64("m_strides"))),
   OH_NN_CONV2D_TRANSPOSE_DILATION |-> Marked(AnyCount(Int64("m_dilation"))),
   OH_NN_CONV2D_TRANSPOSE_PAD |-> Marked(PadModeOrList("m_padList")),
   OH_NN_CONV2D_TRANSPOSE_PAD_MODE |-> Marked(PadModeOrList("m_padList")),
   OH_NN_CONV2D_TRANSPOSE_GROUP |-> Marked(Int64("m_group")),
   OH_NN_CONV2D_TRANSPOSE_OUTPUT_PADDINGS |-> Marked(AnyCount(Int64("m_outputPaddings")))]

Conv2DTransposeMoreSetters ==
  [OH_NN_CONV2D_TRANSPOSE_ACTIVATION_TYPE |-> Marked(FuseType("m_activationType"))]

Conv2DTransposeBuilder ==
  [Operation(Exactly(3), Exactly(1), "Conv2dTransposeFusion") EXCEPT
     !.setsQuantType = TRUE, !.paramMax = 7, !.ranked = {<<2, 4>>},
     !.params = Conv2DTransposeSetters @@ Conv2DTransposeMoreSetters]

DepthwiseConv2DNativeSetters ==
  [OH_NN_DEPTHWISE_CONV2D_NATIVE_ACTIVATION_TYPE |-> Marked(FuseType("m_activationType")),
   OH_NN_DEPTHWISE_CONV2D_NATIVE_STRIDES |-> Marked(AnyCount(Int64("m_strides"))),
   OH_NN_DEPTHWISE_CONV2D_NATIVE_DILATION |-> Marked(AnyCount(Int64("m_dilation"))),
   OH_NN_DEPTHWISE_CONV2D_NATIVE_PAD |-> Marked(PadModeOrList("m_pad")),
   OH_NN_DEPTHWISE_CONV2D_NATIVE_PAD_MODE |-> Marked(PadModeOrList("m_pad"))]

DepthwiseConv2DNativeBuilder ==
  [Operation(Exactly(3), Exactly(1), "Conv2DFusion") EXCEPT
     !.setsQuantType = TRUE, !.paramMax = 5, !.ranked = {<<1, 4>>, <<2, 4>>},
     !.params = DepthwiseConv2DNativeSetters]

DetectionPostProcessSetters ==
  [OH_NN_DETECTION_POST_PROCESS_INPUT_SIZE |-> Int64("m_inputSize"),
   OH_NN_DETECTION_POST_PROCESS_SCALE |-> AnyCount(Float32("m_scale")),
   OH_NN_DETECTION_POST_PROCESS_NMS_IOU_THRESHOLD |-> Float32("m_nmsIoUThreshold"),
   OH_NN_DETECTION_POST_PROCESS_NMS_SCORE_THRESHOLD |-> Float32("m_nmsScoreThreshold"),
   OH_NN_DETECTION_POST_PROCESS_MAX_DETECTIONS |-> Int64("m_maxDetections"),
   OH_NN_DETECTION_POST_PROCESS_DETECTIONS_PER_CLASS |-> Int64("m_detectionsPerClass")]

DetectionPostProcessMoreSetters ==
  [OH_NN_DETECTION_POST_PROCESS_MAX_CLASSES_PER_DETECTION |-> Int64("m_maxClassesPerDetection"),
   OH_NN_DETECTION_POST_PROCESS_NUM_CLASSES |-> Int64("m_numClasses"),
   OH_NN_DETECTION_POST_PROCESS_USE_REGULAR_NMS |-> Bool("m_useRegularNms"),
   OH_NN_DETECTION_POST_PROCESS_OUT_QUANTIZED |-> Bool("m_outQuantized")]

DetectionPostProcessBuilder ==
  [Operation(Exactly(3), Exactly(4), "DetectionPostProcess") EXCEPT
     !.paramMax = 10, !.marksAll = TRUE,
     !.params = DetectionPostProcessSetters @@ DetectionPostProcessMoreSetters]

(* The number of inputs is not checked; SetAxis and SetUseAxis look at each other,
   and SetAxis sets m_useAxis too (AxisConflict, SetAlong). *)
FullConnectionSetters ==
  [OH_NN_FULL_CONNECTION_HAS_BIAS |-> Bool("m_hasBias"),
   OH_NN_FULL_CONNECTION_USE_AXIS |-> Bool("m_useAxis"),
   OH_NN_FULL_CONNECTION_ACTIVATIONTYPE |-> Marked(FuseType("m_activationType")),
   OH_NN_FULL_CONNECTION_AXIS |-> Marked(Int64("m_axis"))]

FullConnectionBuilder ==
  [Operation(AtLeast(1), Exactly(1), "FullConnection") EXCEPT
     !.setsQuantType = TRUE, !.paramMax = 4, !.axisNeedsUse = TRUE,
     !.params = FullConnectionSetters]

GeluBuilder ==
  [Operation(Exactly(1), Exactly(1), "Activation") EXCEPT
     !.variant = "GELU", !.paramMax = 1, !.marksAll = TRUE,
     !.params = [OH_NN_GELU_APPROXIMATE |-> Bool("m_approximate")]]

HardSigmoidBuilder ==
  [Operation(Exactly(1), Exactly(1), "Activation") EXCEPT
     !.variant = "HSIGMOID", !.setsQuantType = TRUE]

HswishBuilder ==
  [Operation(Exactly(1), Exactly(1), "Activation") EXCEPT
     !.variant = "HSWISH", !.setsQuantType = TRUE]

InstanceNormBuilder ==
  [Operation(Exactly(3), Exactly(1), "InstanceNorm") EXCEPT
     !.paramMax = 1, !.marksAll = TRUE,
     !.params = [OH_NN_INSTANCE_NORM_EPSILON |-> Float32("m_epsilon")]]

L2NormalizeBuilder ==
  [Operation(Exactly(1), Exactly(1), "L2NormalizeFusion") EXCEPT
     !.paramMax = 3, !.marksAll = TRUE,
     !.params = [OH_NN_L2_NORMALIZE_ACTIVATION_TYPE |-> FuseType("m_activationType"),
                 OH_NN_L2_NORMALIZE_EPSILON |-> Float32("m_epsilon"),
                 OH_NN_L2_NORMALIZE_AXIS |-> AnyCount(Int64("m_axis"))]]

LayerNormSetters ==
  [OH_NN_LAYER_NORM_BEGIN_NORM_AXIS |-> Marked(Scalar(Int64("m_beginNormAxis"))),
   OH_NN_LAYER_NORM_EPSILON |-> Marked(Scalar(Float32("m_epsilon"))),
   OH_NN_LAYER_NORM_BEGIN_PARAM_AXIS |-> Marked(Scalar(Int64("m_beginParamsAxis")))]

LayerNormBuilder ==
  [Operation(Exactly(3), Exactly(1), "LayerNormFusion") EXCEPT
     !.setsQuantType = TRUE, !.paramMax = 3, !.check = "gammaBeta",
     !.params = LayerNormSetters]

LeakyReluBuilder ==
  [Operation(Exactly(1), Exactly(1), "Activation") EXCEPT
     !.variant = "LEAKY_RELU", !.paramMax = 1, !.marksAll = TRUE,
     !.params = [OH_NN_LEAKY_RELU_NEGATIVE_SLOPE |-> Float32("m_negativeSlope")]]

LogSoftmaxBuilder ==
  [Operation(Exactly(1), Exactly(1), "LogSoftmax") EXCEPT
     !.paramMax = 1, !.marksAll = TRUE,
     !.params = [OH_NN_LOG_SOFTMAX_AXIS |-> Int64("m_axis")]]

LRNSetters ==
  [OH_NN_LRN_DEPTH_RADIUS |-> Int64("m_depthRadius"),
   OH_NN_LRN_BIAS |-> Float32("m_bias"),
   OH_NN_LRN_ALPHA |-> Float32("m_alpha"),
   OH_NN_LRN_BETA |-> Float32("m_beta"),
   OH_NN_LRN_NORM_REGION |-> Keyed(Int32("m_normRegion"), {0})]

LRNBuilder ==
  [Operation(Exactly(1), Exactly(1), "LRN") EXCEPT
     !.paramMax = 5, !.marksAll = TRUE, !.params = LRNSetters]

(* m_projSize is an INT64 tensor read as a float. *)
LSTMSetters ==
  [OH_NN_LSTM_BIDIRECTIONAL |-> Bool("m_bidirectional"),
   OH_NN_LSTM_HAS_BIAS |-> Bool("m_hasBias"),
   OH_NN_LSTM_INPUT_SIZE |-> Int64("m_inputSize"),
   OH_NN_LSTM_HIDDEN_SIZE |-> Int64("m_hiddenSize"),
   OH_NN_LSTM_NUM_LAYERS |-> Int64("m_numLayers"),
   OH_NN_LSTM_NUM_DIRECTIONS |-> Int64("m_numDirections")]

LSTMMoreSetters ==
  [OH_NN_LSTM_DROPOUT |-> Float32("m_dropout"),
   OH_NN_LSTM_ZONEOUT_CELL |-> Float32("m_zoneoutCell"),
   OH_NN_LSTM_ZONEOUT_HIDDEN |-> Float32("m_zoneoutHidden"),
   OH_NN_LSTM_PROJ_SIZE |-> ReadAsFloat(Int64("m_projSize"))]

LSTMBuilder ==
  [Operation(Exactly(6), Exactly(3), "LSTM") EXCEPT
     !.paramMax = 10, !.marksAll = TRUE, !.params = LSTMSetters @@ LSTMMoreSetters]

MatmulBuilder ==
  [Operation(Exactly(2), Exactly(1), "MatMulFusion") EXCEPT
     !.setsQuantType = TRUE, !.paramMax = 3,
     !.params = [OH_NN_MATMUL_TRANSPOSE_A |-> Marked(Bool("m_transposeA")),
                 OH_NN_MATMUL_TRANSPOSE_B |-> Marked(Bool("m_transposeB")),
                 OH_NN_MATMUL_ACTIVATION_TYPE |-> Marked(FuseType("m_activationType"))]]

(* MindIR_MaxPoolFusion_CreatePrimitive gets no round mode. *)
MaxPoolBuilder == [PoolingBuilder("MaxPoolFusion") EXCEPT !.drops = {"m_roundMode"}]

(* The paddings come with the second input: the attribute is empty. *)
PadBuilder ==
  [Operation(Exactly(2), Exactly(1), "PadFusion") EXCEPT
     !.setsQuantType = TRUE, !.paramMax = 2,
     !.params = [OH_NN_PAD_CONSTANT_VALUE |-> Marked(Float32("m_constantValue")),
                 OH_NN_PAD_PADDING_MODE |-> Marked(Keyed(Int32("m_paddingMode"), 0..3))]]

PReluBuilder == Operation(Exactly(2), Exactly(1), "PReLUFusion")

(* SetSrcT and SetDstT keep a pointer into the buffer of the tensor; GetPrimitive reads it. *)
QuantDTypeCastBuilder ==
  [Operation(Exactly(1), Exactly(1), "QuantDTypeCast") EXCEPT
     !.paramMax = 3, !.needs = {"m_src_t", "m_dst_t"}, !.without = "nullptr",
     !.params = [OH_NN_QUANT_DTYPE_CAST_SRC_T |-> Marked(AnyCount(Int64("m_src_t"))),
                 OH_NN_QUANT_DTYPE_CAST_DST_T |-> Marked(AnyCount(Int64("m_dst_t"))),
                 OH_NN_QUANT_DTYPE_CAST_AXIS |-> Marked(AnyCount(Int64("m_axis")))]]

Relu6Builder ==
  [Operation(Exactly(1), Exactly(1), "Activation") EXCEPT
     !.variant = "RELU6", !.setsQuantType = TRUE]

ReluBuilder ==
  [Operation(Exactly(1), Exactly(1), "Activation") EXCEPT
     !.variant = "RELU", !.setsQuantType = TRUE]

ResizeBilinearSetters ==
  [OH_NN_RESIZE_BILINEAR_NEW_HEIGHT |-> Marked(Int64("m_newHeight")),
   OH_NN_RESIZE_BILINEAR_NEW_WIDTH |-> Marked(Int64("m_newWidth")),
   OH_NN_RESIZE_BILINEAR_PRESERVE_ASPECT_RATIO |-> Marked(Bool("m_preserveAspectRatio")),
   OH_NN_RESIZE_BILINEAR_COORDINATE_TRANSFORM_MODE |-> Marked(Int8("m_coordinateTransformMode")),
   OH_NN_RESIZE_BILINEAR_EXCLUDE_OUTSIDE |-> Marked(Int64("m_excludeOutside"))]

ResizeBilinearBuilder ==
  [Operation(Exactly(1), Exactly(1), "Resize") EXCEPT
     !.setsQuantType = TRUE, !.paramMax = 5, !.params = ResizeBilinearSetters]

(* SetAxis keeps a pointer into the buffer of the tensor; GetPrimitive dereferences it. *)
ScaleBuilder ==
  [Operation(Exactly(3), Exactly(1), "ScaleFusion") EXCEPT
     !.setsQuantType = TRUE, !.paramMax = 2, !.needs = {"m_axis"}, !.without = "null",
     !.params = [OH_NN_SCALE_ACTIVATIONTYPE |-> Marked(FuseType("m_activationType")),
                 OH_NN_SCALE_AXIS |-> Marked(Int64("m_axis"))]]

SigmoidBuilder ==
  [Operation(Exactly(1), Exactly(1), "Activation") EXCEPT
     !.variant = "SIGMOID", !.setsQuantType = TRUE]

SoftmaxBuilder ==
  [Operation(Exactly(1), Exactly(1), "Softmax") EXCEPT
     !.setsQuantType = TRUE, !.paramMax = 1, !.marksAll = TRUE,
     !.params = [OH_NN_SOFTMAX_AXIS |-> Int64("m_axis")]]

SwishBuilder == [Operation(Exactly(1), Exactly(1), "Activation") EXCEPT !.variant = "SWISH"]

TanhBuilder ==
  [Operation(Exactly(1), Exactly(1), "Activation") EXCEPT
     !.variant = "TANH", !.setsQuantType = TRUE]
=============================================================================
