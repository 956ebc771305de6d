--------------------------- MODULE NodeConversion ---------------------------
(***************************************************************************)
(* The nodes of a LiteGraph in the three versions of the device interface: *)
(* lite_graph_to_hdi_model_v1_0.cpp, _v2_0.cpp and _v2_1.cpp.  A class of  *)
(* primitives stands for its node type.  Each Convert function is the map  *)
(* from the fields of the structure it marshals to the accessors they are  *)
(* read with: MindIR_<class>_Get<argument>.                                *)
(***************************************************************************)
EXTENDS OpsBuilder, TLC

(* Mutant: a converter that leaves out the activation.                     *)
OwnButActivation(class, arguments) ==
  [a \in arguments \ {"activationType"} |-> <<class, a>>]

Own(class, arguments) == [a \in arguments |-> <<class, a>>]
Bare(classes) == [c \in classes |-> <<>>]

-----------------------------------------------------------------------------
(* Version 1.0.                                                            *)
V1_0_Activation_Concat ==
  [Activation |->
     Own("Activation", {"activationType", "alpha", "minVal", "maxVal", "approximate"}),
   AddFusion |-> [activationType |-> <<"Activation", "activationType">>],
   ArgMaxFusion |-> Own("ArgMaxFusion", {"axis", "topK", "keepDims", "outMaxValue"}),
   AvgPoolFusion |->
     Own("AvgPoolFusion", {"kernelSize", "strides", "pad", "padMode", "roundMode",
          "format", "global", "activationType"}),
   BatchToSpaceND |-> Own("BatchToSpaceND", {"blockShape", "crops"}),
   Concat |-> Own("Concat", {"axis"})] @@
  Bare({"BiasAdd", "Cast"})

V1_0_Conv2DFusion_FullConnection ==
  [Conv2DFusion |->
     Own("Conv2DFusion", {"kernelSize", "stride", "dilation", "padMode", "padList",
          "group", "inChannel", "outChannel", "activationType"}),
   Conv2dTransposeFusion |->
     Own("Conv2dTransposeFusion", {"kernelSize", "stride", "dilation", "padMode",
          "padList", "group", "inChannel", "outChannel",
          "activationType", "outputPaddings"}),
   DivFusion |-> Own("DivFusion", {"activationType"}),
   Eltwise |-> Own("Eltwise", {"mode"}),
   FullConnection |-> Own("FullConnection", {"hasBias", "useAxis", "axis", "activationType"})] @@
  Bare({"ExpandDims", "Fill"})

V1_0_FusedBatchNorm_MulFusion ==
  [FusedBatchNorm |-> Own("FusedBatchNorm", {"epsilon"}),
   LayerNormFusion |->
     Own("LayerNormFusion", {"beginNormAxis", "epsilon", "elementwiseAffine",
          "beginParamsAxis"}),
   MatMulFusion |-> Own("MatMulFusion", {"transposeA", "transposeB", "activationType"}),
   MaxPoolFusion |->
     Own("MaxPoolFusion", {"kernelSize", "strides", "pad", "padMode", "format", "global",
          "activationType"}),
   MulFusion |-> Own("MulFusion", {"activationType"})] @@
  Bare({"Gather", "LessEqual", "Maximum"})

V1_0_OneHot_Resize ==
  [OneHot |-> Own("OneHot", {"axis"}),
   PadFusion |-> Own("PadFusion", {"paddings", "paddingMode", "constantValue"}),
   PowFusion |-> Own("PowFusion", {"scale", "shift"}),
   PReLUFusion |-> Own("PReLUFusion", {"channelShared"}),
   QuantDTypeCast |-> Own("QuantDTypeCast", {"srcT", "dstT"}),
   ReduceFusion |-> Own("ReduceFusion", {"keepDims", "mode", "reduceToEnd", "coeff"}),
   Resize |-> Own("Resize", {"method", "newHeight", "newWidth", "preserveAspectRatio",
          "coordinateTransformMode", "cubicCoeff", "excludeOutside",
          "extrapolationValue", "nearestMode"})] @@
  Bare({"Reshape"})

V1_0_Rsqrt_SquaredDifference ==
  [ScaleFusion |-> Own("ScaleFusion", {"axis", "activationType"}),
   SliceFusion |-> Own("SliceFusion", {"axes"}),
   Softmax |-> Own("Softmax", {"axis"}),
   SpaceToBatchND |-> Own("SpaceToBatchND", {"blockShape", "paddings"}),
   Split |-> Own("Split", {"outputNum", "sizeSplits", "axis"})] @@
  Bare({"Rsqrt", "Shape", "Sqrt", "SquaredDifference"})

V1_0_Squeeze_Unsqueeze ==
  [Squeeze |-> Own("Squeeze", {"axis"}),
   Stack |-> Own("Stack", {"axis"}),
   StridedSlice |->
     Own("StridedSlice", {"beginMask", "endMask", "ellipsisMask", "newAxisMask",
          "shrinkAxisMask"}),
   SubFusion |-> Own("SubFusion", {"activationType"}),
   TileFusion |-> Own("TileFusion", {"dims"}),
   TopKFusion |-> Own("TopKFusion", {"sorted", "axis"}),
   Unsqueeze |-> Own("Unsqueeze", {"axis"})] @@
  Bare({"Transpose"})

V1_0_Conversions ==
  V1_0_Activation_Concat @@ V1_0_Conv2DFusion_FullConnection @@
  V1_0_FusedBatchNorm_MulFusion @@ V1_0_OneHot_Resize @@ V1_0_Rsqrt_SquaredDifference @@
  V1_0_Squeeze_Unsqueeze

-----------------------------------------------------------------------------
(* Version 2.0.                                                          *)
V2_0_Activation_Concat == V1_0_Activation_Concat

V2_0_Conv2DFusion_FullConnection == V1_0_Conv2DFusion_FullConnection

V2_0_FusedBatchNorm_MulFusion ==
  [FusedBatchNorm |-> Own("FusedBatchNorm", {"epsilon"}),
   LayerNormFusion |->
     Own("LayerNormFusion", {"beginNormAxis", "epsilon", "elementwiseAffine",
          "beginParamsAxis"}),
   MatMulFusion |-> Own("MatMulFusion", {"transposeA", "transposeB", "activationType"}),
   MaxPoolFusion |->
     Own("MaxPoolFusion", {"kernelSize", "strides", "pad", "padMode", "format",
          "roundMode", "global", "activationType"}),
   MulFusion |-> Own("MulFusion", {"activationType"})] @@
  Bare({"Gather", "LessEqual", "Maximum"})

V2_0_OneHot_Resize == V1_0_OneHot_Resize

V2_0_Rsqrt_SquaredDifference == V1_0_Rsqrt_SquaredDifference

V2_0_Squeeze_Unsqueeze == V1_0_Squeeze_Unsqueeze

V2_0_Conversions ==
  V2_0_Activation_Concat @@ V2_0_Conv2DFusion_FullConnection @@
  V2_0_FusedBatchNorm_MulFusion @@ V2_0_OneHot_Resize @@ V2_0_Rsqrt_SquaredDifference @@
  V2_0_Squeeze_Unsqueeze

-----------------------------------------------------------------------------
(* Version 2.1.                                                          *)
V2_1_Activation_BatchToSpaceND ==
  [Activation |->
     Own("Activation", {"activationType", "alpha", "minVal", "maxVal", "approximate"}),
   AddFusion |-> [activationType |-> <<"Activation", "activationType">>],
   All |-> Own("All", {"keepDims"}),
   ArgMaxFusion |-> Own("ArgMaxFusion", {"axis", "topK", "keepDims", "outMaxValue"}),
   Assert |-> Own("Assert", {"summarize"}),
   AvgPoolFusion |->
     Own("AvgPoolFusion", {"kernelSize", "strides", "pad", "padMode", "roundMode",
          "format", "global", "activationType"}),
   BatchToSpaceND |-> Own("BatchToSpaceND", {"blockShape", "crops"})]

V2_1_BiasAdd_Conv2dTransposeFusion ==
  [BroadcastTo |-> Own("BroadcastTo", {"shape"}),
   Clip |-> Own("Clip", {"max", "min"}),
   Concat |-> Own("Concat", {"axis"}),
   Conv2DFusion |->
     Own("Conv2DFusion", {"kernelSize", "stride", "dilation", "padMode", "padList",
          "group", "inChannel", "outChannel", "activationType"}),
   Conv2dTransposeFusion |->
     Own("Conv2dTransposeFusion", {"kernelSize", "stride", "dilation", "padMode",
          "padList", "group", "inChannel", "outChannel",
          "activationType", "outputPaddings"})] @@
  Bare({"BiasAdd", "Cast", "Ceil"})

V2_1_Cos_Equal ==
  [ConstantOfShape |-> Own("ConstantOfShape", {"dataType", "value"}),
   Crop |-> Own("Crop", {"axis"}) @@
        [offset |-> <<"Crop", "offsets">>],
   DepthToSpace |-> Own("DepthToSpace", {"blockSize", "format", "mode"}),
   DetectionPostProcess |->
     Own("DetectionPostProcess", {"format", "inputSize", "scale", "nmsScoreThreshold",
          "maxDetections", "detectionsPerClass",
          "maxClassesPerDetection", "numClasses",
          "useRegularNms", "outQuantized"}) @@
        [nmsIoUThreshold |-> <<"DetectionPostProcess", "nmsIouThreshold">>],
   DivFusion |-> Own("DivFusion", {"activationType"}),
   Eltwise |-> Own("Eltwise", {"mode"})] @@
  Bare({"Cos", "Equal"})

V2_1_ExpFusion_GatherNd ==
  [ExpFusion |-> Own("ExpFusion", {"base", "scale", "shift"}),
   Flatten |-> Own("Flatten", {"axis"}),
   FullConnection |-> Own("FullConnection", {"hasBias", "useAxis", "axis", "activationType"}),
   FusedBatchNorm |-> Own("FusedBatchNorm", {"epsilon"})] @@
  Bare({"ExpandDims", "Floor", "Fill", "Gather", "GatherNd"})

V2_1_Greater_LogicalNot ==
  [InstanceNorm |-> Own("InstanceNorm", {"epsilon"}),
   LayerNormFusion |->
     Own("LayerNormFusion", {"beginNormAxis", "epsilon", "elementwiseAffine",
          "beginParamsAxis"})] @@
  Bare({"Greater", "GreaterEqual", "Less", "LessEqual", "Log", "LogicalAnd", "LogicalNot"})

V2_1_LogicalOr_MaxPoolFusion ==
  [LRN |-> Own("LRN", {"depthRadius", "bias", "alpha", "beta", "normRegion"}),
   LSTM |-> Own("LSTM", {"bidirectional", "hasBias", "inputSize", "hiddenSize", "numLayers",
          "numDirections", "dropout", "zoneoutCell", "zoneoutHidden", "projSize"}),
   L2NormalizeFusion |-> Own("L2NormalizeFusion", {"axis", "epsilon", "activationType"}),
   MatMulFusion |-> Own("MatMulFusion", {"transposeA", "transposeB", "activationType"}),
   MaxPoolFusion |->
     Own("MaxPoolFusion", {"kernelSize", "strides", "pad", "padMode", "format",
          "roundMode", "global", "activationType"})] @@
  Bare({"LogicalOr", "Maximum"})

V2_1_Minimum_PReLUFusion ==
  [MulFusion |-> Own("MulFusion", {"activationType"}),
   OneHot |-> Own("OneHot", {"axis"}),
   PadFusion |-> Own("PadFusion", {"paddings", "paddingMode", "constantValue"}),
   PowFusion |-> Own("PowFusion", {"scale", "shift"}),
   PReLUFusion |-> Own("PReLUFusion", {"channelShared"})] @@
  Bare({"Minimum", "Mod", "Neg", "NotEqual"})

V2_1_QuantDTypeCast_Round ==
  [QuantDTypeCast |-> Own("QuantDTypeCast", {"srcT", "dstT", "axis"}),
   Range |-> Own("Range", {"start", "limit", "delta"}) @@
        [dataType |-> <<"Range", "dType">>],
   ReduceFusion |-> Own("ReduceFusion", {"keepDims", "mode", "reduceToEnd", "coeff"}),
   Resize |-> Own("Resize", {"method", "newHeight", "newWidth", "preserveAspectRatio",
          "coordinateTransformMode", "cubicCoeff", "excludeOutside",
          "extrapolationValue", "nearestMode"})] @@
  Bare({"Rank", "Reciprocal", "Reshape", "Round"})

V2_1_Rsqrt_SpaceToDepth ==
  [ScaleFusion |-> Own("ScaleFusion", {"axis", "activationType"}),
   SliceFusion |-> Own("SliceFusion", {"axes"}),
   Softmax |-> Own("Softmax", {"axis"}),
   SpaceToBatchND |-> Own("SpaceToBatchND", {"blockShape", "paddings"}),
   SpaceToDepth |-> Own("SpaceToDepth", {"format", "blockSize"})] @@
  Bare({"Rsqrt", "ScatterNd", "Shape", "Sin"})

V2_1_SparseToDense_SubFusion ==
  [Split |-> Own("Split", {"outputNum", "sizeSplits", "axis"}),
   Squeeze |-> Own("Squeeze", {"axis"}),
   Stack |-> Own("Stack", {"axis"}),
   StridedSlice |->
     Own("StridedSlice", {"beginMask", "endMask", "ellipsisMask", "newAxisMask",
          "shrinkAxisMask"}),
   SubFusion |-> Own("SubFusion", {"activationType"})] @@
  Bare({"SparseToDense", "Sqrt", "Square", "SquaredDifference"})

V2_1_TileFusion_LogSoftmax ==
  [TileFusion |-> Own("TileFusion", {"dims"}),
   TopKFusion |-> Own("TopKFusion", {"sorted", "axis"}),
   Unsqueeze |-> Own("Unsqueeze", {"axis"}),
   Unstack |-> Own("Unstack", {"axis"}),
   LogSoftmax |-> Own("LogSoftmax", {"axis"})] @@
  Bare({"Transpose", "Where", "Select", "Erf"})

V2_1_Conversions ==
  V2_1_Activation_BatchToSpaceND @@ V2_1_BiasAdd_Conv2dTransposeFusion @@ V2_1_Cos_Equal @@
  V2_1_ExpFusion_GatherNd @@ V2_1_Greater_LogicalNot @@ V2_1_LogicalOr_MaxPoolFusion @@
  V2_1_Minimum_PReLUFusion @@ V2_1_QuantDTypeCast_Round @@ V2_1_Rsqrt_SpaceToDepth @@
  V2_1_SparseToDense_SubFusion @@ V2_1_TileFusion_LogSoftmax
-----------------------------------------------------------------------------
HDIVersions == {"V1_0", "V2_0", "V2_1"}
convertOpMap == [V1_0 |-> V1_0_Conversions, V2_0 |-> V2_0_Conversions, V2_1 |-> V2_1_Conversions]

(* The member of a builder that is the argument of MindIR_*_CreatePrimitive *)
(* which an accessor returns, where the names differ.                      *)
Renamed ==
  [Activation |-> [alpha |-> "m_negativeSlope"],
   BatchToSpaceND |-> [blockShape |-> "m_blockSize"],
   Conv2DFusion |-> [stride |-> "m_strides", padList |-> "m_pad"],
   Conv2dTransposeFusion |-> [stride |-> "m_strides"],
   Crop |-> [offsets |-> "m_offset"],
   DetectionPostProcess |-> [nmsIouThreshold |-> "m_nmsIoUThreshold"],
   QuantDTypeCast |-> [srcT |-> "m_src_t", dstT |-> "m_dst_t"],
   SpaceToBatchND |-> [blockShape |-> "block_shape", paddings |-> "paddings"],
   Split |-> [outputNum |-> "m_output_num", sizeSplits |-> "m_size_splits"],
   StridedSlice |->
     [beginMask |-> "m_begin_mask", endMask |-> "m_end_mask", ellipsisMask |-> "m_ellipsis_mask",
      newAxisMask |-> "m_new_axis_mask", shrinkAxisMask |-> "m_shrink_axis_mask"]]
Member(class, argument) ==
  IF class \in DOMAIN Renamed /\ argument \in DOMAIN Renamed[class]
  THEN Renamed[class][argument] ELSE "m_" \o argument

(* nodeAttr of a node: each field holds the argument it is read from; an   *)
(* accessor of another class finds nothing, as does one whose argument was *)
(* not given (<<>>).  A node type without converter has no fields.         *)
Convert(version, class, arguments) ==
  LET table == convertOpMap[version]
      read(r) == IF r[1] = class /\ Member(class, r[2]) \in DOMAIN arguments
                 THEN <<arguments[Member(class, r[2])]>> ELSE <<>>
  IN IF class \in DOMAIN table
     THEN [f \in DOMAIN table[class] |-> read(table[class][f])] ELSE <<>>

(* The argument reaches the device: some field of the node is read from it.  *)
Delivers(version, class, arguments, m) ==
  LET attributes == Convert(version, class, arguments)
  IN \E f \in DOMAIN attributes :
       /\ Member(class, convertOpMap[version][class][f][2]) = m
       /\ attributes[f] = <<arguments[m]>>
=============================================================================
