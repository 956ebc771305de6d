----------------------------- MODULE TensorOps ------------------------------
(***************************************************************************)
(* The builders of the operations on shapes, indices and reductions. Each  *)
(* record gives the numbers of inputs and outputs, the largest number of   *)
(* parameters and, for each parameter type, the setter (OpsBuilder).       *)
(***************************************************************************)
EXTENDS OpsBuilder

AllBuilder ==
  [Operation(Exactly(2), Exactly(1), "All") EXCEPT
     !.paramMax = 1, !.marksAll = TRUE,
     !.params = [OH_NN_ALL_KEEP_DIMS |-> Int64("m_keepDims")]]

ArgMaxBuilder ==
  [Operation(Exactly(1), Exactly(1), "ArgMaxFusion") EXCEPT
     !.setsQuantType = TRUE, !.paramMax = 4,
     !.params = [OH_NN_ARG_MAX_AXIS |-> Marked(AnyCount(Int64("m_axis"))),
                 OH_NN_ARG_MAX_KEEPDIMS |-> Marked(AnyCount(Bool("m_keepDims"))),
                 OH_NN_ARG_MAX_TOP_K |-> Marked(AnyCount(Int64("m_topK"))),
                 OH_NN_ARG_MAX_OUT_MAX_VALUE |-> Marked(AnyCount(Bool("m_outMaxValue")))]]

AssertBuilder ==
  [Operation(Exactly(2), Exactly(1), "Assert") EXCEPT
     !.paramMax = 1, !.marksAll = TRUE,
     !.params = [OH_NN_ASSERT_SUMMARIZE |-> Int64("m_summarize")]]

BatchToSpaceNDBuilder ==
  [Operation(Exactly(1), Exactly(1), "BatchToSpaceND") EXCEPT
     !.setsQuantType = TRUE, !.paramMax = 2, !.appends = {"m_blockSize"},
     !.params = [OH_NN_BATCH_TO_SPACE_ND_BLOCKSIZE |-> Marked(AnyCount(Int64("m_blockSize"))),
                 OH_NN_BATCH_TO_SPACE_ND_CROPS |-> Marked(AnyCount(Int64("m_crops")))]]

BroadcastToBuilder ==
  [Operation(Exactly(1), Exactly(1), "BroadcastTo") EXCEPT
     !.paramMax = 1, !.marksAll = TRUE,
     !.params = [OH_NN_BROADCAST_TO_SHAPE |-> AnyCount(Int64("m_shape"))]]

CastBuilder ==
  [Operation(Exactly(2), Exactly(1), "Cast") EXCEPT
     !.setsQuantType = TRUE, !.check = "castType"]

ConcatBuilder ==
  [Operation(AtLeast(2), Exactly(1), "Concat") EXCEPT
     !.setsQuantType = TRUE, !.paramMax = 1,
     !.params = [OH_NN_CONCAT_AXIS |-> Marked(Int64("m_axis"))]]

ConstantOfShapeBuilder ==
  [Operation(Exactly(1), Exactly(1), "ConstantOfShape") EXCEPT
     !.paramMax = 2, !.marksAll = TRUE,
     !.params = [OH_NN_CONSTANT_OF_SHAPE_DATA_TYPE |-> Int64("m_dataType"),
                 OH_NN_CONSTANT_OF_SHAPE_VALUE |-> AnyCount(Float32("m_value"))]]

CropBuilder ==
  [Operation(Exactly(2), Exactly(1), "Crop") EXCEPT
     !.paramMax = 2, !.marksAll = TRUE,
     !.params = [OH_NN_CROP_AXIS |-> Int64("m_axis"),
                 OH_NN_CROP_OFFSET |-> AnyCount(Int64("m_offset"))]]

DepthToSpaceBuilder ==
  [Operation(Exactly(1), Exactly(1), "DepthToSpace") EXCEPT
     !.paramMax = 2, !.marksAll = TRUE,
     !.params = [OH_NN_DEPTH_TO_SPACE_BLOCK_SIZE |-> Int64("m_blockSize"),
                 OH_NN_DEPTH_TO_SPACE_MODE |-> AnyCount(Keyed(Int32("m_mode"), {0, 1}))]]

ExpandDimsBuilder == Operation(Exactly(2), Exactly(1), "ExpandDims")
FillBuilder == [Operation(Exactly(2), Exactly(1), "Fill") EXCEPT !.setsQuantType = TRUE]

FlattenBuilder ==
  [Operation(Exactly(1), Exactly(1), "Flatten") EXCEPT
     !.paramMax = 1, !.marksAll = TRUE,
     !.params = [OH_NN_FLATTEN_AXIS |-> Int64("m_axis")]]

GatherBuilder == [Operation(Exactly(3), Exactly(1), "Gather") EXCEPT !.setsQuantType = TRUE]

GatherNDBuilder ==
  [Operation(Exactly(2), Exactly(1), "GatherNd") EXCEPT
     !.setsQuantType = TRUE]

OnehotBuilder ==
  [Operation(Exactly(4), Exactly(1), "OneHot") EXCEPT
     !.paramMax = 1,
     !.params = [OH_NN_ONE_HOT_AXIS |-> Marked(AnyCount(Int64("m_axis")))]]

RangeBuilder ==
  [Operation(Exactly(1), Exactly(1), "Range") EXCEPT
     !.paramMax = 3, !.marksAll = TRUE,
     !.params = [OH_NN_RANGE_START |-> Int64("m_start"),
                 OH_NN_RANGE_LIMIT |-> Int64("m_limit"),
                 OH_NN_RANGE_DELTA |-> Int64("m_delta")]]

RankBuilder == Operation(Exactly(1), Exactly(1), "Rank")

ReduceL2Builder ==
  [Operation(Exactly(2), Exactly(1), "ReduceFusion") EXCEPT
     !.variant = "L2", !.paramMax = 3,
     !.params = [OH_NN_REDUCE_L2_COEFF |-> Float32("m_coeff"),
                 OH_NN_REDUCE_L2_REDUCE_TO_END |-> MarkedIfTyped(Bool("m_reduceToEnd")),
                 OH_NN_REDUCE_L2_KEEP_DIMS |-> MarkedIfTyped(Bool("m_keepDims"))]]

ReduceAllBuilder ==
  [Operation(Exactly(2), Exactly(1), "ReduceFusion") EXCEPT
     !.variant = "ALL", !.paramMax = 3,
     !.params = [OH_NN_REDUCE_ALL_COEFF |-> Float32("m_coeff"),
                 OH_NN_REDUCE_ALL_REDUCE_TO_END |-> MarkedIfTyped(Bool("m_reduceToEnd")),
                 OH_NN_REDUCE_ALL_KEEP_DIMS |-> MarkedIfTyped(Bool("m_keepDims"))]]

ReduceMaxBuilder ==
  [Operation(Exactly(2), Exactly(1), "ReduceFusion") EXCEPT
     !.variant = "MAX", !.paramMax = 3,
     !.params = [OH_NN_REDUCE_MAX_COEFF |-> Float32("m_coeff"),
                 OH_NN_REDUCE_MAX_REDUCE_TO_END |-> MarkedIfTyped(Bool("m_reduceToEnd")),
                 OH_NN_REDUCE_MAX_KEEP_DIMS |-> MarkedIfTyped(Bool("m_keepDims"))]]

ReduceMeanBuilder ==
  [Operation(Exactly(2), Exactly(1), "ReduceFusion") EXCEPT
     !.variant = "MEAN", !.setsQuantType = TRUE, !.paramMax = 3,
     !.params = [OH_NN_REDUCE_MEAN_COEFF |-> Float32("m_coeff"),
                 OH_NN_REDUCE_MEAN_REDUCE_TO_END |-> MarkedIfTyped(Bool("m_reduceToEnd")),
                 OH_NN_REDUCE_MEAN_KEEP_DIMS |-> Marked(Bool("m_keepDims"))]]

ReduceMinBuilder ==
  [Operation(Exactly(2), Exactly(1), "ReduceFusion") EXCEPT
     !.variant = "MIN", !.paramMax = 3,
     !.params = [OH_NN_REDUCE_MIN_COEFF |-> Float32("m_coeff"),
                 OH_NN_REDUCE_MIN_REDUCE_TO_END |-> MarkedIfTyped(Bool("m_reduceToEnd")),
                 OH_NN_REDUCE_MIN_KEEP_DIMS |-> MarkedIfTyped(Bool("m_keepDims"))]]

ReduceProdBuilder ==
  [Operation(Exactly(2), Exactly(1), "ReduceFusion") EXCEPT
     !.variant = "PROD", !.setsQuantType = TRUE, !.paramMax = 3,
     !.params = [OH_NN_REDUCE_PROD_COEFF |-> Float32("m_coeff"),
                 OH_NN_REDUCE_PROD_REDUCE_TO_END |-> MarkedIfTyped(Bool("m_reduceToEnd")),
                 OH_NN_REDUCE_PROD_KEEP_DIMS |-> Marked(Bool("m_keepDims"))]]

ReduceSumBuilder ==
  [Operation(Exactly(2), Exactly(1), "ReduceFusion") EXCEPT
     !.variant = "SUM", !.paramMax = 3,
     !.params = [OH_NN_REDUCE_SUM_COEFF |-> Float32("m_coeff"),
                 OH_NN_REDUCE_SUM_REDUCE_TO_END |-> MarkedIfTyped(Bool("m_reduceToEnd")),
                 OH_NN_REDUCE_SUM_KEEP_DIMS |-> MarkedIfTyped(Bool("m_keepDims"))]]

ReshapeBuilder == [Operation(Exactly(2), Exactly(1), "Reshape") EXCEPT !.setsQuantType = TRUE]
ScatterNDBuilder == Operation(Exactly(3), Exactly(1), "ScatterNd")
SelectBuilder == Operation(Exactly(3), Exactly(1), "Select")
ShapeBuilder == Operation(Exactly(1), Exactly(1), "Shape")

SliceBuilder ==
  [Operation(Exactly(3), Exactly(1), "SliceFusion") EXCEPT
     !.setsQuantType = TRUE, !.paramMax = 1, !.marksAll = TRUE,
     !.params = [OH_NN_SLICE_AXES |-> AnyCount(Int64("m_axes"))]]

SpaceToBatchNDSetters ==
  [OH_NN_SPACE_TO_BATCH_ND_BLOCK_SHAPE |-> Shaped(Int64("block_shape"), 1, 2),
   OH_NN_SPACE_TO_BATCH_ND_PADDINGS |-> Shaped(Int64("paddings"), 2, 4)]

SpaceToBatchNDBuilder ==
  [Operation(Exactly(1), Exactly(1), "SpaceToBatchND") EXCEPT
     !.setsQuantType = TRUE, !.paramMax = 2, !.marksAll = TRUE, !.appends = {"block_shape"},
     !.params = SpaceToBatchNDSetters]

SpaceToDepthBuilder ==
  [Operation(Exactly(1), Exactly(1), "SpaceToDepth") EXCEPT
     !.paramMax = 1, !.marksAll = TRUE,
     !.params = [OH_NN_SPACE_TO_DEPTH_BLOCK_SIZE |-> Int64("m_blockSize")]]

SparseToDenseBuilder == Operation(Exactly(3), Exactly(1), "SparseToDense")

(* SetOutputNum and SetSizeSplits do not check the buffer. *)
SplitSetters ==
  [OH_NN_SPLIT_AXIS |-> Int64("m_axis"),
   OH_NN_SPLIT_OUTPUT_NUM |-> Unguarded(Int64("m_output_num")),
   OH_NN_SPLIT_SIZE_SPLITS |-> Unguarded(AnyCount(Int64("m_size_splits")))]

SplitBuilder ==
  [Operation(Exactly(1), AtLeast(1), "Split") EXCEPT
     !.setsQuantType = TRUE, !.paramMax = 3, !.marksAll = TRUE, !.appends = {"m_size_splits"},
     !.params = SplitSetters]

SqueezeBuilder ==
  [Operation(Exactly(1), Exactly(1), "Squeeze") EXCEPT
     !.setsQuantType = TRUE, !.paramMax = 1, !.marksAll = TRUE, !.appends = {"m_axis"},
     !.params = [OH_NN_SQUEEZE_AXIS |-> AnyCount(Int64("m_axis"))]]

StackBuilder ==
  [Operation(AtLeast(2), Exactly(1), "Stack") EXCEPT
     !.paramMax = 1, !.marksAll = TRUE,
     !.params = [OH_NN_STACK_AXIS |-> Int64("m_axis")]]

StridedSliceSetters ==
  [OH_NN_STRIDED_SLICE_BEGIN_MASK |-> AnyCount(Int64("m_begin_mask")),
   OH_NN_STRIDED_SLICE_END_MASK |-> AnyCount(Int64("m_end_mask")),
   OH_NN_STRIDED_SLICE_ELLIPSIS_MASK |-> AnyCount(Int64("m_ellipsis_mask")),
   OH_NN_STRIDED_SLICE_NEW_AXIS_MASK |-> AnyCount(Int64("m_new_axis_mask")),
   OH_NN_STRIDED_SLICE_SHRINK_AXIS_MASK |-> AnyCount(Int64("m_shrink_axis_mask"))]

StridedSliceBuilder ==
  [Operation(Exactly(4), Exactly(1), "StridedSlice") EXCEPT
     !.paramMax = 5, !.marksAll = TRUE, !.params = StridedSliceSetters]

TileBuilder ==
  [Operation(Exactly(2), Exactly(1), "TileFusion") EXCEPT
     !.paramMax = 1, !.marksAll = TRUE,
     !.params = [OH_NN_TILE_DIMS |-> AnyCount(Int64("m_dims"))]]

TopKBuilder ==
  [Operation(Exactly(2), Exactly(2), "TopKFusion") EXCEPT
     !.paramMax = 2, !.marksAll = TRUE,
     !.params = [OH_NN_TOP_K_SORTED |-> AnyCount(Bool("m_sorted")),
                 OH_NN_TOP_K_AXIS |-> Int64("m_axis")]]

TransposeBuilder == Operation(Exactly(2), Exactly(1), "Transpose")

UnsqueezeBuilder ==
  [Operation(Exactly(1), Exactly(1), "Unsqueeze") EXCEPT
     !.setsQuantType = TRUE, !.paramMax = 1, !.marksAll = TRUE,
     !.params = [OH_NN_UNSQUEEZE_AXIS |-> Int64("m_axis")]]

UnstackBuilder ==
  [Operation(Exactly(1), AtLeast(1), "Unstack") EXCEPT
     !.paramMax = 1, !.marksAll = TRUE,
     !.params = [OH_NN_UNSTACK_AXIS |-> Int64("m_axis")]]

WhereBuilder == Operation(Exactly(3), Exactly(1), "Where")
=============================================================================
