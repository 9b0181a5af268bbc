-------------------------------- MODULE Layouts --------------------------------
(***************************************************************************)
(* What the two sides of the C interface call a tensor, and the arithmetic   *)
(* on shapes that each does for itself: the layouts that the C API hands to   *)
(* those who allocate outputs (deepgemm_c_api.cc), and the strides that the   *)
(* launchers demand of them (deepgemm_raw_mqa.cc, deepgemm_raw_gemm.cc).       *)
(*                                                                         *)
(* Sizes are natural numbers; the 64-bit overflow that align_i64 and          *)
(* ceil_div_i64 check for is out of reach of a tensor that exists.             *)
(***************************************************************************)
EXTENDS Integers, Sequences, Functions

CeilDiv(x, y) == (x + y - 1) \div y
AlignUp(x, a) == IF x % a = 0 THEN x ELSE x + (a - (x % a))

ElemSize(dtype) ==
    IF dtype \in {"fp8", "fp4", "u8"} THEN 1 ELSE IF dtype = "bf16" THEN 2 ELSE 4

-----------------------------------------------------------------------------
(* Tensors: dtype, shape and the stride of each dimension, in elements *)

Tensor(dtype, shape, strides) == [dtype |-> dtype, shape |-> shape, strides |-> strides]
NoTensor == [dtype |-> "none"]

Product(shape, dims) == FoldFunctionOnSet(LAMBDA x, y : x * y, 1, shape, dims)
RowMajor(shape) ==
    [i \in DOMAIN shape |-> Product(shape, {j \in DOMAIN shape : j > i})]
Contiguous(dtype, shape) == Tensor(dtype, shape, RowMajor(shape))

-----------------------------------------------------------------------------
(* The layouts of the C API *)

Layout2D(dtype, logical, allocation, strides) ==
    [dtype |-> dtype, logical |-> logical, allocation |-> allocation, strides |-> strides]
NoLayout == [dtype |-> "none"]

\* A row-major allocation, of which the logical tensor is the upper left corner.
Fill2D(dtype, rows, cols, allocRows, allocCols) ==
    Layout2D(dtype, <<rows, cols>>, <<allocRows, allocCols>>, <<allocCols, 1>>)

LogicalSpec(layout) == Tensor(layout.dtype, layout.logical, layout.strides)

\* Rows are padded to whole blocks of 128 heads, columns to blocks of KV and 1 KB.
\* (mutant: rows are not padded)
MqaLayoutRows(seq, kv, heads, maxK, dtype) ==
    Fill2D(dtype, seq, IF maxK = 0 THEN kv ELSE maxK, seq,
           AlignUp(IF maxK = 0 THEN kv + 256 ELSE AlignUp(maxK, 256), 1024 \div ElemSize(dtype)))
MqaLayout(seq, kv, heads, maxK, dtype) ==
    Fill2D(dtype, seq, IF maxK = 0 THEN kv ELSE maxK, AlignUp(seq, 128 \div heads),
           AlignUp(IF maxK = 0 THEN kv + 256 ELSE AlignUp(maxK, 256), 1024 \div ElemSize(dtype)))

PagedLayout(batch, nextN, maxLen, dtype) ==
    Fill2D(dtype, batch * nextN, maxLen, batch * nextN,
           AlignUp(AlignUp(maxLen, 256), 1024 \div ElemSize(dtype)))

MetadataLayout(sms) == Fill2D("i32", sms + 1, 2, sms + 1, 2)

GemmOutputLayout(m, n) == Fill2D("bf16", m, n, m, n)

\* Scales are MN-major: the allocation is the transpose of the logical tensor, with
\* MN padded to 16 bytes.  Four UE8M0 scales are packed into one element.
Packing(dtype) == IF dtype = "f32" THEN 1 ELSE 4
ScaleLayout(mn, k, granK, dtype) ==
    LET cols == CeilDiv(k, granK * Packing(dtype))
        padded == AlignUp(mn, 16 \div ElemSize(dtype))
    IN Layout2D(dtype, <<mn, cols>>, <<cols, padded>>, <<1, padded>>)

-----------------------------------------------------------------------------
(* What the launchers compute for themselves *)

MqaStride(kv, maxK, dtype) ==
    LET alignment == 1024 \div ElemSize(dtype)
    IN IF maxK = 0 THEN AlignUp(kv + 256, alignment)
       ELSE AlignUp(AlignUp(maxK, 256), alignment)
PagedStride(maxLen, dtype) == AlignUp(AlignUp(maxLen, 256), 1024 \div ElemSize(dtype))

TmaAligned(mn, elemSize) == CeilDiv(mn, 16 \div elemSize) * (16 \div elemSize)
=============================================================================
