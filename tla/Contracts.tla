------------------------------- MODULE Contracts -------------------------------
(***************************************************************************)
(* One client of the Candle bindings or of the deepgemm crate, and what       *)
(* happens to the tensors of its calls.  A call is checked in Rust, which asks *)
(* the C API for the layout of the output; the output is allocated; the launch *)
(* is checked again in C++, describes the tensors to the driver, and is         *)
(* enqueued.  A session is what the client calls in order; it ends at the first *)
(* error.  Its later calls may use what its earlier calls returned.            *)
(*                                                                         *)
(* Ranks are fixed by the types of the crate, and the bindings refuse others.   *)
(* The bindings' checks of dtypes are those of the crate again.  Which device a *)
(* tensor is on, kernels and streams are in KernelLaunch.                       *)
(*                                                                         *)
(* A call has sms, the number of SMs that the process had set when it was made, *)
(* where the launcher reads it.  Products that the launchers compute in 32-bit  *)
(* integers, and that do not fit, are undefined: the call is launched or not.    *)
(***************************************************************************)
EXTENDS GemmConfig

CONSTANTS
    Session,    \* sequences of calls
    Sms,        \* the SMs of the GPU
    I32Max      \* 2^31 - 1 in the code

\* Head counts, head dimensions and page sizes are at most 128.
ASSUME ContractsAssumption == Sms \in Nat \ {0} /\ I32Max \in Nat /\ I32Max >= 128

-----------------------------------------------------------------------------
(* Calls: what the types of the crate admit.  Strides are natural numbers, as those *)
(* of a Candle tensor are, though the crate's type has a sign. *)

DTypes == {"fp8", "fp4", "u8", "bf16", "f32", "i32", "ue8m0"}
Tensors(rank) == [dtype : DTypes, shape : [1..rank -> Nat], strides : [1..rank -> Nat]]
Option(S) == S \cup {NoTensor}

\* The tensor that the i-th launch of the session returned.
Returned(i) == [dtype |-> "returned", call |-> i]
Results == [dtype : {"returned"}, call : Nat \ {0}]

\* The caller of the crate passes an output; a binding allocates it.
FromLayout == NoTensor
Outputs == Option(Tensors(2))

\* The tensors of a call whose data does not start at a multiple of 16 bytes: one that is
\* narrowed may start anywhere in its storage, at the address of one of its elements.
Operands == {"q", "q_scale", "kv", "kv_scale", "weights", "cache", "a", "a_scale", "b", "b_scale",
             "out"}
Unaligned == SUBSET Operands

AnyMqa ==
    [op : {"mqa"}, q : Tensors(3), q_scale : Option(Tensors(2)), kv : Tensors(2),
     kv_scale : Tensors(1), weights : Tensors(2), start : Tensors(1), end : Tensors(1),
     clean : BOOLEAN, max_k : Nat, dtype : DTypes, out : Outputs, unaligned : Unaligned]
AnyPlan ==
    [op : {"plan"}, context_lens : Tensors(2), indices : Option(Tensors(1)),
     block_kv : Nat, sms : Nat, out : Outputs, unaligned : Unaligned]
AnyPaged ==
    [op : {"paged"}, q : Tensors(4), q_scale : Option(Tensors(3)), cache : Tensors(4),
     weights : Tensors(2), context_lens : Tensors(2), block_table : Tensors(2),
     schedule_meta : Tensors(2) \cup Results, indices : Option(Tensors(1)), max_len : Nat,
     clean : BOOLEAN, dtype : DTypes, sms : Nat, plan_block_kv : Nat, out : Outputs,
     unaligned : Unaligned]
AnyScale ==
    [op : {"scale"}, scale : Tensors(2), mn : Nat, k : Nat, gran_mn : Nat, gran_k : Nat,
     dtype : DTypes, out : Outputs, unaligned : Unaligned]
AnyGemm ==
    [op : {"gemm"}, a : Tensors(2), a_scale : Tensors(2) \cup Results, b : Tensors(2),
     b_scale : Tensors(2) \cup Results, sms : Nat \ {0}, out : Outputs, unaligned : Unaligned]

\* fp8_gemm_nt of the bindings, and what is left of it when the scales of a are launched.
AnyRaw(op) ==
    [op : {op}, a : Tensors(2), a_scale : Tensors(2), b : Tensors(2), b_scale : Tensors(2),
     sms : Nat \ {0}, unaligned : Unaligned]
AnyCall == AnyMqa \cup AnyPlan \cup AnyPaged \cup AnyScale \cup AnyGemm \cup AnyRaw("raw_gemm")

\* A call uses only what calls before it returned.
Inputs(c) ==
    IF c.op = "paged" THEN {c.schedule_meta}
    ELSE IF c.op = "gemm" THEN {c.a_scale, c.b_scale} ELSE {}
UsesBefore(c, i) == \A x \in Inputs(c) : x.dtype = "returned" => x.call < i

ASSUME SessionAssumption ==
    \A s \in Session : s \in Seq(AnyCall) /\ \A i \in DOMAIN s : UsesBefore(s[i], i)

-----------------------------------------------------------------------------
VARIABLES
    arch,       \* "sm90" or "sm100"
    session,    \* (history) the calls the client set out to make
    todo,       \* the calls still to be made
    layout,     \* what the C API said of the output of the current call
    view,       \* the tensor allocated for it
    done,       \* (history) the calls that were launched, and what they returned
    result      \* how the session ended

vars == <<arch, session, todo, layout, view, done, result>>

\* The tensor that a call is given, its own or one that an earlier call returned.
Given(x) == IF x.dtype = "returned" THEN done[x.call].view ELSE x

LogitsDType == {"f32", "bf16"}
Positive(shape) == \A i \in DOMAIN shape : shape[i] > 0
FitsI32(x) == x <= I32Max

-----------------------------------------------------------------------------
(* The checks of the crate *)

\* require_dtype, require_contiguous and require_shape
Is(x, dtype, shape) == x = Contiguous(dtype, shape)

\* (mutant: a weights matrix may be transposed)
AcceptsWeightsAnyStride(x, rows, heads, dtype) ==
    /\ x.shape = <<rows, heads>>
    /\ x.dtype = "f32" \/ (x.dtype = "bf16" /\ arch = "sm100" /\ dtype = "bf16")
AcceptsWeights(x, rows, heads, dtype) ==
    /\ x.shape = <<rows, heads>> /\ x.strides[2] = 1
    /\ x.dtype = "f32" \/ (x.dtype = "bf16" /\ arch = "sm100" /\ dtype = "bf16")

SupportsHeads(fp4, heads, headDim) ==
    IF arch = "sm90"
    THEN ~fp4 /\ heads \in {32, 64} /\ headDim \in {32, 64, 128}
    ELSE heads \in {8, 16, 32, 64} /\ headDim \in (IF fp4 THEN {64, 128} ELSE {32, 64, 128})

\* (mutant: the pages of SM100 are those of SM90)
SupportsBlockKvAlike(blockKv) == blockKv = 64
SupportsBlockKv(blockKv) == blockKv \in (IF arch = "sm90" THEN {64} ELSE {32, 64})

\* Indices make a launch varlen.
AcceptsIndices(x, batch, nextN) ==
    x # NoTensor => arch = "sm100" /\ nextN = 1 /\ Is(x, "i32", <<batch>>)

Packed(fp4) == IF fp4 THEN "fp4" ELSE "fp8"
HeadDim(fp4, dim) == IF fp4 THEN dim * 2 ELSE dim

AcceptsMqa(c) ==
    LET fp4 == c.q_scale # NoTensor
        seq == c.q.shape[1]  heads == c.q.shape[2]  dim == c.q.shape[3]
        kv == c.kv.shape[1]
    IN  /\ c.dtype \in LogitsDType
        /\ ~(c.clean /\ c.max_k > 0)
        /\ dim > 0
        /\ Is(c.q, Packed(fp4), c.q.shape)
        /\ Is(c.kv, Packed(fp4), <<kv, dim>>)
        /\ fp4 => Is(c.q_scale, "ue8m0", <<seq, heads>>)
        /\ Is(c.kv_scale, IF fp4 THEN "ue8m0" ELSE "f32", <<kv>>)
        /\ AcceptsWeights(c.weights, seq, heads, c.dtype)
        /\ Is(c.start, "i32", <<seq>>) /\ Is(c.end, "i32", <<seq>>)
        /\ SupportsHeads(fp4, heads, HeadDim(fp4, dim))

AcceptsPlan(c) ==
    /\ Is(c.context_lens, "i32", c.context_lens.shape)
    /\ SupportsBlockKv(c.block_kv)
    /\ c.sms > 0
    /\ AcceptsIndices(c.indices, c.context_lens.shape[1], c.context_lens.shape[2])

\* A page holds block_kv tokens, each with its elements and a scale of 4 bytes.
AcceptsPaged(c) ==
    LET fp4 == c.q_scale # NoTensor
        batch == c.q.shape[1]  nextN == c.q.shape[2]
        heads == c.q.shape[3]  dim == c.q.shape[4]
        blockKv == c.cache.shape[2]
    IN  /\ c.dtype \in LogitsDType
        /\ c.max_len > 0 /\ c.sms > 0 /\ ~c.clean
        /\ dim > 0
        /\ Is(c.q, Packed(fp4), c.q.shape)
        /\ fp4 => Is(c.q_scale, "ue8m0", <<batch, nextN, heads>>)
        /\ Is(c.cache, "u8", <<c.cache.shape[1], blockKv, 1, dim + 4>>)
        /\ AcceptsWeights(c.weights, batch * nextN, heads, c.dtype)
        /\ Is(c.context_lens, "i32", <<batch, nextN>>)
        /\ c.block_table.shape[1] = batch /\ c.block_table.strides[2] = 1
        /\ c.block_table.dtype = "i32"
        /\ Is(Given(c.schedule_meta), "i32", <<c.sms + 1, 2>>)
        /\ AcceptsIndices(c.indices, batch, nextN)
        /\ SupportsBlockKv(blockKv)
        /\ SupportsHeads(fp4, heads, HeadDim(fp4, dim))
        /\ arch = "sm90" => nextN \in {1, 2}

AcceptsScale(c) ==
    /\ c.mn > 0 /\ c.k > 0 /\ c.gran_mn > 0 /\ c.gran_k > 0
    /\ c.dtype \in {"f32", "ue8m0"}
    /\ Is(c.scale, "f32", <<CeilDiv(c.mn, c.gran_mn), CeilDiv(c.k, c.gran_k)>>)

AcceptsGemm(c) ==
    LET m == c.a.shape[1]  k == c.a.shape[2]  n == c.b.shape[1]
        Prepared(x, mn, dtype) == Given(x) = LogicalSpec(ScaleLayout(mn, k, 128, dtype))
    IN  /\ Is(c.a, "fp8", <<m, k>>) /\ Is(c.b, "fp8", <<n, k>>)
        /\ m > 0 /\ n > 0 /\ k > 0
        /\ n % 8 = 0
        /\ IF arch = "sm90"
           THEN /\ Prepared(c.a_scale, m, "f32")
                /\ Is(c.b_scale, "f32", <<CeilDiv(n, 128), CeilDiv(k, 128)>>)
           ELSE /\ Prepared(c.a_scale, m, "ue8m0")
                /\ Prepared(c.b_scale, n, "ue8m0")

-----------------------------------------------------------------------------
(* The checks of the launchers *)

NativeIs(x, dtype, shape) == Is(x, dtype, shape) /\ Positive(shape)

\* require_logits_output
NativeLogits(out, rows, cols, stride) ==
    /\ out.dtype \in LogitsDType
    /\ out.shape = <<rows, cols>> /\ out.strides = <<stride, 1>>

NativeWeights(x, rows, heads, out) ==
    /\ x.shape = <<rows, heads>> /\ Positive(x.shape) /\ x.strides[2] = 1
    /\ x.dtype = "f32" \/ (x.dtype = "bf16" /\ arch = "sm100" /\ out.dtype = "bf16")
    /\ FitsI32(x.strides[1])

NativeHeads(fp4, heads, headDim) ==
    /\ heads \in (IF arch = "sm90" THEN {32, 64} ELSE {8, 16, 32, 64})
    /\ headDim \in (IF fp4 THEN {64, 128} ELSE {32, 64, 128})
    /\ fp4 => arch = "sm100"

NativeMqa(c, out) ==
    LET fp4 == c.q_scale # NoTensor
        seq == c.q.shape[1]  heads == c.q.shape[2]  dim == c.q.shape[3]
        kv == c.kv.shape[1]
    IN  /\ NativeIs(c.q, Packed(fp4), c.q.shape)
        /\ NativeIs(c.kv, Packed(fp4), <<kv, dim>>)
        /\ fp4 => NativeIs(c.q_scale, "ue8m0", <<seq, heads>>)
        /\ NativeIs(c.kv_scale, IF fp4 THEN "ue8m0" ELSE "f32", <<kv>>)
        /\ NativeWeights(c.weights, seq, heads, out)
        /\ Is(c.start, "i32", <<seq>>) /\ Is(c.end, "i32", <<seq>>)
        /\ ~(c.clean /\ c.max_k > 0)
        /\ \A x \in {seq, heads, HeadDim(fp4, dim), c.max_k, TmaAligned(kv, 4)} : FitsI32(x)
        /\ NativeLogits(out, seq, IF c.max_k = 0 THEN kv ELSE c.max_k,
                        MqaStride(kv, c.max_k, out.dtype))
        /\ NativeHeads(fp4, heads, HeadDim(fp4, dim))

NativePlan(c, out) ==
    LET batch == c.context_lens.shape[1]  nextN == c.context_lens.shape[2]
    IN  /\ NativeIs(c.context_lens, "i32", c.context_lens.shape)
        /\ Is(out, "i32", <<c.sms + 1, 2>>)
        /\ c.sms > 0 /\ c.sms <= Sms
        /\ c.indices # NoTensor =>
              Is(c.indices, "i32", <<batch>>) /\ arch = "sm100" /\ nextN = 1
        /\ \A x \in {batch, nextN, c.sms, c.block_kv} : FitsI32(x)
        /\ c.block_kv = 64 \/ (arch = "sm100" /\ c.block_kv = 32)

NativePaged(c, out) ==
    LET fp4 == c.q_scale # NoTensor
        batch == c.q.shape[1]  nextN == c.q.shape[2]
        heads == c.q.shape[3]  dim == c.q.shape[4]
        blockKv == c.cache.shape[2]
    IN  /\ NativeIs(c.q, Packed(fp4), c.q.shape)
        /\ fp4 => NativeIs(c.q_scale, "ue8m0", <<batch, nextN, heads>>)
        /\ NativeIs(c.cache, "u8", <<c.cache.shape[1], blockKv, 1, dim + 4>>)
        /\ c.cache.strides[1] % 4 = 0
        /\ NativeWeights(c.weights, batch * nextN, heads, out)
        /\ ~fp4 => c.weights.strides[1] = heads
        /\ NativeIs(c.context_lens, "i32", <<batch, nextN>>)
        /\ c.block_table.dtype = "i32" /\ Positive(c.block_table.shape)
        /\ c.block_table.shape[1] = batch /\ c.block_table.strides[2] = 1
        /\ c.sms > 0 /\ c.sms <= Sms
        /\ NativeIs(Given(c.schedule_meta), "i32", <<c.sms + 1, 2>>)
        /\ c.indices # NoTensor =>
              Is(c.indices, "i32", <<batch>>) /\ arch = "sm100" /\ nextN = 1
        /\ c.max_len > 0 /\ ~c.clean
        /\ \A x \in {batch, nextN, heads, HeadDim(fp4, dim), c.cache.shape[1], blockKv,
                     c.max_len, c.block_table.strides[1], c.cache.strides[1]} : FitsI32(x)
        /\ NativeLogits(out, batch * nextN, c.max_len, PagedStride(c.max_len, out.dtype))
        /\ blockKv = 64 \/ (arch = "sm100" /\ blockKv = 32)
        /\ arch = "sm90" => nextN \in {1, 2}
        /\ NativeHeads(fp4, heads, HeadDim(fp4, dim))

\* require_mn_major_scale
NativeScale(x, mn, k, granK, dtype) ==
    /\ x.dtype = dtype
    /\ x.shape = <<mn, CeilDiv(k, granK * Packing(dtype))>>
    /\ x.strides = <<1, TmaAligned(mn, ElemSize(dtype))>>

\* The grids of the four kernels that transform scales.
ScaleGrid(c) ==
    LET blocks == CeilDiv(c.k, c.gran_k) IN
    IF c.gran_mn = 1 THEN CeilDiv(c.mn, IF c.dtype = "f32" THEN 64 ELSE 48)
    ELSE CeilDiv(c.mn * CeilDiv(blocks, Packing(c.dtype)), 256)

NativeTransform(c, out) ==
    LET blocks == CeilDiv(c.k, c.gran_k)
    IN  /\ Positive(<<c.mn, c.k, c.gran_mn, c.gran_k>>)
        /\ NativeIs(c.scale, "f32", <<CeilDiv(c.mn, c.gran_mn), blocks>>)
        /\ out.dtype \in {"f32", "ue8m0"}
        /\ NativeScale(out, c.mn, c.k, c.gran_k, out.dtype)
        /\ FitsI32(c.gran_mn) /\ FitsI32(c.gran_k)
        /\ blocks <= 512
        /\ c.gran_mn # 1 => FitsI32(TmaAligned(c.mn, 4))
        /\ FitsI32(ScaleGrid(c))

\* The kernel that the heuristics choose for a call.
ConfigOf(c) == BestConfig(arch, c.a.shape[1], c.b.shape[1], c.a.shape[2], c.sms)

\* (mutant: of m only the padded size of its scale, as 32-bit unsigned)
GemmSizesUnsigned(m, n, k) == {n, k, TmaAligned(m % (2 * (I32Max + 1)), 4)}
GemmSizes(m, n, k) == {m, n, k, TmaAligned(m, 4)}

NativeGemm(c, out) ==
    LET m == c.a.shape[1]  k == c.a.shape[2]  n == c.b.shape[1]
    IN  /\ NativeIs(c.a, "fp8", <<m, k>>) /\ NativeIs(c.b, "fp8", <<n, k>>)
        /\ NativeIs(out, "bf16", <<m, n>>)
        /\ n % 8 = 0
        /\ \A x \in GemmSizes(m, n, k) : FitsI32(x)
        /\ ConfigOf(c) # NoConfig
        /\ IF arch = "sm90"
           THEN /\ NativeScale(Given(c.a_scale), m, k, 128, "f32")
                /\ NativeIs(c.b_scale, "f32", <<CeilDiv(n, 128), CeilDiv(k, 128)>>)
           ELSE /\ NativeScale(Given(c.a_scale), m, k, 128, "ue8m0")
                /\ NativeScale(Given(c.b_scale), n, k, 128, "ue8m0")
                /\ FitsI32(TmaAligned(n, 4))

-----------------------------------------------------------------------------
(* The driver: it describes tensors that start at multiples of 16 bytes, and whose   *)
(* rows do, in boxes of at most 256 elements each way, grants a block 227 KB of       *)
(* shared memory, and launches grids of whole clusters. *)

Describes(x) == (x.strides[1] * ElemSize(x.dtype)) % 16 = 0

SmemCapacity == 232448

\* 3 stages each of q and its weights, and of KV and its scales.
MqaSmem(c) ==
    LET qh == (128 \div c.q.shape[2]) * c.q.shape[2]
    IN  3 * (qh * c.q.shape[3] + qh * ElemSize(c.weights.dtype) + 256 * c.kv.shape[2] + 256 * 4)
        + (3 * 2 + 3 * 2 + 4 * 2) * 8 + 4

PagedSmem(c) ==
    LET qh == c.q.shape[2] * c.q.shape[3]  dim == c.q.shape[4]  blockKv == c.cache.shape[2]
        Aligned(bytes) == AlignUp(bytes, dim * 8)
    IN  3 * (qh * dim + Aligned(qh * ElemSize(c.weights.dtype))) + Aligned(3 * 8 * 2)
        + 4 * (3 * (blockKv * dim + Aligned(blockKv * 4)) + Aligned(3 * 8 * 2))
        + 4 * 2 * 8 + 4

PlanSmem(c) ==
    LET batch == c.context_lens.shape[1]
    IN IF arch = "sm90" THEN AlignUp(batch, 32) * 4 ELSE 2 * batch * 4

\* The tensors that a launch describes to the driver.
Described(c) ==
    IF c.op = "mqa"
    THEN {"q", "kv", "kv_scale", "weights"} \cup (IF c.q_scale = NoTensor THEN {} ELSE {"q_scale"})
    ELSE IF c.op = "paged"
    THEN {"q", "cache", "weights"} \cup (IF c.q_scale = NoTensor THEN {} ELSE {"q_scale"})
    ELSE IF c.op = "gemm"
    THEN {"a", "b", "a_scale", "out"} \cup (IF arch = "sm90" THEN {} ELSE {"b_scale"})
    ELSE {}

\* What a binding allocates is aligned, as the output of a launch or as the scales that
\* an earlier one returned.
AlignedOut(c) == c.out = FromLayout \/ "out" \notin c.unaligned
IsAligned(c, f) ==
    IF f = "out" THEN AlignedOut(c)
    ELSE IF f = "a_scale" /\ c.a_scale.dtype = "returned" THEN AlignedOut(done[c.a_scale.call].call)
    ELSE IF f = "b_scale" /\ c.b_scale.dtype = "returned" THEN AlignedOut(done[c.b_scale.call].call)
    ELSE f \notin c.unaligned

Describable(c) ==
    /\ \A f \in Described(c) : IsAligned(c, f)
    /\ c.op \in {"mqa", "paged"} => Describes(c.weights)
    /\ c.op = "gemm" =>
          /\ Describes(c.a) /\ Describes(c.b)
          /\ \A box \in Boxes(arch, ConfigOf(c)) : \A i \in 1..2 : box[i] \in 1..256

\* The SM100 logits kernels ask for all there is.
Smem(c) ==
    IF c.op = "plan" THEN PlanSmem(c)
    ELSE IF c.op \in {"mqa", "paged"} /\ arch = "sm100" THEN SmemCapacity
    ELSE IF c.op = "mqa" THEN MqaSmem(c)
    ELSE IF c.op = "paged" THEN PagedSmem(c)
    ELSE IF c.op = "gemm" THEN ConfigOf(c).pipeline.smem
    ELSE 0

\* Rows of a matrix, tokens and bytes, as the products of sizes that fit.
Products(c) ==
    IF c.op = "mqa" THEN {c.q.shape[1] * c.q.shape[2]}
    ELSE IF c.op = "paged" THEN {c.q.shape[1] * c.q.shape[2] * c.q.shape[3]}
    ELSE IF c.op = "plan"
    THEN {PlanSmem(c)} \cup
         (IF arch = "sm90" THEN {} ELSE {c.context_lens.shape[1] * c.context_lens.shape[2]})
    ELSE {}
Wraps(c) == \E x \in Products(c) : ~FitsI32(x)

\* What a launcher and the driver make of a call with a given output.
LauncherAccepts(c, out) ==
    \/ c.op = "mqa" /\ NativeMqa(c, out)
    \/ c.op = "plan" /\ NativePlan(c, out)
    \/ c.op = "paged" /\ NativePaged(c, out)
    \/ c.op = "scale" /\ NativeTransform(c, out)
    \/ c.op = "gemm" /\ NativeGemm(c, out)
DriverAccepts(c) ==
    /\ Describable(c) /\ Smem(c) <= SmemCapacity
    /\ c.op = "gemm" => c.sms % ClusterSize(ConfigOf(c).tile) = 0

-----------------------------------------------------------------------------
(* What Rust makes of it: the checks of the crate, then those of the C API's layout *)
(* function; a binding also has the plan to compare with the cache. *)

Accepts(c) ==
    \/ c.op = "mqa" /\ AcceptsMqa(c) /\ c.q.shape[1] > 0 /\ c.kv.shape[1] > 0
    \/ c.op = "plan" /\ AcceptsPlan(c)
    \/ /\ c.op = "paged" /\ AcceptsPaged(c) /\ c.q.shape[1] > 0 /\ c.q.shape[2] > 0
       /\ c.out = FromLayout => c.plan_block_kv = c.cache.shape[2]
    \/ c.op = "scale" /\ AcceptsScale(c)
    \/ c.op = "gemm" /\ AcceptsGemm(c)

LayoutOf(c) ==
    IF c.op = "mqa"
    THEN MqaLayout(c.q.shape[1], c.kv.shape[1], c.q.shape[2], c.max_k, c.dtype)
    ELSE IF c.op = "plan" THEN MetadataLayout(c.sms)
    ELSE IF c.op = "paged"
    THEN PagedLayout(c.q.shape[1], c.q.shape[2], c.max_len, c.dtype)
    ELSE IF c.op = "scale" THEN ScaleLayout(c.mn, c.k, c.gran_k, c.dtype)
    ELSE GemmOutputLayout(c.a.shape[1], c.b.shape[1])

\* The tensor a binding returns: all of the allocation, narrowed to the logical
\* columns, or transposed and then narrowed to the logical rows.
ViewOf(c, l) ==
    IF c.op \in {"mqa", "paged"}
    THEN Tensor(l.dtype, <<l.allocation[1], l.logical[2]>>, <<l.allocation[2], 1>>)
    ELSE IF c.op = "scale"
    THEN Tensor(l.dtype, <<l.logical[1], l.allocation[1]>>, <<1, l.allocation[2]>>)
    ELSE Contiguous(l.dtype, l.allocation)

-----------------------------------------------------------------------------
(* The two kernels that spread the scale of a block over its rows.  Thread x writes *)
(* one element of the output, from the lanes of one or four elements of the input. *)

\* (mutant: columns are not padded)
BroadcastColumnDense(c, l) == c.mn
BroadcastColumn(c, l) == l.strides[2]

BroadcastWrites(c, l) ==
    LET blocks == CeilDiv(c.k, c.gran_k)
        lanes == Packing(c.dtype)
        cols == CeilDiv(blocks, lanes)
        From(row, col) ==
            {<<lane, (row \div c.gran_mn) * blocks + col * lanes + lane>> :
                lane \in {y \in 0..lanes - 1 : col * lanes + y < blocks}}
    IN  {[at |-> (x % cols) * BroadcastColumn(c, l) + (x \div cols),
          from |-> From(x \div cols, x % cols)] : x \in 0..(c.mn * cols - 1)}

-----------------------------------------------------------------------------
(* The steps of a session *)

Init ==
    /\ arch \in {"sm90", "sm100"}
    /\ session \in Session
    /\ todo = session
    /\ layout = NoLayout /\ view = NoTensor
    /\ done = <<>>
    /\ result = "none"

Call == Head(todo)
Running == result = "none" /\ todo # <<>>
Calling(op) == Running /\ layout = NoLayout /\ Call.op = op
GiveUp(r) == result' = r /\ UNCHANGED <<arch, session, todo, layout, view, done>>

\* A call is accepted in Rust, and the layout of its output computed.
Layout(op) ==
    /\ Calling(op) /\ Accepts(Call)
    /\ layout' = LayoutOf(Call)
    /\ UNCHANGED <<arch, session, todo, view, done, result>>

MqaLogits == Layout("mqa")
PagedPlan == Layout("plan")
PagedMqaLogits == Layout("paged")
PrepareScale == Layout("scale")
GemmPrepared == Layout("gemm")

Refuse ==
    /\ Running /\ layout = NoLayout /\ Call.op \notin {"raw_gemm", "raw_b"}
    /\ ~Accepts(Call)
    /\ GiveUp("refused")

RawScale(x, k, rows) == Is(x, "f32", <<rows, CeilDiv(k, 128)>>)
ScaleCall(x, mn, k, gran, dtype) ==
    [op |-> "scale", scale |-> x, mn |-> mn, k |-> k, gran_mn |-> gran, gran_k |-> 128,
     dtype |-> dtype, out |-> FromLayout, unaligned |-> {}]
GemmCall(c, aScale, bScale) ==
    [op |-> "gemm", a |-> c.a, a_scale |-> aScale, b |-> c.b, b_scale |-> bScale,
     sms |-> c.sms, out |-> FromLayout, unaligned |-> c.unaligned]

\* fp8_gemm_nt of the bindings prepares the scales itself.  It looks at those of b only
\* after it has launched the transform of those of a.
AcceptsRawA(c) ==
    LET m == c.a.shape[1]  k == c.a.shape[2]
    IN  /\ c.a.dtype = "fp8" /\ c.b.dtype = "fp8" /\ c.b_scale.dtype = "f32"
        /\ c.b.shape[2] = k
        /\ RawScale(c.a_scale, k, m)
GemmRaw ==
    /\ Calling("raw_gemm") /\ AcceptsRawA(Call)
    /\ todo' = <<ScaleCall(Call.a_scale, Call.a.shape[1], Call.a.shape[2], 1,
                           IF arch = "sm90" THEN "f32" ELSE "ue8m0"),
                 [Call EXCEPT !.op = "raw_b"]>> \o Tail(todo)
    /\ UNCHANGED <<arch, session, layout, view, done, result>>

\* The rows of b that share a scale: on SM100 each row may have its own.
\* (mutant: a block of rows always shares one)
GranularityOfBlocks(c) == 128
Granularity(c) == IF c.b_scale.shape[1] = c.b.shape[1] THEN 1 ELSE 128
AcceptsRawB(c) ==
    LET n == c.b.shape[1]  k == c.b.shape[2]
        Rows == {CeilDiv(n, 128)} \cup (IF arch = "sm100" THEN {n} ELSE {})
    IN \E rows \in Rows : RawScale(c.b_scale, k, rows)
GemmRawB ==
    /\ Calling("raw_b") /\ AcceptsRawB(Call)
    /\ todo' = (IF arch = "sm90"
                THEN <<GemmCall(Call, Returned(Len(done)), Call.b_scale)>>
                ELSE <<ScaleCall(Call.b_scale, Call.b.shape[1], Call.b.shape[2],
                                 Granularity(Call), "ue8m0"),
                       GemmCall(Call, Returned(Len(done)), Returned(Len(done) + 1))>>)
               \o Tail(todo)
    /\ UNCHANGED <<arch, session, layout, view, done, result>>

RefuseRaw ==
    /\ \/ Calling("raw_gemm") /\ ~AcceptsRawA(Call)
       \/ Calling("raw_b") /\ ~AcceptsRawB(Call)
    /\ GiveUp("refused")

\* A binding allocates the output, a caller of the crate brings it.
Allocate ==
    /\ Running /\ layout # NoLayout /\ view = NoTensor
    /\ view' = IF Call.out = FromLayout THEN ViewOf(Call, layout) ELSE Call.out
    /\ UNCHANGED <<arch, session, todo, layout, done, result>>

\* The output that the launch describes: a binding's is not the view, but the layout.
OutSpec == IF Call.out = FromLayout THEN LogicalSpec(layout) ELSE Call.out
Allocated == Running /\ view # NoTensor

RefuseOutput ==
    /\ Allocated /\ OutSpec # LogicalSpec(layout)
    /\ GiveUp("refused")

\* What is launched, and what of it a later call may use.
Launched ==
    [call |-> Call, layout |-> layout, view |-> view,
     config |-> IF Call.op = "gemm" THEN ConfigOf(Call) ELSE NoConfig]
MayLaunch ==
    /\ Allocated /\ OutSpec = LogicalSpec(layout)
    /\ LauncherAccepts(Call, OutSpec) /\ (DriverAccepts(Call) \/ Wraps(Call))

\* (mutant: the view stays for the next call)
LaunchKeepsView ==
    /\ MayLaunch
    /\ done' = Append(done, Launched)
    /\ todo' = Tail(todo)
    /\ layout' = NoLayout
    /\ UNCHANGED <<arch, session, view, result>>
Launch ==
    /\ MayLaunch
    /\ done' = Append(done, Launched)
    /\ todo' = Tail(todo)
    /\ layout' = NoLayout /\ view' = NoTensor
    /\ UNCHANGED <<arch, session, result>>

Reject ==
    /\ Allocated /\ OutSpec = LogicalSpec(layout)
    /\ ~(LauncherAccepts(Call, OutSpec) /\ DriverAccepts(Call)) \/ Wraps(Call)
    /\ GiveUp("rejected")

Finish == result = "none" /\ todo = <<>> /\ GiveUp("ok")
Finished == result # "none" /\ UNCHANGED vars

Next ==
    \/ MqaLogits \/ PagedPlan \/ PagedMqaLogits \/ PrepareScale \/ GemmPrepared
    \/ GemmRaw \/ GemmRawB
    \/ Refuse \/ RefuseRaw \/ RefuseOutput \/ Reject
    \/ Allocate \/ Launch \/ Finish \/ Finished

Spec == Init /\ [][Next]_vars

-----------------------------------------------------------------------------
(* Properties *)

IsTensor(x) ==
    /\ x.dtype \in DTypes
    /\ x.shape \in Seq(Nat) /\ x.strides \in [DOMAIN x.shape -> Nat]
IsLayout(l) ==
    /\ IsTensor(LogicalSpec(l))
    /\ l.allocation \in Seq(Nat) /\ Len(l.allocation) = 2 /\ Len(l.logical) = 2

\* The variables have their types, an output exists only for the layout it was allocated
\* for, a layout only for a call that is yet to be launched, and a session that ends
\* well launched all its calls (mqa.rs:198, gemm.rs:132).
TypeOK ==
    /\ arch \in {"sm90", "sm100"}
    /\ layout = NoLayout \/ (IsLayout(layout) /\ todo # <<>>)
    /\ view = NoTensor \/ (IsTensor(view) /\ layout # NoLayout)
    /\ \A i \in DOMAIN done : IsLayout(done[i].layout) /\ IsTensor(done[i].view)
    /\ result \in {"none", "refused", "rejected", "ok"}
    /\ result = "ok" => todo = <<>> /\ Len(done) >= Len(session)

\* The sizes of a call that the launchers pass on as 32-bit integers.
Sizes(c) ==
    IF c.op = "mqa"
    THEN {c.q.shape[1], TmaAligned(c.kv.shape[1], 4), c.max_k, c.weights.strides[1]}
    ELSE IF c.op = "plan" THEN {c.context_lens.shape[1], c.context_lens.shape[2], c.sms}
    ELSE IF c.op = "paged"
    THEN {c.q.shape[1], c.q.shape[2], c.max_len, c.weights.strides[1],
          c.block_table.strides[1], c.cache.shape[1], c.cache.strides[1]}
    ELSE IF c.op = "scale" THEN {TmaAligned(c.mn, 4), c.gran_mn, c.gran_k, ScaleGrid(c)}
    ELSE {TmaAligned(c.a.shape[1], 4), TmaAligned(c.b.shape[1], 4), c.a.shape[2]}

\* The longest rows for which SM90 finds room: the scales of b stay in shared memory, 4
\* bytes for 128 columns, next to 4 stages of the smallest tile.
DeepestK(m) ==
    LET block == IF m <= 16 THEN 16 ELSE IF m <= 32 THEN 32 ELSE 64
        t == Tile(FALSE, block, 16, 1, 1)
    IN ((Capacity - Sm90Once(0, t) - 4 * Sm90Stage(t)) \div 8) * 2 * BlockK

\* The checks of the crate and those of the launchers are two programs in two languages
\* (mqa.rs:377, deepgemm_raw_mqa.cc:1081).  What the first let through, the second or
\* the driver refuse for these reasons only.
RejectedForCause ==
    result = "rejected" =>
        \/ \E x \in Sizes(Call) : ~FitsI32(x)
        \/ \E f \in Described(Call) : ~IsAligned(Call, f)
        \/ Call.op \in {"mqa", "paged"} /\ ~Describes(Call.weights)
        \/ /\ Call.op = "paged" /\ Call.q_scale = NoTensor
           /\ Call.weights.strides[1] # Call.weights.shape[2]
        \/ Call.op = "gemm" /\ Call.a.shape[2] % 16 # 0
        \/ Call.op = "gemm" /\ arch = "sm90" /\ Call.a.shape[2] > DeepestK(Call.a.shape[1])
        \/ Wraps(Call)
        \/ Call.op = "paged" /\ (Call.cache.shape[1] = 0 \/ Call.block_table.shape[2] = 0)
        \/ Call.op = "plan" /\ ~Positive(Call.context_lens.shape)
        \/ Call.op \in {"plan", "paged"} /\ Call.sms > Sms
        \/ Call.op = "plan" /\ PlanSmem(Call) > SmemCapacity
        \/ Call.op = "scale" /\ CeilDiv(Call.k, Call.gran_k) > 512

\* Nor does the crate refuse what the launcher would take (mqa.rs:466, mqa.rs:652,
\* deepgemm_raw_mqa.cc:1256): but for a binding, which compares a plan's block size with
\* the cache's, each call that Rust refuses is one that the launcher would refuse too.
RefusedForCause ==
    result = "refused" /\ layout = NoLayout /\ Call.op \in {"mqa", "plan", "paged", "scale", "gemm"} =>
        \/ Call.op = "mqa" /\ Call.q.shape[2] = 0
        \/ Call.op = "scale" /\ Call.gran_k = 0
        \/ /\ Call.op = "paged" /\ Call.out = FromLayout
           /\ Call.plan_block_kv # Call.cache.shape[2]
        \/ ~LauncherAccepts(Call, LogicalSpec(LayoutOf(Call)))

\* What a launch may write, in elements: mqa logits go in whole blocks of 128 heads, in
\* rows of the stride that the launcher computed for itself.
Footprint(c) ==
    IF c.op = "mqa"
    THEN AlignUp(c.q.shape[1], 128 \div c.q.shape[2])
            * MqaStride(c.kv.shape[1], c.max_k, c.dtype)
    ELSE IF c.op = "plan" THEN (c.sms + 1) * 2
    ELSE IF c.op = "paged"
    THEN c.q.shape[1] * c.q.shape[2] * PagedStride(c.max_len, c.dtype)
    ELSE IF c.op = "scale"
    THEN CeilDiv(CeilDiv(c.k, c.gran_k), Packing(c.dtype))
            * TmaAligned(c.mn, ElemSize(c.dtype))
    ELSE c.a.shape[1] * c.b.shape[1]

\* Of every output that a binding allocated from the layout of the C API, the kernel
\* writes no element outside of it, and the view that is returned reaches none either,
\* holds the logical tensor and has the strides the kernel wrote with
\* (deepgemm_c_api.cc:246, deepgemm_raw_mqa.cc:148, candle-deepgemm mqa.rs:232).
OutputFits ==
    \A i \in DOMAIN done :
        LET c == done[i].call  l == done[i].layout  v == done[i].view
            Size == l.allocation[1] * l.allocation[2]
        IN c.out = FromLayout =>
              /\ Footprint(c) <= Size
              /\ (v.shape[1] - 1) * v.strides[1] + (v.shape[2] - 1) * v.strides[2] < Size
              /\ v.strides = l.strides
              /\ v.shape[1] >= l.logical[1] /\ v.shape[2] = l.logical[2]

\* The element of the input that lane y of element (i, j) of a scale stands for.
RawElement(c, i, j, y) ==
    (i \div c.gran_mn) * c.scale.strides[1]
        + (j * Packing(c.dtype) + y) * c.scale.strides[2]

\* Each element of the view is written exactly once, and nothing else.
FillsView(c, l, v) ==
    LET Lanes(j) == {y \in 0..Packing(c.dtype) - 1 : j * Packing(c.dtype) + y < c.scale.shape[2]}
        Element(row, col) ==
            [at |-> row * v.strides[1] + col * v.strides[2],
             from |-> {<<y, RawElement(c, row, col, y)>> : y \in Lanes(col)}]
        Writes == BroadcastWrites(c, l)
    IN /\ Writes = {Element(row, col) : row \in 0..v.shape[1] - 1, col \in 0..v.shape[2] - 1}
       /\ Cardinality({w.at : w \in Writes}) = v.shape[1] * v.shape[2]

\* The kernels that spread block scales (deepgemm_raw_gemm.cc:357) write each element
\* of the view that is returned exactly once, with the scales of its own row and its own
\* columns, and nothing else: not the padding, and not what belongs to other rows.
BroadcastFillsView ==
    \A i \in DOMAIN done :
        LET c == done[i].call
        IN c.op = "scale" /\ c.gran_mn # 1 => FillsView(c, done[i].layout, done[i].view)

\* The contract that the documentation of fp8_gemm_nt states, and the four limits
\* that it does not.
Documented(c) ==
    LET m == c.a.shape[1]  k == c.a.shape[2]  n == c.b.shape[1]
    IN  /\ NativeIs(c.a, "fp8", <<m, k>>) /\ NativeIs(c.b, "fp8", <<n, k>>)
        /\ Is(c.a_scale, "f32", <<m, CeilDiv(k, 128)>>)
        /\ \/ Is(c.b_scale, "f32", <<CeilDiv(n, 128), CeilDiv(k, 128)>>)
           \/ arch = "sm100" /\ Is(c.b_scale, "f32", <<n, CeilDiv(k, 128)>>)
WithinLimits(c) ==
    /\ c.b.shape[1] % 8 = 0
    /\ c.a.shape[2] % 16 = 0 /\ c.a.shape[2] <= 512 * 128
    /\ \A x \in {TmaAligned(c.a.shape[1], 4), TmaAligned(c.b.shape[1], 4)} : FitsI32(x)
    /\ {"a", "b"} \cap c.unaligned = {}

\* A GEMM on raw scales is three calls in one (candle-deepgemm gemm.rs:36), each checked
\* on its own after the ones before it were launched.  If it keeps to its contract
\* and to these limits none of them is refused, by Rust, by a launcher or by the driver,
\* and it returns BF16 [m, n].
RawGemmIsLaunched ==
    \A c \in {session[i] : i \in DOMAIN session} :
        Len(session) = 1 /\ c.op = "raw_gemm" /\ Documented(c) /\ WithinLimits(c) =>
            /\ result \notin {"refused", "rejected"}
            /\ result = "ok" =>
                  done[Len(done)].view = Contiguous("bf16", <<c.a.shape[1], c.b.shape[1]>>)

\* A GEMM that was launched, with the shape its kernel was chosen for.
Gemms == {i \in DOMAIN done : done[i].call.op = "gemm"}
M(i) == done[i].call.a.shape[1]
N(i) == done[i].call.b.shape[1]
K(i) == done[i].call.a.shape[2]
SmsOf(i) == done[i].call.sms

\* What is launched can overlap copies with math: there are 3 stages at least next to the
\* output and, on SM90, to the scales of b, which grow with k; and an SM holds them
\* (deepgemm_raw_gemm.cc:437; SM100 takes the quotient as it comes, line 598).
PipelineIsDeep ==
    \A i \in Gemms :
        LET p == done[i].config.pipeline IN p.stages >= 3 /\ p.smem <= Capacity

\* What makes a tile good, most important first, the lesser the better.
Merits(i, t) ==
    LET waves == Waves(M(i), N(i), SmsOf(i), t)
    IN IF arch = "sm90"
       THEN IF ClusterSize(t) > 1 /\ waves = 1 THEN <<1, 0>>
            ELSE <<0, Cycles(M(i), N(i), K(i), SmsOf(i), t)>>
       ELSE <<IF waves = 1 THEN 0 ELSE 1, -ClusterSize(t), waves,
              -LastWave(M(i), N(i), SmsOf(i), t), t.block_m + t.block_n, t.block_m * t.block_n>>
Precedes(x, y) ==
    \E i \in DOMAIN x : x[i] < y[i] /\ \A j \in 1..i - 1 : x[j] = y[j]

\* The scan of the candidates (deepgemm_raw_gemm.cc:549 and 731) compares each with the
\* best so far only, and on SM100 by a ladder of criteria, one of them conditional: it
\* is right if that is an order.  No candidate has more merit than the tile launched.
ChosenIsBest ==
    \A i \in Gemms :
        LET tiles == Range(Candidates(arch, M(i), N(i), K(i), SmsOf(i)))
            chosen == done[i].config.tile
        IN chosen \in tiles /\ \A t \in tiles : ~Precedes(Merits(i, t), Merits(i, chosen))

\* The source of a kernel identifies it (in memory and on disk), and what its launch says
\* of shared memory, threads and clusters is computed apart from it (deepgemm_raw_gemm.cc:898):
\* launches of equal sources agree on them, and on the boxes that TMA fills and empties.
SameCodeSameLaunch ==
    \A i, j \in Gemms :
        LET CodeOf(l) == Code(arch, N(l), K(l), SmsOf(l), done[l].config)
            WordsOf(l) == <<Attributes(done[l].config), Boxes(arch, done[l].config)>>
        IN CodeOf(i) = CodeOf(j) => WordsOf(i) = WordsOf(j)

\* The rows a transform writes: one that does not spread blocks is told how many there
\* are in 32 bits, and only their number of blocks is checked.
RowsWritten(c) == IF c.gran_mn = 1 THEN c.mn % (2 * (I32Max + 1)) ELSE c.mn

\* A GEMM reads a row of scales for each row of its operands.  Those that it takes from a
\* transform of the session were written by it (deepgemm_raw_gemm.cc:1142, 1186).
ScalesReadAreWritten ==
    \A i \in Gemms :
        \A read \in {<<done[i].call.a_scale, M(i)>>, <<done[i].call.b_scale, N(i)>>} :
            read[1].dtype = "returned" =>
                LET c == done[read[1].call].call
                IN c.op = "scale" /\ read[2] <= RowsWritten(c)

\* "Returns a padded-stride logits view shaped [seq_len, seq_len_kv], or [seq_len,
\* max_seqlen_k]" (candle-deepgemm mqa.rs:184): what a binding returns is the logical
\* tensor of the layout.
ReturnsPromisedShape ==
    \A i \in DOMAIN done :
        done[i].call.out = FromLayout => done[i].view = LogicalSpec(done[i].layout)
=============================================================================
