----------------------------- MODULE Contracts_proofs -----------------------------
(***************************************************************************)
(* What holds of every session of calls, for every shape, dtype, stride and    *)
(* number of SMs: outputs are large enough for what kernels write, the kernel of  *)
(* a GEMM is a best one, the scales it reads were written, and scales that are   *)
(* spread over rows fill their view.  What one of the two validators takes, the  *)
(* other takes too, but for the named causes; so a GEMM on raw scales that keeps *)
(* to its contract is launched.                                                *)
(*                                                                         *)
(* The invariant, SessionInv, follows a call from the checks of the crate to its *)
(* launch: a layout is that of the current call, which was accepted; a view is   *)
(* what was allocated for it; a launch has what its call was given.  A call uses   *)
(* what was launched before it, also where a raw GEMM was replaced by the two or  *)
(* three calls it is made of.                                                 *)
(***************************************************************************)
EXTENDS Contracts, GemmChoice_proofs, FiniteSetTheorems

-----------------------------------------------------------------------------
(* Products of shapes *)

\* A fold over no index, and over one.
LEMMA ProductOfNone ==
    ASSUME NEW shape
    PROVE  Product(shape, {}) = 1
<1> DEFINE Step(f) == [s \in SUBSET {} |->
              IF s = {} THEN 1 ELSE shape[CHOOSE x \in s : TRUE] * f[s \ {CHOOSE x \in s : TRUE}]]
           f == CHOOSE f : f = Step(f)
<1>1. Product(shape, {}) = f[{}]
  BY Zenon DEF Product, FoldFunctionOnSet, MapThenFoldSet
<1>2. \E g : g = Step(g)
  <2> DEFINE g == [s \in SUBSET {} |-> 1]
  <2>1. g = Step(g)
    OBVIOUS
  <2> HIDE DEF g, Step
  <2>2. QED BY <2>1, Zenon
<1>3. f = Step(f)
  <2> HIDE DEF Step
  <2>1. QED BY <1>2, Zenon
<1>4. {} \in SUBSET {}
  OBVIOUS
<1> HIDE DEF f
<1>5. f[{}] = 1
  BY <1>3, <1>4, Zenon
<1>6. QED BY <1>1, <1>5

LEMMA ProductOfOne ==
    ASSUME NEW shape, NEW p, shape[p] \in Nat
    PROVE  Product(shape, {p}) = shape[p]
<1> DEFINE Some(s) == CHOOSE x \in s : TRUE
           Unfolded(s, f) == IF s = {} THEN 1 ELSE shape[Some(s)] * f[s \ {Some(s)}]
           f == CHOOSE f : f = [s \in SUBSET {p} |-> Unfolded(s, f)]
<1>1. Product(shape, {p}) = f[{p}]
  BY Zenon DEF Product, FoldFunctionOnSet, MapThenFoldSet
<1>2. /\ \A s \in SUBSET {p} : s = {} \/ s = {p}
      /\ {} \in SUBSET {p} /\ {p} \in SUBSET {p} /\ {p} # {} /\ {p} \ {p} = {}
  OBVIOUS
<1>3. Some({p}) = p
  OBVIOUS
<1>4. \A g : Unfolded({}, g) = 1 /\ Unfolded({p}, g) = shape[p] * g[{}]
  <2> HIDE DEF Some
  <2>1. QED BY <1>2, <1>3, Zenon
<1>5. \E g : g = [s \in SUBSET {p} |-> Unfolded(s, g)]
  <2> DEFINE g == [s \in SUBSET {p} |-> IF s = {} THEN 1 ELSE shape[p] * 1]
  <2>1. g[{}] = 1 /\ g[{p}] = shape[p] * 1
    BY <1>2, Zenon
  <2>2. g = [s \in SUBSET {p} |-> g[s]]
    OBVIOUS
  <2> HIDE DEF g, Unfolded
  <2>3. ASSUME NEW s \in SUBSET {p} PROVE g[s] = Unfolded(s, g)
    <3>1. CASE s = {} BY <1>4, <2>1, <3>1
    <3>2. CASE s = {p} BY <1>4, <2>1, <3>2
    <3>3. QED BY <1>2, <3>1, <3>2
  <2>4. g = [s \in SUBSET {p} |-> Unfolded(s, g)]
    BY <2>2, <2>3, Zenon
  <2>5. QED BY <2>4, Zenon
<1>6. f = [s \in SUBSET {p} |-> Unfolded(s, f)]
  <2> HIDE DEF Unfolded
  <2>1. QED BY <1>5, Zenon
<1> HIDE DEF f, Unfolded
<1>7. f[{}] = Unfolded({}, f) /\ f[{p}] = Unfolded({p}, f)
  <2>1. PICK D : D = SUBSET {p}
    OBVIOUS
  <2>2. f = [s \in D |-> Unfolded(s, f)]
    BY <1>6, <2>1, Zenon
  <2>3. {} \in D /\ {p} \in D
    BY <1>2, <2>1, Zenon
  <2>4. QED BY <2>2, <2>3, Zenon
<1>8. f[{}] = 1 /\ f[{p}] = shape[p] * f[{}]
  BY <1>4, <1>7, Zenon
<1>9. shape[p] * 1 = shape[p]
  OBVIOUS
<1>10. QED BY <1>1, <1>8, <1>9, Zenon

LEMMA RowMajorOfPair ==
    ASSUME NEW x \in Nat, NEW y \in Nat
    PROVE  RowMajor(<<x, y>>) = <<y, 1>>
<1> DEFINE s == <<x, y>>
<1>1. DOMAIN s = {1, 2} /\ s[2] = y
  OBVIOUS
<1>2. {j \in {1, 2} : j > 1} = {2} /\ {j \in {1, 2} : j > 2} = {}
  OBVIOUS
<1>3. Product(s, {2}) = y /\ Product(s, {}) = 1
  BY <1>1, ProductOfOne, ProductOfNone
<1>4. RowMajor(s) = [i \in {1, 2} |-> Product(s, {j \in {1, 2} : j > i})]
  <2> HIDE DEF s
  <2>1. QED BY <1>1, Zenon DEF RowMajor
<1> HIDE DEF s
<1>5. RowMajor(s)[1] = y /\ RowMajor(s)[2] = 1 /\ DOMAIN RowMajor(s) = {1, 2}
  BY <1>2, <1>3, <1>4
<1>6. RowMajor(s) = [i \in {1, 2} |-> RowMajor(s)[i]]
  BY <1>4, Zenon
<1>7. <<y, 1>> = [i \in {1, 2} |-> <<y, 1>>[i]]
  OBVIOUS
<1>8. \A i \in {1, 2} : RowMajor(s)[i] = <<y, 1>>[i]
  BY <1>5
<1> DEFINE r == RowMajor(s)
<1> HIDE DEF r
<1>9. QED BY <1>6, <1>7, <1>8, Zenon DEF r, s

-----------------------------------------------------------------------------
(* Alignments *)

LEMMA TmaAlignedIsAligned ==
    ASSUME NEW x \in Nat
    PROVE  /\ TmaAligned(x, 4) = AlignUp(x, 4)
           /\ AlignUp(x, 4) \in Nat /\ x <= AlignUp(x, 4) /\ (x > 0 => AlignUp(x, 4) > 0)
  BY DEF TmaAligned, AlignUp, CeilDiv

-----------------------------------------------------------------------------
(* Calls *)

Pending == AnyCall \cup AnyRaw("raw_b")
Ops == {"mqa", "plan", "paged", "scale", "gemm"}

\* The op of a call says which of the sets it is in.
LEMMA OpsOfCalls ==
    /\ \A c \in AnyMqa : c.op = "mqa"
    /\ \A c \in AnyPlan : c.op = "plan"
    /\ \A c \in AnyPaged : c.op = "paged"
    /\ \A c \in AnyScale : c.op = "scale"
    /\ \A c \in AnyGemm : c.op = "gemm"
    /\ \A c \in AnyRaw("raw_gemm") : c.op = "raw_gemm"
    /\ \A c \in AnyRaw("raw_b") : c.op = "raw_b"
<1>1. \A c \in AnyMqa : c.op = "mqa"
  BY Zenon DEF AnyMqa
<1>2. \A c \in AnyPlan : c.op = "plan"
  BY Zenon DEF AnyPlan
<1>3. \A c \in AnyPaged : c.op = "paged"
  BY Zenon DEF AnyPaged
<1>4. \A c \in AnyScale : c.op = "scale"
  BY Zenon DEF AnyScale
<1>5. \A c \in AnyGemm : c.op = "gemm"
  BY Zenon DEF AnyGemm
<1>6. \A op : \A c \in AnyRaw(op) : c.op = op
  BY Zenon DEF AnyRaw
<1>7. QED BY <1>1, <1>2, <1>3, <1>4, <1>5, <1>6, Zenon

LEMMA CallsByOp ==
    ASSUME NEW c \in Pending
    PROVE  /\ c.op = "mqa" => c \in AnyMqa
           /\ c.op = "plan" => c \in AnyPlan
           /\ c.op = "paged" => c \in AnyPaged
           /\ c.op = "scale" => c \in AnyScale
           /\ c.op = "gemm" => c \in AnyGemm
           /\ c.op = "raw_gemm" => c \in AnyRaw("raw_gemm")
           /\ c.op = "raw_b" => c \in AnyRaw("raw_b")
           /\ c.op \in Ops \cup {"raw_gemm", "raw_b"}
<1>1. \/ c \in AnyMqa \/ c \in AnyPlan \/ c \in AnyPaged \/ c \in AnyScale
      \/ c \in AnyGemm \/ c \in AnyRaw("raw_gemm") \/ c \in AnyRaw("raw_b")
  BY Zenon DEF Pending, AnyCall
<1>2. QED BY <1>1, OpsOfCalls DEF Ops

HeadCounts == {8, 16, 32, 64}
ScaleDTypes == {"f32", "ue8m0"}

\* What a call must be for the layout of its output to make sense; the checks of the crate
\* ask for it.
Ready(c) ==
    /\ c.op \in Ops
    /\ c.op = "mqa" => c.dtype \in LogitsDType /\ c.q.shape[2] \in HeadCounts
    /\ c.op = "paged" => c.dtype \in LogitsDType /\ c.max_len > 0
    /\ c.op = "scale" =>
          /\ c.mn > 0 /\ c.k > 0 /\ c.gran_mn > 0 /\ c.gran_k > 0
          /\ c.dtype \in ScaleDTypes
    /\ c.op = "gemm" => c.a.shape[1] > 0 /\ c.b.shape[1] > 0 /\ c.a.shape[2] > 0

LEMMA AcceptedIsReady ==
    ASSUME NEW c, Accepts(c)
    PROVE  Ready(c)
<1>1. CASE c.op = "mqa"
  <2>1. AcceptsMqa(c)
    BY <1>1, Zenon DEF Accepts
  <2>2. c.dtype \in LogitsDType
    BY <2>1, Zenon DEF AcceptsMqa
  <2>3. SupportsHeads(c.q_scale # NoTensor, c.q.shape[2], HeadDim(c.q_scale # NoTensor, c.q.shape[3]))
    BY <2>1, Zenon DEF AcceptsMqa
  <2>4. c.q.shape[2] \in HeadCounts
    BY <2>3, Zenon DEF SupportsHeads, HeadCounts
  <2>5. QED BY <1>1, <2>2, <2>4 DEF Ready, Ops
<1>2. CASE c.op = "plan"
  BY <1>2 DEF Ready, Ops
<1>3. CASE c.op = "paged"
  <2>1. AcceptsPaged(c)
    BY <1>3, Zenon DEF Accepts
  <2>2. c.dtype \in LogitsDType /\ c.max_len > 0
    BY <2>1, Zenon DEF AcceptsPaged
  <2>3. QED BY <1>3, <2>2 DEF Ready, Ops
<1>4. CASE c.op = "scale"
  <2>1. AcceptsScale(c)
    BY <1>4, Zenon DEF Accepts
  <2>2. /\ c.mn > 0 /\ c.k > 0 /\ c.gran_mn > 0 /\ c.gran_k > 0
        /\ c.dtype \in ScaleDTypes
    BY <2>1, Zenon DEF AcceptsScale, ScaleDTypes
  <2>3. QED BY <1>4, <2>2 DEF Ready, Ops
<1>5. CASE c.op = "gemm"
  <2>1. AcceptsGemm(c)
    BY <1>5, Zenon DEF Accepts
  <2>2. c.a.shape[1] > 0 /\ c.b.shape[1] > 0 /\ c.a.shape[2] > 0
    BY <2>1, Zenon DEF AcceptsGemm
  <2>3. QED BY <1>5, <2>2 DEF Ready, Ops
<1>6. QED BY <1>1, <1>2, <1>3, <1>4, <1>5, Zenon DEF Accepts

-----------------------------------------------------------------------------
(* Layouts and views *)

LayoutSet ==
    [dtype : DTypes, logical : [1..2 -> Nat], allocation : [1..2 -> Nat], strides : [1..2 -> Nat]]

LEMMA Pairs ==
    ASSUME NEW x \in Nat, NEW y \in Nat
    PROVE  <<x, y>> \in [1..2 -> Nat] /\ <<x, y>>[1] = x /\ <<x, y>>[2] = y
  OBVIOUS

LEMMA Shapes ==
    ASSUME NEW rank \in Nat, NEW x \in Tensors(rank), NEW i \in Nat, 1 <= i, i <= rank
    PROVE  x.shape[i] \in Nat /\ x.strides[i] \in Nat
  BY DEF Tensors

LEMMA FillIsLayout ==
    ASSUME NEW dtype \in DTypes, NEW rows \in Nat, NEW cols \in Nat,
           NEW allocRows \in Nat, NEW allocCols \in Nat
    PROVE  Fill2D(dtype, rows, cols, allocRows, allocCols) \in LayoutSet
<1>1. /\ <<rows, cols>> \in [1..2 -> Nat] /\ <<allocRows, allocCols>> \in [1..2 -> Nat]
      /\ <<allocCols, 1>> \in [1..2 -> Nat]
  <2>1. 1 \in Nat
    OBVIOUS
  <2>2. QED BY <2>1, Pairs, Zenon
<1>2. QED BY <1>1, Zenon DEF Fill2D, Layout2D, LayoutSet

\* The numbers that the layout of a logits tensor is made of.
LogitsCols(kv, maxK) == IF maxK = 0 THEN kv ELSE maxK

LEMMA MqaRows ==
    ASSUME NEW seq \in Nat, NEW heads \in HeadCounts
    PROVE  AlignUp(seq, 128 \div heads) \in Nat /\ AlignUp(seq, 128 \div heads) >= seq
<1>1. 128 \div heads \in {16, 8, 4, 2}
  BY DEF HeadCounts
<1>2. 128 \div heads \in Nat \ {0}
  BY <1>1
<1>3. QED BY <1>2, AlignUpBounds, Zenon

LEMMA MqaStrides ==
    ASSUME NEW kv \in Nat, NEW maxK \in Nat, NEW dtype \in LogitsDType
    PROVE  /\ MqaStride(kv, maxK, dtype) \in Nat /\ MqaStride(kv, maxK, dtype) >= 256
           /\ MqaStride(kv, maxK, dtype) >= LogitsCols(kv, maxK)
<1>1. PICK a \in Nat \ {0} : a = 1024 \div ElemSize(dtype)
  BY DEF ElemSize, LogitsDType
<1> DEFINE wide == IF maxK = 0 THEN kv + 256 ELSE AlignUp(maxK, 256)
<1>2. PICK width \in Nat : width = wide /\ width >= 256 /\ width >= LogitsCols(kv, maxK)
  <2>1. wide \in Nat /\ wide >= 256 /\ wide >= LogitsCols(kv, maxK)
    BY DEF AlignUp, LogitsCols
  <2> HIDE DEF wide
  <2>2. QED BY <2>1, Zenon
<1>3. PICK stride \in Nat : stride = AlignUp(width, a) /\ stride >= width
  BY AlignUpBounds
<1>4. MqaStride(kv, maxK, dtype) = stride
  <2>1. MqaStride(kv, maxK, dtype) = AlignUp(wide, 1024 \div ElemSize(dtype))
    BY DEF MqaStride
  <2> HIDE DEF wide
  <2>2. QED BY <1>1, <1>2, <1>3, <2>1, Zenon
<1>5. stride >= 256 /\ stride >= LogitsCols(kv, maxK)
  <2>1. LogitsCols(kv, maxK) \in Nat
    BY DEF LogitsCols
  <2>2. QED BY <1>2, <1>3, <2>1
<1>6. QED BY <1>3, <1>4, <1>5

LEMMA MqaLayoutIsFilled ==
    ASSUME NEW seq, NEW kv \in Nat, NEW heads, NEW maxK \in Nat, NEW dtype
    PROVE  MqaLayout(seq, kv, heads, maxK, dtype)
              = Fill2D(dtype, seq, LogitsCols(kv, maxK), AlignUp(seq, 128 \div heads),
                       MqaStride(kv, maxK, dtype))
  BY DEF MqaLayout, MqaStride, LogitsCols

LEMMA PagedNumbers ==
    ASSUME NEW maxLen \in Nat, maxLen > 0, NEW dtype \in LogitsDType
    PROVE  /\ PagedStride(maxLen, dtype) \in Nat /\ PagedStride(maxLen, dtype) >= 256
           /\ PagedStride(maxLen, dtype) >= maxLen
<1>1. PICK a \in Nat \ {0} : a = 1024 \div ElemSize(dtype)
  BY DEF ElemSize, LogitsDType
<1>2. PICK width \in Nat : width = AlignUp(maxLen, 256) /\ width >= 256 /\ width >= maxLen
  <2> DEFINE wide == AlignUp(maxLen, 256)
  <2>1. wide \in Nat /\ wide >= 256 /\ wide >= maxLen
    BY DEF AlignUp
  <2> HIDE DEF wide
  <2>2. QED BY <2>1, Zenon DEF wide
<1>3. PICK stride \in Nat : stride = AlignUp(width, a) /\ stride >= width
  BY AlignUpBounds
<1>4. PagedStride(maxLen, dtype) = stride
  <2>1. PagedStride(maxLen, dtype) = AlignUp(AlignUp(maxLen, 256), 1024 \div ElemSize(dtype))
    BY DEF PagedStride
  <2>2. QED BY <1>1, <1>2, <1>3, <2>1, Zenon
<1>5. QED BY <1>2, <1>3, <1>4

LEMMA ScaleNumbers ==
    ASSUME NEW mn \in Counts, NEW k \in Counts, NEW gran \in Counts, NEW dtype \in ScaleDTypes
    PROVE  /\ CeilDiv(k, gran * Packing(dtype)) \in Counts
           /\ AlignUp(mn, 16 \div ElemSize(dtype)) \in Nat
           /\ AlignUp(mn, 16 \div ElemSize(dtype)) >= mn
           /\ TmaAligned(mn, ElemSize(dtype)) = AlignUp(mn, 16 \div ElemSize(dtype))
           /\ CeilDiv(CeilDiv(k, gran), Packing(dtype)) = CeilDiv(k, gran * Packing(dtype))
<1>0. mn \in Nat \ {0} /\ k \in Nat \ {0} /\ gran \in Nat \ {0}
  BY DEF Counts
<1>1. ElemSize(dtype) = 4 /\ 16 \div 4 = 4
  BY DEF ElemSize, ScaleDTypes
<1>2. Packing(dtype) \in {1, 4}
  BY DEF Packing
<1>3. /\ AlignUp(mn, 4) \in Nat /\ AlignUp(mn, 4) >= mn
      /\ TmaAligned(mn, 4) = AlignUp(mn, 4)
  BY <1>0, TmaAlignedIsAligned
<1>4. gran * Packing(dtype) \in Nat \ {0}
  BY <1>0, <1>2
<1>5. CeilDiv(k, gran * Packing(dtype)) \in Counts
  <2>1. k \in Nat /\ k # 0
    BY <1>0
  <2>2. QED BY <1>4, <2>1, CeilDivBounds, Zenon DEF Counts
<1>6. CeilDiv(CeilDiv(k, gran), Packing(dtype)) = CeilDiv(k, gran * Packing(dtype))
  <2>1. CASE Packing(dtype) = 1
    <3>1. CeilDiv(k, gran) \in Nat
      BY <1>0, CeilDivBounds
    <3>2. CeilDiv(CeilDiv(k, gran), 1) = CeilDiv(k, gran)
      BY <3>1 DEF CeilDiv
    <3>3. gran * 1 = gran
      BY <1>0
    <3>4. QED BY <2>1, <3>2, <3>3
  <2>2. CASE Packing(dtype) = 4
    <3> DEFINE q == CeilDiv(k, gran)
               p == CeilDiv(k, gran * 4)
    <3>1. q \in Nat /\ (q - 1) * gran < k /\ k <= q * gran
      BY <1>0 DEF CeilDiv
    <3>2. p \in Nat /\ (p - 1) * (gran * 4) < k /\ k <= p * (gran * 4)
      BY <1>0 DEF CeilDiv
    <3> HIDE DEF q, p
    <3>3. (p - 1) * (gran * 4) = (4 * (p - 1)) * gran /\ p * (gran * 4) = (4 * p) * gran
      BY <1>0, <3>2
    <3>4. \A x, y \in Int : x * gran < y * gran => x < y
      BY <1>0
    <3>5. 4 * (p - 1) < q
      <4>1. (4 * (p - 1)) * gran < q * gran
        BY <1>0, <3>1, <3>2, <3>3
      <4>2. QED BY <3>1, <3>2, <3>4, <4>1
    <3>6. q - 1 < 4 * p
      <4>1. (q - 1) * gran < (4 * p) * gran
        BY <1>0, <3>1, <3>2, <3>3
      <4>2. QED BY <3>1, <3>2, <3>4, <4>1
    <3>7. CeilDiv(q, 4) = p
      BY <3>1, <3>2, <3>5, <3>6 DEF CeilDiv
    <3>8. QED BY <2>2, <3>7, Zenon DEF q, p
  <2>3. QED BY <1>2, <2>1, <2>2
<1>7. QED BY <1>1, <1>3, <1>5, <1>6, Zenon

\* What OutputFits says of one launch.
FitsAt(c, l, v) ==
    /\ Footprint(c) <= l.allocation[1] * l.allocation[2]
    /\ (v.shape[1] - 1) * v.strides[1] + (v.shape[2] - 1) * v.strides[2]
          < l.allocation[1] * l.allocation[2]
    /\ v.strides = l.strides
    /\ v.shape[1] >= l.logical[1] /\ v.shape[2] = l.logical[2]

LEMMA RowsFit ==
    ASSUME NEW c, NEW dtype, NEW rows \in Nat, NEW cols \in Nat,
           NEW allocRows \in Nat, NEW allocCols \in Nat,
           rows <= allocRows, cols <= allocCols, Footprint(c) = allocRows * allocCols
    PROVE  FitsAt(c, Fill2D(dtype, rows, cols, allocRows, allocCols),
                  Tensor(dtype, <<allocRows, cols>>, <<allocCols, 1>>))
<1> DEFINE l == Fill2D(dtype, rows, cols, allocRows, allocCols)
           v == Tensor(dtype, <<allocRows, cols>>, <<allocCols, 1>>)
<1>1. /\ l.allocation[1] = allocRows /\ l.allocation[2] = allocCols
      /\ l.strides = <<allocCols, 1>> /\ l.logical[1] = rows /\ l.logical[2] = cols
  BY DEF Fill2D, Layout2D
<1>2. /\ v.shape[1] = allocRows /\ v.shape[2] = cols /\ v.strides = <<allocCols, 1>>
      /\ v.strides[1] = allocCols /\ v.strides[2] = 1
  BY DEF Tensor
<1> HIDE DEF l, v
<1>3. (allocRows - 1) * allocCols + (cols - 1) * 1 < allocRows * allocCols
  <2>1. (allocRows - 1) * allocCols = allocRows * allocCols - allocCols
    OBVIOUS
  <2>2. allocRows * allocCols \in Nat
    OBVIOUS
  <2>3. QED BY <2>1, <2>2
<1>4. allocRows * allocCols \in Nat
  OBVIOUS
<1>5. FitsAt(c, l, v)
  BY <1>1, <1>2, <1>3, <1>4 DEF FitsAt
<1>6. QED BY <1>5 DEF l, v

LEMMA MqaFits ==
    ASSUME NEW c \in AnyMqa, Ready(c)
    PROVE  /\ LayoutOf(c) \in LayoutSet
           /\ FitsAt(c, LayoutOf(c), ViewOf(c, LayoutOf(c)))
           /\ LayoutOf(c).strides[1] >= 256
<1>1. c.op = "mqa"
  BY OpsOfCalls, Zenon
<1>2. c.dtype \in LogitsDType /\ c.q.shape[2] \in HeadCounts
  BY <1>1, Zenon DEF Ready
<1>3. /\ c.q \in Tensors(3) /\ c.kv \in Tensors(2) /\ c.max_k \in Nat
  BY Zenon DEF AnyMqa
<1>4. PICK seq \in Nat, kv \in Nat, maxK \in Nat, heads \in HeadCounts, dtype \in LogitsDType :
         /\ seq = c.q.shape[1] /\ kv = c.kv.shape[1] /\ maxK = c.max_k
         /\ heads = c.q.shape[2] /\ dtype = c.dtype
  <2>1. c.q.shape[1] \in Nat /\ c.kv.shape[1] \in Nat
    BY <1>3, Shapes
  <2>2. QED BY <1>2, <1>3, <2>1, Zenon
<1>5. PICK rows \in Nat : rows = AlignUp(seq, 128 \div heads) /\ rows >= seq
  BY MqaRows, Zenon
<1>6. PICK stride \in Nat : /\ stride = MqaStride(kv, maxK, dtype) /\ stride >= 256
                           /\ stride >= LogitsCols(kv, maxK)
  BY MqaStrides, Zenon
<1>7. PICK cols \in Nat : cols = LogitsCols(kv, maxK) /\ cols <= stride
  <2>1. LogitsCols(kv, maxK) \in Nat
    BY DEF LogitsCols
  <2>2. LogitsCols(kv, maxK) <= stride
    BY <1>6, <2>1
  <2>3. QED BY <2>1, <2>2, Zenon
<1>8. LayoutOf(c) = Fill2D(dtype, seq, cols, rows, stride)
  <2>1. LayoutOf(c) = MqaLayout(seq, kv, heads, maxK, dtype)
    BY <1>1, <1>4, Zenon DEF LayoutOf
  <2>2. MqaLayout(seq, kv, heads, maxK, dtype)
            = Fill2D(dtype, seq, LogitsCols(kv, maxK), AlignUp(seq, 128 \div heads),
                     MqaStride(kv, maxK, dtype))
    BY MqaLayoutIsFilled
  <2>3. QED BY <1>5, <1>6, <1>7, <2>1, <2>2, Zenon
<1>9. Footprint(c) = rows * stride
  BY <1>1, <1>4, <1>5, <1>6, Zenon DEF Footprint
<1> DEFINE l == Fill2D(dtype, seq, cols, rows, stride)
<1>10. l \in LayoutSet
  <2>1. dtype \in DTypes
    BY DEF LogitsDType, DTypes
  <2>2. QED BY <2>1, FillIsLayout
<1>11. /\ l.dtype = dtype /\ l.allocation[1] = rows /\ l.allocation[2] = stride
       /\ l.logical[2] = cols /\ l.strides[1] = stride
  BY DEF Fill2D, Layout2D
<1>12. ViewOf(c, l) = Tensor(dtype, <<rows, cols>>, <<stride, 1>>)
  <2> HIDE DEF l
  <2>1. QED BY <1>1, <1>11, Zenon DEF ViewOf
<1>13. FitsAt(c, l, Tensor(dtype, <<rows, cols>>, <<stride, 1>>))
  BY <1>5, <1>7, <1>9, RowsFit
<1> HIDE DEF l
<1>14. QED BY <1>6, <1>8, <1>10, <1>11, <1>12, <1>13 DEF l

LEMMA PagedFits ==
    ASSUME NEW c \in AnyPaged, Ready(c)
    PROVE  /\ LayoutOf(c) \in LayoutSet
           /\ FitsAt(c, LayoutOf(c), ViewOf(c, LayoutOf(c)))
           /\ LayoutOf(c).strides[1] >= 256
<1>1. c.op = "paged"
  BY OpsOfCalls, Zenon
<1>2. c.dtype \in LogitsDType /\ c.max_len > 0
  BY <1>1, Zenon DEF Ready
<1>3. c.q \in Tensors(4) /\ c.max_len \in Nat
  BY Zenon DEF AnyPaged
<1>4. PICK batch \in Nat, nextN \in Nat, cols \in Nat, dtype \in LogitsDType :
         /\ batch = c.q.shape[1] /\ nextN = c.q.shape[2] /\ cols = c.max_len /\ dtype = c.dtype
  <2>1. c.q.shape[1] \in Nat /\ c.q.shape[2] \in Nat
    BY <1>3, Shapes
  <2>2. QED BY <1>2, <1>3, <2>1, Zenon
<1>5. PICK rows \in Nat : rows = batch * nextN
  OBVIOUS
<1>6. PICK stride \in Nat : stride = PagedStride(cols, dtype) /\ stride >= 256 /\ stride >= cols
  BY <1>2, <1>4, PagedNumbers
<1>7. LayoutOf(c) = Fill2D(dtype, rows, cols, rows, stride)
  <2>1. LayoutOf(c) = PagedLayout(batch, nextN, cols, dtype)
    BY <1>1, <1>4, Zenon DEF LayoutOf
  <2>2. PagedLayout(batch, nextN, cols, dtype)
            = Fill2D(dtype, batch * nextN, cols, batch * nextN, PagedStride(cols, dtype))
    BY Zenon DEF PagedLayout, PagedStride
  <2>3. QED BY <1>5, <1>6, <2>1, <2>2
<1>8. Footprint(c) = rows * stride
  BY <1>1, <1>4, <1>5, <1>6, Zenon DEF Footprint
<1> DEFINE l == Fill2D(dtype, rows, cols, rows, stride)
<1>9. l \in LayoutSet
  <2>1. dtype \in DTypes
    BY DEF LogitsDType, DTypes
  <2>2. QED BY <2>1, FillIsLayout
<1>10. /\ l.dtype = dtype /\ l.allocation[1] = rows /\ l.allocation[2] = stride
       /\ l.logical[2] = cols /\ l.strides[1] = stride
  BY DEF Fill2D, Layout2D
<1>11. ViewOf(c, l) = Tensor(dtype, <<rows, cols>>, <<stride, 1>>)
  <2> HIDE DEF l
  <2>1. QED BY <1>1, <1>10, Zenon DEF ViewOf
<1>12. FitsAt(c, l, Tensor(dtype, <<rows, cols>>, <<stride, 1>>))
  <2>1. rows <= rows
    OBVIOUS
  <2>2. QED BY <1>6, <1>8, <2>1, RowsFit
<1> HIDE DEF l
<1>13. QED BY <1>6, <1>7, <1>9, <1>10, <1>11, <1>12 DEF l

LEMMA DenseFits ==
    ASSUME NEW c, NEW dtype \in DTypes, NEW rows \in Nat, NEW cols \in Nat,
           Footprint(c) = rows * cols
    PROVE  LET l == Fill2D(dtype, rows, cols, rows, cols) IN
           l \in LayoutSet /\ FitsAt(c, l, Contiguous(l.dtype, l.allocation))
<1> DEFINE l == Fill2D(dtype, rows, cols, rows, cols)
<1>1. l \in LayoutSet
  BY FillIsLayout
<1>2. l.dtype = dtype /\ l.allocation = <<rows, cols>>
  BY DEF Fill2D, Layout2D
<1>3. Contiguous(dtype, <<rows, cols>>) = Tensor(dtype, <<rows, cols>>, <<cols, 1>>)
  BY RowMajorOfPair, Zenon DEF Contiguous
<1>4. FitsAt(c, l, Tensor(dtype, <<rows, cols>>, <<cols, 1>>))
  <2>1. rows <= rows /\ cols <= cols
    OBVIOUS
  <2>2. QED BY <2>1, RowsFit
<1> HIDE DEF l
<1>5. l \in LayoutSet /\ FitsAt(c, l, Contiguous(l.dtype, l.allocation))
  BY <1>1, <1>2, <1>3, <1>4, Zenon
<1>6. QED BY <1>5, Zenon DEF l

LEMMA PlanFits ==
    ASSUME NEW c \in AnyPlan
    PROVE  LayoutOf(c) \in LayoutSet /\ FitsAt(c, LayoutOf(c), ViewOf(c, LayoutOf(c)))
<1>1. c.op = "plan"
  BY OpsOfCalls, Zenon
<1>2. c.sms \in Nat
  BY Zenon DEF AnyPlan
<1>3. PICK rows \in Nat : rows = c.sms + 1
  BY <1>2
<1>4. PICK l : l = Fill2D("i32", rows, 2, rows, 2)
  OBVIOUS
<1>5. LayoutOf(c) = l
  BY <1>1, <1>3, <1>4, Zenon DEF LayoutOf, MetadataLayout
<1>6. Footprint(c) = rows * 2
  BY <1>1, <1>3, Zenon DEF Footprint
<1>7. ViewOf(c, l) = Contiguous(l.dtype, l.allocation)
  BY <1>1, Zenon DEF ViewOf
<1>8. l \in LayoutSet /\ FitsAt(c, l, Contiguous(l.dtype, l.allocation))
  <2>1. "i32" \in DTypes /\ 2 \in Nat
    BY DEF DTypes
  <2>2. QED BY <1>4, <1>6, <2>1, DenseFits, Zenon
<1>9. QED BY <1>5, <1>7, <1>8, Zenon

LEMMA GemmFits ==
    ASSUME NEW c \in AnyGemm
    PROVE  LayoutOf(c) \in LayoutSet /\ FitsAt(c, LayoutOf(c), ViewOf(c, LayoutOf(c)))
<1>1. c.op = "gemm"
  BY OpsOfCalls, Zenon
<1>2. PICK m \in Nat, n \in Nat : m = c.a.shape[1] /\ n = c.b.shape[1]
  <2>1. c.a \in Tensors(2) /\ c.b \in Tensors(2)
    BY Zenon DEF AnyGemm
  <2>2. QED BY <2>1, Shapes
<1>3. PICK l : l = Fill2D("bf16", m, n, m, n)
  OBVIOUS
<1>4. LayoutOf(c) = l
  BY <1>1, <1>2, <1>3, Zenon DEF LayoutOf, GemmOutputLayout
<1>5. Footprint(c) = m * n
  BY <1>1, <1>2, Zenon DEF Footprint
<1>6. ViewOf(c, l) = Contiguous(l.dtype, l.allocation)
  BY <1>1, Zenon DEF ViewOf
<1>7. l \in LayoutSet /\ FitsAt(c, l, Contiguous(l.dtype, l.allocation))
  <2>1. "bf16" \in DTypes
    BY DEF DTypes
  <2>2. QED BY <1>3, <1>5, <2>1, DenseFits, Zenon
<1>8. QED BY <1>4, <1>6, <1>7, Zenon

\* The numbers of a scale's layout, which its view has too.
ScaleRows(c) == AlignUp(c.mn, 16 \div ElemSize(c.dtype))
ScaleCols(c) == CeilDiv(c.k, c.gran_k * Packing(c.dtype))

LEMMA ScaleIsLaidOut ==
    ASSUME NEW c \in AnyScale, Ready(c)
    PROVE  /\ c.mn \in Counts /\ ScaleCols(c) \in Counts
           /\ ScaleRows(c) \in Nat /\ ScaleRows(c) >= c.mn
           /\ LayoutOf(c) = Layout2D(c.dtype, <<c.mn, ScaleCols(c)>>,
                                     <<ScaleCols(c), ScaleRows(c)>>, <<1, ScaleRows(c)>>)
           /\ Footprint(c) = ScaleCols(c) * ScaleRows(c)
<1>1. c.op = "scale"
  BY OpsOfCalls, Zenon
<1>2. c.dtype \in ScaleDTypes
  BY <1>1, Zenon DEF Ready
<1>3. c.mn \in Counts /\ c.k \in Counts /\ c.gran_k \in Counts
  <2>1. c.mn \in Nat /\ c.k \in Nat /\ c.gran_k \in Nat
    BY Zenon DEF AnyScale
  <2>2. c.mn > 0 /\ c.k > 0 /\ c.gran_k > 0
    BY <1>1, Zenon DEF Ready
  <2>3. QED BY <2>1, <2>2 DEF Counts
<1>4. ScaleCols(c) \in Counts
  BY <1>2, <1>3, ScaleNumbers, Zenon DEF ScaleCols
<1>5. ScaleRows(c) \in Nat
  BY <1>2, <1>3, ScaleNumbers, Zenon DEF ScaleRows
<1>6. ScaleRows(c) >= c.mn
  BY <1>2, <1>3, ScaleNumbers, Zenon DEF ScaleRows
<1>7. TmaAligned(c.mn, ElemSize(c.dtype)) = ScaleRows(c)
  BY <1>2, <1>3, ScaleNumbers, Zenon DEF ScaleRows
<1>8. CeilDiv(CeilDiv(c.k, c.gran_k), Packing(c.dtype)) = ScaleCols(c)
  BY <1>2, <1>3, ScaleNumbers DEF ScaleCols
<1>9. LayoutOf(c) = Layout2D(c.dtype, <<c.mn, ScaleCols(c)>>,
                             <<ScaleCols(c), ScaleRows(c)>>, <<1, ScaleRows(c)>>)
  BY <1>1, Zenon DEF LayoutOf, ScaleLayout, ScaleCols, ScaleRows
<1>10. Footprint(c) = CeilDiv(CeilDiv(c.k, c.gran_k), Packing(c.dtype)) * TmaAligned(c.mn, ElemSize(c.dtype))
  BY <1>1, Zenon DEF Footprint
<1>11. QED BY <1>3, <1>4, <1>5, <1>6, <1>7, <1>8, <1>9, <1>10, Zenon

LEMMA ScaleFits ==
    ASSUME NEW c \in AnyScale, Ready(c)
    PROVE  /\ LayoutOf(c) \in LayoutSet
           /\ FitsAt(c, LayoutOf(c), ViewOf(c, LayoutOf(c)))
           /\ ViewOf(c, LayoutOf(c)) = LogicalSpec(LayoutOf(c))
<1>1. c.op = "scale" /\ c.dtype \in DTypes
  BY OpsOfCalls, Zenon DEF AnyScale
<1>2. PICK mn \in Nat, cols \in Nat, rows \in Nat :
         /\ mn = c.mn /\ cols = ScaleCols(c) /\ rows = ScaleRows(c)
         /\ cols > 0 /\ rows >= mn /\ Footprint(c) = cols * rows
         /\ LayoutOf(c) = Layout2D(c.dtype, <<mn, cols>>, <<cols, rows>>, <<1, rows>>)
  <2>0. c.mn \in Counts /\ ScaleCols(c) \in Counts /\ ScaleRows(c) \in Nat /\ ScaleRows(c) >= c.mn
    BY ScaleIsLaidOut, Zenon
  <2>1. /\ c.mn \in Nat /\ ScaleCols(c) \in Nat /\ ScaleRows(c) \in Nat
        /\ ScaleCols(c) > 0 /\ ScaleRows(c) >= c.mn
    BY <2>0 DEF Counts
  <2>2. Footprint(c) = ScaleCols(c) * ScaleRows(c)
    BY ScaleIsLaidOut, Zenon
  <2>3. LayoutOf(c) = Layout2D(c.dtype, <<c.mn, ScaleCols(c)>>,
                               <<ScaleCols(c), ScaleRows(c)>>, <<1, ScaleRows(c)>>)
    BY ScaleIsLaidOut, Zenon
  <2>4. QED BY <2>1, <2>2, <2>3, Zenon
<1> DEFINE l == Layout2D(c.dtype, <<mn, cols>>, <<cols, rows>>, <<1, rows>>)
           v == Tensor(c.dtype, <<mn, cols>>, <<1, rows>>)
<1>3. l \in LayoutSet
  <2>1. /\ <<mn, cols>> \in [1..2 -> Nat] /\ <<cols, rows>> \in [1..2 -> Nat]
        /\ <<1, rows>> \in [1..2 -> Nat]
    <3>1. 1 \in Nat
      OBVIOUS
    <3>2. QED BY <3>1, Pairs, Zenon
  <2>2. QED BY <1>1, <2>1, Zenon DEF Layout2D, LayoutSet
<1>4. /\ l.dtype = c.dtype /\ l.allocation[1] = cols /\ l.allocation[2] = rows
      /\ l.logical = <<mn, cols>> /\ l.logical[1] = mn /\ l.logical[2] = cols /\ l.strides = <<1, rows>>
  BY DEF Layout2D
<1>5. /\ v.shape[1] = mn /\ v.shape[2] = cols /\ v.strides = <<1, rows>>
      /\ v.strides[1] = 1 /\ v.strides[2] = rows
  BY DEF Tensor
<1>6. (mn - 1) * 1 + (cols - 1) * rows < cols * rows
  <2>1. (cols - 1) * rows = cols * rows - rows /\ cols * rows \in Nat
    OBVIOUS
  <2>2. QED BY <1>2, <2>1
<1>7. ViewOf(c, l) = v
  <2> HIDE DEF l
  <2>1. QED BY <1>1, <1>4, Zenon DEF ViewOf
<1>8. LogicalSpec(l) = v
  <2> HIDE DEF l
  <2>1. QED BY <1>4, Zenon DEF LogicalSpec
<1> HIDE DEF l, v
<1>9. FitsAt(c, l, v)
  <2>1. cols * rows \in Nat
    OBVIOUS
  <2>2. QED BY <1>2, <1>4, <1>5, <1>6, <2>1 DEF FitsAt
<1>10. QED BY <1>2, <1>3, <1>7, <1>8, <1>9 DEF l

LEMMA ReadyFits ==
    ASSUME NEW c \in Pending, Ready(c)
    PROVE  LayoutOf(c) \in LayoutSet /\ FitsAt(c, LayoutOf(c), ViewOf(c, LayoutOf(c)))
<1>1. CASE c.op = "mqa"
  <2>1. c \in AnyMqa
    BY <1>1, CallsByOp, Zenon
  <2>2. QED BY <2>1, MqaFits, Zenon
<1>2. CASE c.op = "plan"
  <2>1. c \in AnyPlan
    BY <1>2, CallsByOp, Zenon
  <2>2. QED BY <2>1, PlanFits, Zenon
<1>3. CASE c.op = "paged"
  <2>1. c \in AnyPaged
    BY <1>3, CallsByOp, Zenon
  <2>2. QED BY <2>1, PagedFits, Zenon
<1>4. CASE c.op = "scale"
  <2>1. c \in AnyScale
    BY <1>4, CallsByOp, Zenon
  <2>2. QED BY <2>1, ScaleFits, Zenon
<1>5. CASE c.op = "gemm"
  <2>1. c \in AnyGemm
    BY <1>5, CallsByOp, Zenon
  <2>2. QED BY <2>1, GemmFits, Zenon
<1>6. QED BY <1>1, <1>2, <1>3, <1>4, <1>5, Zenon DEF Ready, Ops

LEMMA PairOf ==
    ASSUME NEW s \in [1..2 -> Nat]
    PROVE  s[1] \in Nat /\ s[2] \in Nat /\ s = <<s[1], s[2]>>
  OBVIOUS

LEMMA TensorIsTensor ==
    ASSUME NEW x \in Tensors(2)
    PROVE  IsTensor(x)
<1>1. x.dtype \in DTypes /\ x.shape \in [1..2 -> Nat] /\ x.strides \in [1..2 -> Nat]
  BY Zenon DEF Tensors
<1>2. x.shape \in Seq(Nat)
  <2>1. 2 \in Nat
    OBVIOUS
  <2>2. QED BY <1>1, <2>1, SeqOfFunction, Zenon
<1>3. DOMAIN x.shape = 1..2
  BY <1>1, Zenon
<1>4. x.strides \in [DOMAIN x.shape -> Nat]
  BY <1>1, <1>3, Zenon
<1>5. QED BY <1>1, <1>2, <1>4, Zenon DEF IsTensor

LEMMA LayoutIsLayout ==
    ASSUME NEW l \in LayoutSet
    PROVE  IsLayout(l) /\ LogicalSpec(l) \in Tensors(2) /\ l # NoLayout
<1>1. /\ l.dtype \in DTypes /\ l.logical \in [1..2 -> Nat] /\ l.allocation \in [1..2 -> Nat]
      /\ l.strides \in [1..2 -> Nat]
  BY Zenon DEF LayoutSet
<1>2. LogicalSpec(l) \in Tensors(2)
  BY <1>1, Zenon DEF LogicalSpec, Tensor, Tensors
<1>3. l.allocation \in Seq(Nat) /\ Len(l.allocation) = 2 /\ Len(l.logical) = 2
  <2>1. \A s \in [1..2 -> Nat] : s \in Seq(Nat) /\ Len(s) = 2
    OBVIOUS
  <2>2. QED BY <1>1, <2>1, Zenon
<1>4. l # NoLayout
  <2>1. "none" \notin DTypes
    BY DEF DTypes
  <2>2. NoLayout.dtype = "none"
    BY DEF NoLayout
  <2>3. QED BY <1>1, <2>1, <2>2, Zenon
<1>5. QED BY <1>2, <1>3, <1>4, TensorIsTensor, Zenon DEF IsLayout

LEMMA TensorOf ==
    ASSUME NEW dtype \in DTypes, NEW shape \in [1..2 -> Nat], NEW strides \in [1..2 -> Nat]
    PROVE  Tensor(dtype, shape, strides) \in Tensors(2)
  BY Zenon DEF Tensor, Tensors

LEMMA ViewIsTensor ==
    ASSUME NEW c, NEW l \in LayoutSet
    PROVE  ViewOf(c, l) \in Tensors(2)
<1>1. /\ l.dtype \in DTypes /\ l.logical \in [1..2 -> Nat] /\ l.allocation \in [1..2 -> Nat]
  BY Zenon DEF LayoutSet
<1>2. PICK a1 \in Nat, a2 \in Nat, l1 \in Nat, l2 \in Nat :
         /\ a1 = l.allocation[1] /\ a2 = l.allocation[2] /\ l1 = l.logical[1] /\ l2 = l.logical[2]
         /\ l.allocation = <<a1, a2>>
  BY <1>1, PairOf
<1>3. /\ <<a1, l2>> \in [1..2 -> Nat] /\ <<a2, 1>> \in [1..2 -> Nat]
      /\ <<l1, a1>> \in [1..2 -> Nat] /\ <<1, a2>> \in [1..2 -> Nat]
      /\ <<a1, a2>> \in [1..2 -> Nat]
  <2>1. 1 \in Nat
    OBVIOUS
  <2>2. QED BY <2>1, Pairs, Zenon
<1>4. CASE c.op \in {"mqa", "paged"}
  <2>1. ViewOf(c, l) = Tensor(l.dtype, <<a1, l2>>, <<a2, 1>>)
    BY <1>2, <1>4, Zenon DEF ViewOf
  <2>2. QED BY <1>1, <1>3, <2>1, TensorOf
<1>5. CASE c.op \notin {"mqa", "paged"} /\ c.op = "scale"
  <2>1. ViewOf(c, l) = Tensor(l.dtype, <<l1, a1>>, <<1, a2>>)
    BY <1>2, <1>5, Zenon DEF ViewOf
  <2>2. QED BY <1>1, <1>3, <2>1, TensorOf
<1>6. CASE c.op \notin {"mqa", "paged"} /\ c.op # "scale"
  <2>1. ViewOf(c, l) = Contiguous(l.dtype, <<a1, a2>>)
    BY <1>2, <1>6, Zenon DEF ViewOf
  <2>2. RowMajor(<<a1, a2>>) = <<a2, 1>>
    BY RowMajorOfPair
  <2>3. ViewOf(c, l) = Tensor(l.dtype, <<a1, a2>>, <<a2, 1>>)
    BY <2>1, <2>2, Zenon DEF Contiguous
  <2>4. QED BY <1>1, <1>3, <2>3, TensorOf
<1>7. QED BY <1>4, <1>5, <1>6

-----------------------------------------------------------------------------
(* Sequences of calls *)

LEMMA FirstOf ==
    ASSUME NEW S, NEW s \in Seq(S), s # <<>>
    PROVE  /\ Head(s) \in S /\ Tail(s) \in Seq(S) /\ Len(Tail(s)) = Len(s) - 1
           /\ Len(s) \in Nat /\ Len(s) >= 1 /\ Head(s) = s[1] /\ 1 \in DOMAIN s
           /\ \A i \in DOMAIN Tail(s) : i \in Nat /\ i + 1 \in DOMAIN s /\ Tail(s)[i] = s[i + 1]
  OBVIOUS

LEMMA OneBefore ==
    ASSUME NEW S, NEW s \in Seq(S), NEW a \in S, NEW t, t = <<a>> \o s
    PROVE  /\ t \in Seq(S) /\ Len(t) = Len(s) + 1 /\ t # <<>> /\ Len(s) \in Nat
           /\ t[1] = a
           /\ \A i \in DOMAIN t : i \in Nat /\ (i = 1 \/ (i - 1 \in DOMAIN s /\ t[i] = s[i - 1]))
<1>1. t \in Seq(S) /\ Len(t) = Len(s) + 1 /\ Len(s) \in Nat /\ t[1] = a
  OBVIOUS
<1>2. t # <<>>
  BY <1>1
<1>3. DOMAIN t = 1..Len(s) + 1 /\ DOMAIN s = 1..Len(s)
  BY <1>1
<1>4. \A i \in Nat : i > 1 /\ i <= Len(s) + 1 => t[i] = s[i - 1]
  OBVIOUS
<1>5. \A i \in DOMAIN t : i \in Nat /\ (i = 1 \/ (i - 1 \in DOMAIN s /\ t[i] = s[i - 1]))
  BY <1>1, <1>3, <1>4
<1>6. QED BY <1>1, <1>2, <1>5

LEMMA TwoBefore ==
    ASSUME NEW S, NEW s \in Seq(S), NEW a \in S, NEW b \in S, NEW t, t = <<a, b>> \o s
    PROVE  /\ t \in Seq(S) /\ Len(t) = Len(s) + 2 /\ t # <<>> /\ Len(s) \in Nat
           /\ t[1] = a /\ t[2] = b
           /\ \A i \in DOMAIN t :
                 i \in Nat /\ (i = 1 \/ i = 2 \/ (i - 2 \in DOMAIN s /\ t[i] = s[i - 2]))
<1>1. t \in Seq(S) /\ Len(t) = Len(s) + 2 /\ Len(s) \in Nat /\ t[1] = a /\ t[2] = b
  OBVIOUS
<1>2. t # <<>>
  BY <1>1
<1>3. DOMAIN t = 1..Len(s) + 2 /\ DOMAIN s = 1..Len(s)
  BY <1>1
<1>4. \A i \in Nat : i > 2 /\ i <= Len(s) + 2 => t[i] = s[i - 2]
  OBVIOUS
<1>5. \A i \in DOMAIN t :
         i \in Nat /\ (i = 1 \/ i = 2 \/ (i - 2 \in DOMAIN s /\ t[i] = s[i - 2]))
  BY <1>1, <1>3, <1>4
<1>6. QED BY <1>1, <1>2, <1>5

LEMMA OneAfter ==
    ASSUME NEW S, NEW s \in Seq(S), NEW a \in S, NEW t, t = Append(s, a)
    PROVE  /\ t \in Seq(S) /\ Len(t) = Len(s) + 1 /\ Len(s) \in Nat
           /\ DOMAIN s \subseteq Nat /\ DOMAIN t = DOMAIN s \cup {Len(s) + 1}
           /\ \A i \in DOMAIN s : i <= Len(s) /\ t[i] = s[i]
           /\ t[Len(s) + 1] = a
  OBVIOUS

-----------------------------------------------------------------------------
(* The invariant *)

Configs ==
    {BestConfig(f, m, n, k, sms) : f \in Families, m \in Nat, n \in Nat, k \in Nat, sms \in Nat}
    \cup {NoConfig}
Launches == [call : Pending, layout : LayoutSet, view : Tensors(2), config : Configs]

\* The kernel that is chosen for a call on a family, and what a launch is made of.
ConfigFor(family, c) == BestConfig(family, c.a.shape[1], c.b.shape[1], c.a.shape[2], c.sms)
Made(family, d) ==
    /\ Ready(d.call) /\ d.layout = LayoutOf(d.call)
    /\ d.view = IF d.call.out = FromLayout THEN ViewOf(d.call, d.layout) ELSE LogicalSpec(d.layout)
    /\ d.call.op = "gemm" => d.config = ConfigFor(family, d.call) /\ d.config # NoConfig

\* The variables have their types, and no call is lost.
TypesInv ==
    /\ arch \in Families /\ session \in Seq(AnyCall)
    /\ todo \in Seq(Pending) /\ done \in Seq(Launches)
    /\ result \in {"none", "refused", "rejected", "ok"}
    /\ result = "ok" => todo = <<>>
    /\ Len(done) + Len(todo) >= Len(session)
\* A layout is that of the current call, which the crate has accepted; a view is what was
\* allocated for it.
CurrentInv ==
    /\ layout # NoLayout => todo # <<>> /\ Ready(Head(todo)) /\ layout = LayoutOf(Head(todo))
    /\ view # NoTensor =>
          /\ layout # NoLayout
          /\ view = IF Head(todo).out = FromLayout THEN ViewOf(Head(todo), layout) ELSE Head(todo).out
\* A call uses what calls before it returned, in what was launched as in what is to come; and
\* behind the second half of a raw GEMM there is at least the first.
UsesInv ==
    /\ \A i \in DOMAIN done : UsesBefore(done[i].call, i)
    /\ \A p \in DOMAIN todo :
          /\ UsesBefore(todo[p], Len(done) + p)
          /\ todo[p].op = "raw_b" => Len(done) + p >= 2
DoneInv == \A i \in DOMAIN done : Made(arch, done[i])
SessionInv == TypesInv /\ CurrentInv /\ DoneInv /\ UsesInv

LEMMA SessionInit ==
    Init => SessionInv
<1> SUFFICES ASSUME Init PROVE SessionInv
  OBVIOUS
<1>1. /\ arch \in {"sm90", "sm100"} /\ session \in Session /\ todo = session
      /\ layout = NoLayout /\ view = NoTensor /\ done = <<>> /\ result = "none"
  BY Zenon DEF Init
<1>2. session \in Seq(AnyCall)
  BY <1>1, SessionAssumption, Zenon
<1>3. todo \in Seq(Pending)
  <2>1. AnyCall \subseteq Pending
    BY Zenon DEF Pending
  <2>2. QED BY <1>1, <1>2, <2>1
<1>4. TypesInv
  <2>1. done \in Seq(Launches) /\ Len(done) = 0
    BY <1>1
  <2>2. Len(session) \in Nat
    BY <1>2
  <2>3. arch \in Families
    BY <1>1 DEF Families
  <2>4. Len(done) + Len(todo) >= Len(session)
    BY <1>1, <2>1, <2>2
  <2>5. QED BY <1>1, <1>2, <1>3, <2>1, <2>3, <2>4 DEF TypesInv
<1>5. CurrentInv
  BY <1>1 DEF CurrentInv
<1>6. DoneInv
  BY <1>1 DEF DoneInv
<1>7. UsesInv
  <2>1. Len(done) = 0 /\ \A p \in DOMAIN todo : p \in Nat /\ todo[p] \in AnyCall
    BY <1>1, <1>2
  <2>2. \A p \in DOMAIN todo : Len(done) + p = p
    BY <2>1
  <2>3. \A p \in DOMAIN todo : UsesBefore(todo[p], p)
    BY <1>1, SessionAssumption, Zenon
  <2>4. \A p \in DOMAIN todo : todo[p].op # "raw_b"
    <3>1. "raw_b" \notin Ops \cup {"raw_gemm"}
      BY DEF Ops
    <3>2. \A c \in AnyCall : c.op \in Ops \cup {"raw_gemm"}
      BY OpsOfCalls, Zenon DEF AnyCall, Ops
    <3>3. QED BY <2>1, <3>1, <3>2, Zenon
  <2>5. DOMAIN done = {}
    BY <1>1
  <2>6. QED BY <2>2, <2>3, <2>4, <2>5, Zenon DEF UsesInv
<1>8. QED BY <1>4, <1>5, <1>6, <1>7 DEF SessionInv

\* What a step that changes neither the calls nor the launches preserves.
LEMMA SessionKept ==
    ASSUME SessionInv, UNCHANGED <<arch, session, todo, layout, view, done>>,
           result' \in {"none", "refused", "rejected", "ok"}, result' = "ok" => todo = <<>>
    PROVE  SessionInv'
<1>1. /\ arch' = arch /\ session' = session /\ todo' = todo /\ layout' = layout
      /\ view' = view /\ done' = done
  OBVIOUS
<1>2. TypesInv'
  BY <1>1 DEF SessionInv, TypesInv
<1>3. CurrentInv'
  BY <1>1, Zenon DEF SessionInv, CurrentInv
<1>4. DoneInv'
  BY <1>1, Zenon DEF SessionInv, DoneInv
<1>5. UsesInv'
  BY <1>1, Zenon DEF SessionInv, UsesInv
<1>6. QED BY <1>2, <1>3, <1>4, <1>5 DEF SessionInv

LEMMA SessionLayout ==
    ASSUME SessionInv, NEW op, Layout(op)
    PROVE  SessionInv'
<1>1. /\ todo # <<>> /\ layout = NoLayout /\ Accepts(Head(todo)) /\ layout' = LayoutOf(Head(todo))
      /\ arch' = arch /\ session' = session /\ todo' = todo /\ view' = view /\ done' = done
      /\ result' = result
  BY Zenon DEF Layout, Calling, Running, Call
<1>2. TypesInv'
  BY <1>1 DEF SessionInv, TypesInv
<1>3. CurrentInv'
  <2>1. view' = NoTensor
    BY <1>1, Zenon DEF SessionInv, CurrentInv
  <2>2. Ready(Head(todo))
    BY <1>1, AcceptedIsReady, Zenon
  <2>3. QED BY <1>1, <2>1, <2>2, Zenon DEF CurrentInv
<1>4. DoneInv'
  BY <1>1, Zenon DEF SessionInv, DoneInv
<1>5. UsesInv'
  BY <1>1, Zenon DEF SessionInv, UsesInv
<1>6. QED BY <1>2, <1>3, <1>4, <1>5 DEF SessionInv

LEMMA SessionAllocate ==
    ASSUME SessionInv, Allocate
    PROVE  SessionInv'
<1>1. /\ layout # NoLayout
      /\ view' = IF Head(todo).out = FromLayout THEN ViewOf(Head(todo), layout) ELSE Head(todo).out
      /\ arch' = arch /\ session' = session /\ todo' = todo /\ layout' = layout /\ done' = done
      /\ result' = result
  BY Zenon DEF Allocate, Call
<1>2. TypesInv'
  BY <1>1 DEF SessionInv, TypesInv
<1>3. CurrentInv'
  <2>1. todo # <<>> /\ Ready(Head(todo)) /\ layout = LayoutOf(Head(todo))
    BY <1>1, Zenon DEF SessionInv, CurrentInv
  <2>2. QED BY <1>1, <2>1, Zenon DEF CurrentInv
<1>4. DoneInv'
  BY <1>1, Zenon DEF SessionInv, DoneInv
<1>5. UsesInv'
  BY <1>1, Zenon DEF SessionInv, UsesInv
<1>6. QED BY <1>2, <1>3, <1>4, <1>5 DEF SessionInv

LEMMA ConfigsAreConfigs ==
    /\ \A f \in Families, m, n, k, sms \in Nat : BestConfig(f, m, n, k, sms) \in Configs
    /\ NoConfig \in Configs
  BY DEF Configs

\* What is launched is the current call, with its own layout and what was allocated for it.
LEMMA LaunchedIsMade ==
    ASSUME SessionInv, MayLaunch
    PROVE  Launched \in Launches /\ Made(arch, Launched)
<1>1. /\ todo # <<>> /\ view # NoTensor
      /\ OutSpec = LogicalSpec(layout) /\ LauncherAccepts(Call, OutSpec)
  BY Zenon DEF MayLaunch, Allocated, Running
<1>2. PICK c : c = Head(todo)
  OBVIOUS
<1>3. /\ layout # NoLayout /\ Ready(c) /\ layout = LayoutOf(c)
      /\ view = IF c.out = FromLayout THEN ViewOf(c, layout) ELSE c.out
  BY <1>1, <1>2, Zenon DEF SessionInv, CurrentInv
<1>4. c \in Pending /\ arch \in Families
  <2>1. todo \in Seq(Pending) /\ arch \in Families
    BY Zenon DEF SessionInv, TypesInv
  <2>2. QED BY <1>1, <1>2, <2>1, FirstOf, Zenon
<1>5. layout \in LayoutSet
  BY <1>3, <1>4, ReadyFits, Zenon
<1>6. c.out # FromLayout => view = LogicalSpec(layout)
  BY <1>1, <1>2, <1>3, Zenon DEF OutSpec, Call
<1>7. c.out = FromLayout => view = ViewOf(c, layout)
  BY <1>3, Zenon
<1>8. view \in Tensors(2)
  BY <1>5, <1>6, <1>7, ViewIsTensor, LayoutIsLayout, Zenon
<1>9. c.op = "gemm" => ConfigOf(c) # NoConfig /\ ConfigOf(c) = ConfigFor(arch, c)
  <2>1. SUFFICES ASSUME c.op = "gemm" PROVE ConfigOf(c) # NoConfig
    BY Zenon DEF ConfigOf, ConfigFor
  <2>2. NativeGemm(c, OutSpec)
    BY <1>1, <1>2, <2>1, Zenon DEF LauncherAccepts, Call
  <2>3. QED BY <2>2, Zenon DEF NativeGemm
<1>10. c.op = "gemm" => ConfigOf(c) \in Configs
  <2>1. SUFFICES ASSUME c.op = "gemm" PROVE ConfigOf(c) \in Configs
    OBVIOUS
  <2>2. c \in AnyGemm
    BY <1>4, <2>1, CallsByOp, Zenon
  <2>3. c.a \in Tensors(2) /\ c.b \in Tensors(2) /\ c.sms \in Nat
    BY <2>2 DEF AnyGemm
  <2>4. c.a.shape[1] \in Nat /\ c.b.shape[1] \in Nat /\ c.a.shape[2] \in Nat
    BY <2>3, Shapes
  <2>5. QED BY <1>4, <2>3, <2>4, ConfigsAreConfigs, Zenon DEF ConfigOf
<1>11. /\ Launched.call = c /\ Launched.layout = layout /\ Launched.view = view
       /\ c.op = "gemm" => Launched.config = ConfigOf(c)
  BY <1>2, Zenon DEF Launched, Call
<1>12. Launched \in Launches
  <2>1. PICK config : config = IF c.op = "gemm" THEN ConfigOf(c) ELSE NoConfig
    OBVIOUS
  <2>2. config \in Configs
    BY <1>10, <2>1, ConfigsAreConfigs, Zenon
  <2>3. Launched = [call |-> c, layout |-> layout, view |-> view, config |-> config]
    BY <1>2, <2>1, Zenon DEF Launched, Call
  <2>4. QED BY <1>4, <1>5, <1>8, <2>2, <2>3, Zenon DEF Launches
<1>13. Made(arch, Launched)
  BY <1>3, <1>6, <1>7, <1>9, <1>11, Zenon DEF Made
<1>14. QED BY <1>12, <1>13

LEMMA SessionLaunch ==
    ASSUME SessionInv, Launch
    PROVE  SessionInv'
<1>1. /\ MayLaunch /\ done' = Append(done, Launched) /\ todo' = Tail(todo)
      /\ layout' = NoLayout /\ view' = NoTensor /\ arch' = arch /\ session' = session
      /\ result' = result
  BY Zenon DEF Launch
<1>2. /\ todo # <<>> /\ result = "none"
  BY <1>1, Zenon DEF MayLaunch, Allocated, Running
<1>3. PICK d : d = Launched
  OBVIOUS
<1>4. d \in Launches /\ Made(arch, d) /\ d.call = Head(todo)
  BY <1>1, <1>3, LaunchedIsMade, Zenon DEF Launched, Call
<1>5. /\ todo \in Seq(Pending) /\ done \in Seq(Launches) /\ session \in Seq(AnyCall)
      /\ arch \in Families /\ Len(done) + Len(todo) >= Len(session)
  BY Zenon DEF SessionInv, TypesInv
<1>6. /\ todo' \in Seq(Pending) /\ Len(todo') = Len(todo) - 1 /\ Len(todo) \in Nat
      /\ Head(todo) = todo[1] /\ 1 \in DOMAIN todo
      /\ \A i \in DOMAIN todo' : i \in Nat /\ i + 1 \in DOMAIN todo /\ todo'[i] = todo[i + 1]
  BY <1>1, <1>2, <1>5, FirstOf, Zenon
<1>7. /\ done' \in Seq(Launches) /\ Len(done') = Len(done) + 1 /\ Len(done) \in Nat
      /\ DOMAIN done \subseteq Nat /\ DOMAIN done' = DOMAIN done \cup {Len(done) + 1}
      /\ \A i \in DOMAIN done : done'[i] = done[i]
      /\ done'[Len(done) + 1] = d
  <2>1. done' = Append(done, d)
    BY <1>1, <1>3, Zenon
  <2>2. d \in Launches /\ done \in Seq(Launches)
    BY <1>4, <1>5, Zenon
  <2>3. QED BY <2>1, <2>2, OneAfter
<1>8. TypesInv'
  <2>1. Len(session) \in Nat
    BY <1>5
  <2>2. Len(done') + Len(todo') >= Len(session)
    BY <1>5, <1>6, <1>7, <2>1
  <2>3. result' \in {"none", "refused", "rejected", "ok"} /\ result' # "ok"
    BY <1>1, <1>2
  <2>4. QED BY <1>1, <1>5, <1>6, <1>7, <2>2, <2>3, Zenon DEF TypesInv
<1>9. CurrentInv'
  BY <1>1, Zenon DEF CurrentInv
<1>10. DoneInv'
  <2>1. \A i \in DOMAIN done : Made(arch, done[i])
    BY Zenon DEF SessionInv, DoneInv
  <2>2. QED BY <1>1, <1>4, <1>7, <2>1, Zenon DEF DoneInv
<1>11. UsesInv'
  <2>1. /\ \A i \in DOMAIN done : UsesBefore(done[i].call, i)
        /\ \A p \in DOMAIN todo :
              /\ UsesBefore(todo[p], Len(done) + p)
              /\ todo[p].op = "raw_b" => Len(done) + p >= 2
    BY Zenon DEF SessionInv, UsesInv
  <2>2. \A i \in DOMAIN done' : UsesBefore(done'[i].call, i)
    BY <1>4, <1>6, <1>7, <2>1, Zenon
  <2>3. \A p \in DOMAIN todo' : Len(done') + p = Len(done) + (p + 1)
    BY <1>6, <1>7
  <2>4. \A p \in DOMAIN todo' :
              /\ UsesBefore(todo'[p], Len(done') + p)
              /\ todo'[p].op = "raw_b" => Len(done') + p >= 2
    BY <1>6, <2>1, <2>3, Zenon
  <2>5. QED BY <2>2, <2>4, Zenon DEF UsesInv
<1>12. QED BY <1>8, <1>9, <1>10, <1>11 DEF SessionInv

-----------------------------------------------------------------------------
(* What a raw GEMM is replaced by *)

LEMMA ResultsAreResults ==
    ASSUME NEW x \in Tensors(2) \cup Results
    PROVE  /\ x.dtype = "returned" => x \in Results /\ x.call \in Nat \ {0}
           /\ x.dtype # "returned" => x \in Tensors(2)
<1>1. \A y \in Results : y.dtype = "returned" /\ y.call \in Nat \ {0}
  BY DEF Results
<1>2. \A y \in Tensors(2) : y.dtype \in DTypes
  BY DEF Tensors
<1>3. "returned" \notin DTypes
  BY DEF DTypes
<1>4. QED BY <1>1, <1>2, <1>3, Zenon

LEMMA InputsAreInputs ==
    ASSUME NEW c \in Pending, NEW x \in Inputs(c)
    PROVE  x \in Tensors(2) \cup Results
<1>1. CASE c.op = "paged"
  <2>1. c \in AnyPaged /\ x = c.schedule_meta
    BY <1>1, CallsByOp, Zenon DEF Inputs
  <2>2. QED BY <2>1, Zenon DEF AnyPaged
<1>2. CASE c.op = "gemm"
  <2>1. c \in AnyGemm /\ (x = c.a_scale \/ x = c.b_scale)
    BY <1>2, CallsByOp, Zenon DEF Inputs
  <2>2. c.a_scale \in Tensors(2) \cup Results /\ c.b_scale \in Tensors(2) \cup Results
    BY <2>1, Zenon DEF AnyGemm
  <2>3. QED BY <2>1, <2>2, Zenon
<1>3. CASE c.op # "paged" /\ c.op # "gemm"
  BY <1>3, Zenon DEF Inputs
<1>4. QED BY <1>1, <1>2, <1>3

LEMMA UsesLater ==
    ASSUME NEW c \in Pending, NEW i \in Nat, NEW j \in Nat, i <= j, UsesBefore(c, i)
    PROVE  UsesBefore(c, j)
<1> SUFFICES ASSUME NEW x \in Inputs(c), x.dtype = "returned" PROVE x.call < j
  BY Zenon DEF UsesBefore
<1>1. x.call \in Nat
  BY InputsAreInputs, ResultsAreResults
<1>2. x.call < i
  BY Zenon DEF UsesBefore
<1>3. QED BY <1>1, <1>2

LEMMA UsesNothing ==
    ASSUME NEW c, c.op # "paged", c.op # "gemm", NEW i
    PROVE  UsesBefore(c, i)
  BY Zenon DEF UsesBefore, Inputs

LEMMA ScaleCallIsScale ==
    ASSUME NEW x \in Tensors(2), NEW mn \in Nat, NEW k \in Nat, NEW gran \in Nat, NEW dtype \in DTypes
    PROVE  ScaleCall(x, mn, k, gran, dtype) \in AnyScale
<1>1. 128 \in Nat /\ FromLayout \in Outputs /\ {} \in Unaligned
  BY Zenon DEF Outputs, Option, FromLayout, Unaligned
<1>2. QED BY <1>1, Zenon DEF ScaleCall, AnyScale

LEMMA GemmCallIsGemm ==
    ASSUME NEW op, NEW c \in AnyRaw(op), NEW aScale \in Tensors(2) \cup Results,
           NEW bScale \in Tensors(2) \cup Results
    PROVE  GemmCall(c, aScale, bScale) \in AnyGemm
<1>1. FromLayout \in Outputs
  BY Zenon DEF Outputs, Option, FromLayout
<1>2. c.a \in Tensors(2) /\ c.b \in Tensors(2) /\ c.sms \in Nat \ {0} /\ c.unaligned \in Unaligned
  BY Zenon DEF AnyRaw
<1>3. QED BY <1>1, <1>2, Zenon DEF GemmCall, AnyGemm

LEMMA ReturnedIsResult ==
    ASSUME NEW i \in Nat, i >= 1
    PROVE  Returned(i) \in Results /\ Returned(i).dtype = "returned" /\ Returned(i).call = i
  BY DEF Returned, Results

\* A step that puts one or two calls in the place of the current one.
LEMMA SessionExpand ==
    ASSUME SessionInv, todo # <<>>, layout = NoLayout,
           arch' = arch, session' = session, layout' = layout, view' = view, done' = done,
           result' = result, result = "none",
           todo' \in Seq(Pending), Len(todo') >= Len(todo),
           \A p \in DOMAIN todo' :
              \/ /\ UsesBefore(todo'[p], Len(done) + p)
                 /\ todo'[p].op = "raw_b" => Len(done) + p >= 2
              \/ /\ p \in Nat
                 /\ \E j \in DOMAIN todo : j \in Nat /\ j <= p /\ todo'[p] = todo[j]
    PROVE  SessionInv'
<1>1. /\ todo \in Seq(Pending) /\ done \in Seq(Launches) /\ session \in Seq(AnyCall)
      /\ arch \in Families /\ Len(done) + Len(todo) >= Len(session)
  BY Zenon DEF SessionInv, TypesInv
<1>2. Len(done) \in Nat /\ Len(todo) \in Nat /\ Len(todo') \in Nat /\ Len(session) \in Nat
  BY <1>1
<1>3. TypesInv'
  <2>1. Len(done') + Len(todo') >= Len(session')
    BY <1>1, <1>2
  <2>2. result' \in {"none", "refused", "rejected", "ok"} /\ result' # "ok"
    OBVIOUS
  <2>3. QED BY <1>1, <2>1, <2>2, Zenon DEF TypesInv
<1>4. CurrentInv'
  BY Zenon DEF SessionInv, CurrentInv
<1>5. DoneInv'
  BY Zenon DEF SessionInv, DoneInv
<1>6. UsesInv'
  <2>1. /\ \A i \in DOMAIN done : UsesBefore(done[i].call, i)
        /\ \A p \in DOMAIN todo :
              /\ UsesBefore(todo[p], Len(done) + p)
              /\ todo[p].op = "raw_b" => Len(done) + p >= 2
    BY Zenon DEF SessionInv, UsesInv
  <2>2. ASSUME NEW p \in DOMAIN todo', p \in Nat, NEW j \in DOMAIN todo, j \in Nat, j <= p,
               todo'[p] = todo[j]
        PROVE  /\ UsesBefore(todo'[p], Len(done) + p)
               /\ todo'[p].op = "raw_b" => Len(done) + p >= 2
    <3>1. todo[j] \in Pending
      BY <1>1
    <3>2. /\ Len(done) + j \in Nat /\ Len(done) + p \in Nat /\ Len(done) + j <= Len(done) + p
      BY <1>2, <2>2
    <3>3. UsesBefore(todo[j], Len(done) + p)
      BY <2>1, <3>1, <3>2, UsesLater, Zenon
    <3>4. todo[j].op = "raw_b" => Len(done) + j >= 2
      BY <2>1, Zenon
    <3>5. Len(done) + j >= 2 => Len(done) + p >= 2
      BY <3>2
    <3>6. QED BY <2>2, <3>3, <3>4, <3>5, Zenon
  <2>3. QED BY <2>1, <2>2, Zenon DEF UsesInv
<1>7. QED BY <1>3, <1>4, <1>5, <1>6 DEF SessionInv

LEMMA SessionRaw ==
    ASSUME SessionInv, GemmRaw
    PROVE  SessionInv'
<1> DEFINE c == Head(todo)
           x == ScaleCall(c.a_scale, c.a.shape[1], c.a.shape[2], 1,
                          IF arch = "sm90" THEN "f32" ELSE "ue8m0")
           y == [c EXCEPT !.op = "raw_b"]
<1>1. /\ todo # <<>> /\ layout = NoLayout /\ c.op = "raw_gemm" /\ result = "none"
      /\ todo' = <<x, y>> \o Tail(todo)
      /\ arch' = arch /\ session' = session /\ layout' = layout /\ view' = view
      /\ done' = done /\ result' = result
  BY Zenon DEF GemmRaw, Calling, Running, Call
<1>2. todo \in Seq(Pending) /\ done \in Seq(Launches)
  BY Zenon DEF SessionInv, TypesInv
<1>3. /\ c \in Pending /\ Tail(todo) \in Seq(Pending) /\ Len(Tail(todo)) = Len(todo) - 1
      /\ Len(todo) \in Nat
      /\ \A i \in DOMAIN Tail(todo) : i \in Nat /\ i + 1 \in DOMAIN todo /\ Tail(todo)[i] = todo[i + 1]
  BY <1>1, <1>2, FirstOf, Zenon
<1>4. c \in AnyRaw("raw_gemm")
  BY <1>1, <1>3, CallsByOp, Zenon
<1>5. x \in AnyScale
  <2>1. c.a \in Tensors(2) /\ c.a_scale \in Tensors(2)
    BY <1>4, Zenon DEF AnyRaw
  <2>2. c.a.shape[1] \in Nat /\ c.a.shape[2] \in Nat /\ 1 \in Nat
    BY <2>1, Shapes
  <2>3. "f32" \in DTypes /\ "ue8m0" \in DTypes
    BY DEF DTypes
  <2>4. QED BY <2>1, <2>2, <2>3, ScaleCallIsScale, Zenon
<1>6. y \in AnyRaw("raw_b") /\ y.op = "raw_b"
  <2> HIDE DEF c
  <2>1. c = [op |-> c.op, a |-> c.a, a_scale |-> c.a_scale, b |-> c.b, b_scale |-> c.b_scale,
             sms |-> c.sms, unaligned |-> c.unaligned]
        /\ c.a \in Tensors(2) /\ c.a_scale \in Tensors(2) /\ c.b \in Tensors(2)
        /\ c.b_scale \in Tensors(2) /\ c.sms \in Nat \ {0} /\ c.unaligned \in Unaligned
    BY <1>4, Zenon DEF AnyRaw
  <2>2. y = [op |-> "raw_b", a |-> c.a, a_scale |-> c.a_scale, b |-> c.b, b_scale |-> c.b_scale,
             sms |-> c.sms, unaligned |-> c.unaligned]
    BY <2>1
  <2>3. QED BY <2>1, <2>2, Zenon DEF AnyRaw
<1>7. x.op = "scale"
  BY <1>5, OpsOfCalls, Zenon
<1>8. x \in Pending /\ y \in Pending
  BY <1>5, <1>6, Zenon DEF Pending, AnyCall
<1>9. PICK t : t = Tail(todo)
  OBVIOUS
<1>10. PICK r : r = todo'
  OBVIOUS
<1> HIDE DEF x, y, c
<1>11. /\ r \in Seq(Pending) /\ Len(r) = Len(t) + 2 /\ r[1] = x /\ r[2] = y
       /\ \A i \in DOMAIN r : i \in Nat /\ (i = 1 \/ i = 2 \/ (i - 2 \in DOMAIN t /\ r[i] = t[i - 2]))
  <2>1. r = <<x, y>> \o t /\ t \in Seq(Pending)
    BY <1>1, <1>3, <1>9, <1>10, Zenon
  <2>2. QED BY <1>8, <2>1, TwoBefore
<1>12. Len(r) >= Len(todo)
  BY <1>3, <1>9, <1>11
<1>13. ASSUME NEW p \in DOMAIN r
       PROVE  \/ /\ UsesBefore(r[p], Len(done) + p)
                 /\ r[p].op = "raw_b" => Len(done) + p >= 2
              \/ /\ p \in Nat
                 /\ \E j \in DOMAIN todo : j \in Nat /\ j <= p /\ r[p] = todo[j]
  <2>1. CASE p = 1
    <3>1. r[p].op = "scale"
      BY <1>7, <1>11, <2>1, Zenon
    <3>2. QED BY <3>1, UsesNothing
  <2>2. CASE p = 2
    <3>1. r[p].op = "raw_b"
      BY <1>6, <1>11, <2>2, Zenon
    <3>2. Len(done) + p >= 2
      BY <1>2, <2>2
    <3>3. QED BY <3>1, <3>2, UsesNothing
  <2>3. CASE p # 1 /\ p # 2
    <3>1. p \in Nat /\ p - 2 \in DOMAIN t /\ r[p] = t[p - 2]
      BY <1>11, <2>3, Zenon
    <3>2. (p - 2) \in Nat /\ (p - 2) + 1 \in DOMAIN todo /\ r[p] = todo[(p - 2) + 1]
      BY <1>3, <1>9, <3>1, Zenon
    <3>3. (p - 2) + 1 \in Nat /\ (p - 2) + 1 <= p
      BY <3>1, <3>2
    <3>4. QED BY <3>1, <3>2, <3>3, Zenon
  <2>4. QED BY <2>1, <2>2, <2>3
<1>14. QED BY <1>1, <1>10, <1>11, <1>12, <1>13, SessionExpand, Zenon

LEMMA SessionRawB ==
    ASSUME SessionInv, GemmRawB
    PROVE  SessionInv'
<1> DEFINE c == Head(todo)
           last == Returned(Len(done))
           g90 == GemmCall(c, last, c.b_scale)
           x == ScaleCall(c.b_scale, c.b.shape[1], c.b.shape[2], Granularity(c), "ue8m0")
           g100 == GemmCall(c, last, Returned(Len(done) + 1))
<1>1. /\ todo # <<>> /\ layout = NoLayout /\ c.op = "raw_b" /\ result = "none"
      /\ todo' = (IF arch = "sm90" THEN <<g90>> ELSE <<x, g100>>) \o Tail(todo)
      /\ arch' = arch /\ session' = session /\ layout' = layout /\ view' = view
      /\ done' = done /\ result' = result
  BY Zenon DEF GemmRawB, Calling, Running, Call
<1>2. todo \in Seq(Pending) /\ done \in Seq(Launches)
  BY Zenon DEF SessionInv, TypesInv
<1>3. /\ c \in Pending /\ Tail(todo) \in Seq(Pending) /\ Len(Tail(todo)) = Len(todo) - 1
      /\ Len(todo) \in Nat /\ c = todo[1] /\ 1 \in DOMAIN todo
      /\ \A i \in DOMAIN Tail(todo) : i \in Nat /\ i + 1 \in DOMAIN todo /\ Tail(todo)[i] = todo[i + 1]
  BY <1>1, <1>2, FirstOf, Zenon
<1>4. c \in AnyRaw("raw_b")
  BY <1>1, <1>3, CallsByOp, Zenon
<1>5. Len(done) \in Nat /\ Len(done) >= 1
  <2>1. Len(done) + 1 >= 2
    BY <1>1, <1>3, Zenon DEF SessionInv, UsesInv
  <2>2. Len(done) \in Nat
    BY <1>2
  <2>3. QED BY <2>1, <2>2
<1>6. last \in Results /\ last.dtype = "returned" /\ last.call = Len(done)
  BY <1>5, ReturnedIsResult, Zenon
<1>7. c.b \in Tensors(2) /\ c.b_scale \in Tensors(2)
  BY <1>4, Zenon DEF AnyRaw
<1>8. g90 \in AnyGemm /\ g90.op = "gemm" /\ Inputs(g90) = {last, c.b_scale}
  <2>1. g90 \in AnyGemm
    BY <1>4, <1>6, <1>7, GemmCallIsGemm
  <2>2. g90.op = "gemm" /\ g90.a_scale = last /\ g90.b_scale = c.b_scale
    BY DEF GemmCall
  <2>3. QED BY <2>1, <2>2, Zenon DEF Inputs
<1>9. x \in AnyScale /\ x.op = "scale"
  <2>1. c.b.shape[1] \in Nat /\ c.b.shape[2] \in Nat
    BY <1>7, Shapes
  <2>2. Granularity(c) \in Nat
    BY DEF Granularity
  <2>3. "ue8m0" \in DTypes
    BY DEF DTypes
  <2>4. QED BY <1>7, <2>1, <2>2, <2>3, ScaleCallIsScale, OpsOfCalls, Zenon
<1>10. g100 \in AnyGemm /\ g100.op = "gemm"
       /\ Inputs(g100) = {last, Returned(Len(done) + 1)}
  <2>1. Returned(Len(done) + 1) \in Results
    BY <1>5, ReturnedIsResult
  <2>2. g100 \in AnyGemm
    BY <1>4, <1>6, <2>1, GemmCallIsGemm
  <2>3. g100.op = "gemm" /\ g100.a_scale = last /\ g100.b_scale = Returned(Len(done) + 1)
    BY DEF GemmCall
  <2>4. QED BY <2>2, <2>3, Zenon DEF Inputs
<1>11. UsesBefore(g90, Len(done) + 1)
  <2>1. c.b_scale.dtype # "returned"
    <3>1. c.b_scale.dtype \in DTypes
      BY <1>7, Zenon DEF Tensors
    <3>2. "returned" \notin DTypes
      BY DEF DTypes
    <3>3. QED BY <3>1, <3>2, Zenon
  <2>2. last.call < Len(done) + 1
    BY <1>5, <1>6
  <2>3. QED BY <1>8, <2>1, <2>2, Zenon DEF UsesBefore
<1>12. UsesBefore(g100, Len(done) + 2)
  <2>1. last.call < Len(done) + 2
    BY <1>5, <1>6
  <2>2. Returned(Len(done) + 1).call < Len(done) + 2
    BY <1>5 DEF Returned
  <2>3. QED BY <1>10, <2>1, <2>2, Zenon DEF UsesBefore
<1>13. g90 \in Pending /\ x \in Pending /\ g100 \in Pending
  BY <1>8, <1>9, <1>10, Zenon DEF Pending, AnyCall
<1>14. PICK t : t = Tail(todo)
  OBVIOUS
<1>15. PICK r : r = todo'
  OBVIOUS
<1> DEFINE At(p) ==
             \/ /\ UsesBefore(r[p], Len(done) + p)
                /\ r[p].op = "raw_b" => Len(done) + p >= 2
             \/ /\ p \in Nat
                /\ \E j \in DOMAIN todo : j \in Nat /\ j <= p /\ r[p] = todo[j]
<1> HIDE DEF g90, x, g100, c, last
<1>a. ASSUME r \in Seq(Pending), Len(r) >= Len(todo), \A p \in DOMAIN r : At(p)
      PROVE  SessionInv'
  <2>1. /\ todo # <<>> /\ layout = NoLayout /\ result = "none"
        /\ arch' = arch /\ session' = session /\ layout' = layout /\ view' = view
        /\ done' = done /\ result' = result
    BY <1>1, Zenon
  <2>2. /\ todo' \in Seq(Pending) /\ Len(todo') >= Len(todo)
        /\ \A p \in DOMAIN todo' :
              \/ /\ UsesBefore(todo'[p], Len(done) + p)
                 /\ todo'[p].op = "raw_b" => Len(done) + p >= 2
              \/ /\ p \in Nat
                 /\ \E j \in DOMAIN todo : j \in Nat /\ j <= p /\ todo'[p] = todo[j]
    BY <1>15, <1>a, Zenon
  <2> HIDE DEF At
  <2>3. QED BY <2>1, <2>2, SessionExpand, Zenon
<1> HIDE DEF At
<1>16. CASE arch = "sm90"
  <2>1. /\ r \in Seq(Pending) /\ Len(r) = Len(t) + 1 /\ r[1] = g90
        /\ \A i \in DOMAIN r : i \in Nat /\ (i = 1 \/ (i - 1 \in DOMAIN t /\ r[i] = t[i - 1]))
    <3>1. r = <<g90>> \o t /\ t \in Seq(Pending)
      BY <1>1, <1>3, <1>14, <1>15, <1>16, Zenon
    <3>2. QED BY <1>13, <3>1, OneBefore
  <2>2. Len(r) >= Len(todo)
    BY <1>3, <1>14, <2>1
  <2>3. ASSUME NEW p \in DOMAIN r PROVE At(p)
    <3> USE DEF At
    <3>1. CASE p = 1
      <4>1. r[p].op # "raw_b"
        BY <1>8, <2>1, <3>1
      <4>2. UsesBefore(r[p], Len(done) + p)
        BY <1>11, <2>1, <3>1, Zenon
      <4>3. QED BY <4>1, <4>2
    <3>2. CASE p # 1
      <4>1. p \in Nat /\ p - 1 \in DOMAIN t /\ r[p] = t[p - 1]
        BY <2>1, <3>2, Zenon
      <4>2. (p - 1) \in Nat /\ (p - 1) + 1 \in DOMAIN todo /\ r[p] = todo[(p - 1) + 1]
        BY <1>3, <1>14, <4>1, Zenon
      <4>3. (p - 1) + 1 \in Nat /\ (p - 1) + 1 <= p
        BY <4>1, <4>2
      <4>4. QED BY <4>1, <4>2, <4>3, Zenon
    <3>3. QED BY <3>1, <3>2
  <2>4. QED BY <1>a, <2>1, <2>2, <2>3, Zenon
<1>17. CASE arch # "sm90"
  <2>1. /\ r \in Seq(Pending) /\ Len(r) = Len(t) + 2 /\ r[1] = x /\ r[2] = g100
        /\ \A i \in DOMAIN r :
              i \in Nat /\ (i = 1 \/ i = 2 \/ (i - 2 \in DOMAIN t /\ r[i] = t[i - 2]))
    <3>1. r = <<x, g100>> \o t /\ t \in Seq(Pending)
      BY <1>1, <1>3, <1>14, <1>15, <1>17, Zenon
    <3>2. QED BY <1>13, <3>1, TwoBefore
  <2>2. Len(r) >= Len(todo)
    BY <1>3, <1>14, <2>1
  <2>3. ASSUME NEW p \in DOMAIN r PROVE At(p)
    <3> USE DEF At
    <3>1. CASE p = 1
      <4>1. r[p].op = "scale"
        BY <1>9, <2>1, <3>1, Zenon
      <4>2. QED BY <4>1, UsesNothing
    <3>2. CASE p = 2
      <4>1. r[p].op # "raw_b"
        BY <1>10, <2>1, <3>2
      <4>2. UsesBefore(r[p], Len(done) + p)
        BY <1>12, <2>1, <3>2, Zenon
      <4>3. QED BY <4>1, <4>2
    <3>3. CASE p # 1 /\ p # 2
      <4>1. p \in Nat /\ p - 2 \in DOMAIN t /\ r[p] = t[p - 2]
        BY <2>1, <3>3, Zenon
      <4>2. (p - 2) \in Nat /\ (p - 2) + 1 \in DOMAIN todo /\ r[p] = todo[(p - 2) + 1]
        BY <1>3, <1>14, <4>1, Zenon
      <4>3. (p - 2) + 1 \in Nat /\ (p - 2) + 1 <= p
        BY <4>1, <4>2
      <4>4. QED BY <4>1, <4>2, <4>3, Zenon
    <3>4. QED BY <3>1, <3>2, <3>3
  <2>4. QED BY <1>a, <2>1, <2>2, <2>3, Zenon
<1>18. QED BY <1>16, <1>17

LEMMA SessionStep ==
    ASSUME SessionInv, Next
    PROVE  SessionInv'
<1> USE DEF GiveUp
<1>1. CASE MqaLogits
  BY <1>1, SessionLayout, Zenon DEF MqaLogits
<1>2. CASE PagedPlan
  BY <1>2, SessionLayout, Zenon DEF PagedPlan
<1>3. CASE PagedMqaLogits
  BY <1>3, SessionLayout, Zenon DEF PagedMqaLogits
<1>4. CASE PrepareScale
  BY <1>4, SessionLayout, Zenon DEF PrepareScale
<1>5. CASE GemmPrepared
  BY <1>5, SessionLayout, Zenon DEF GemmPrepared
<1>6. CASE GemmRaw
  BY <1>6, SessionRaw
<1>7. CASE GemmRawB
  BY <1>7, SessionRawB
<1>8. CASE Refuse
  BY <1>8, SessionKept DEF Refuse
<1>9. CASE RefuseRaw
  BY <1>9, SessionKept DEF RefuseRaw
<1>10. CASE RefuseOutput
  BY <1>10, SessionKept DEF RefuseOutput
<1>11. CASE Reject
  BY <1>11, SessionKept DEF Reject
<1>12. CASE Allocate
  BY <1>12, SessionAllocate
<1>13. CASE Launch
  BY <1>13, SessionLaunch
<1>14. CASE Finish
  BY <1>14, SessionKept DEF Finish
<1>15. CASE Finished
  BY <1>15, SessionKept DEF Finished, vars, SessionInv, TypesInv
<1>16. QED
  BY <1>1, <1>2, <1>3, <1>4, <1>5, <1>6, <1>7, <1>8, <1>9, <1>10, <1>11, <1>12, <1>13, <1>14,
     <1>15, Zenon DEF Next

\* What is launched is a call that the crate accepted, with the layout that the C API computed
\* for it, what was allocated for that layout and the kernel that the heuristics chose
\* (mqa.rs:198, candle-deepgemm gemm.rs:73): the invariant that the theorems below rest on.
THEOREM SessionInvariant == Spec => []SessionInv
<1>1. Init => SessionInv
  BY SessionInit
<1>2. SessionInv /\ [Next]_vars => SessionInv'
  <2>1. SUFFICES ASSUME SessionInv, UNCHANGED vars PROVE SessionInv'
    BY SessionStep
  <2>2. QED BY <2>1, SessionKept DEF vars, SessionInv, TypesInv
<1>3. QED BY <1>1, <1>2, PTL DEF Spec

-----------------------------------------------------------------------------
(* What the invariant says of the properties *)

LEMMA OutIsOutput ==
    ASSUME NEW c \in Pending, Ready(c)
    PROVE  c.out \in Outputs /\ (c.out # FromLayout => c.out \in Tensors(2))
<1>1. c.op \in Ops
  BY Zenon DEF Ready
<1>2. c \in AnyMqa \/ c \in AnyPlan \/ c \in AnyPaged \/ c \in AnyScale \/ c \in AnyGemm
  BY <1>1, CallsByOp, Zenon DEF Ops
<1>3. c.out \in Outputs
  <2>1. c \in AnyMqa => c.out \in Outputs
    BY Zenon DEF AnyMqa
  <2>2. c \in AnyPlan => c.out \in Outputs
    BY Zenon DEF AnyPlan
  <2>3. c \in AnyPaged => c.out \in Outputs
    BY Zenon DEF AnyPaged
  <2>4. c \in AnyScale => c.out \in Outputs
    BY Zenon DEF AnyScale
  <2>5. c \in AnyGemm => c.out \in Outputs
    BY Zenon DEF AnyGemm
  <2>6. QED BY <1>2, <2>1, <2>2, <2>3, <2>4, <2>5, Zenon
<1>4. QED BY <1>3, Zenon DEF Outputs, Option, FromLayout

LEMMA LaunchesAreLaunches ==
    ASSUME SessionInv, NEW i \in DOMAIN done
    PROVE  /\ i \in Nat /\ done[i].call \in Pending /\ done[i].layout \in LayoutSet
           /\ done[i].view \in Tensors(2) /\ Made(arch, done[i])
<1>1. done \in Seq(Launches) /\ Made(arch, done[i])
  BY Zenon DEF SessionInv, TypesInv, DoneInv
<1>2. i \in Nat /\ done[i] \in Launches
  BY <1>1
<1>3. /\ done[i].call \in Pending /\ done[i].layout \in LayoutSet /\ done[i].view \in Tensors(2)
  BY <1>2, Zenon DEF Launches
<1>4. QED BY <1>1, <1>2, <1>3

LEMMA TypeOKHolds ==
    ASSUME SessionInv
    PROVE  TypeOK
<1>1. /\ arch \in Families /\ todo \in Seq(Pending) /\ done \in Seq(Launches)
      /\ session \in Seq(AnyCall)
      /\ result \in {"none", "refused", "rejected", "ok"}
      /\ result = "ok" => todo = <<>>
      /\ Len(done) + Len(todo) >= Len(session)
  BY Zenon DEF SessionInv, TypesInv
<1>2. ASSUME layout # NoLayout
      PROVE  /\ todo # <<>> /\ Head(todo) \in Pending /\ Ready(Head(todo))
             /\ layout = LayoutOf(Head(todo)) /\ layout \in LayoutSet
  <2>1. todo # <<>> /\ Ready(Head(todo)) /\ layout = LayoutOf(Head(todo))
    BY <1>2, Zenon DEF SessionInv, CurrentInv
  <2>2. Head(todo) \in Pending
    BY <1>1, <2>1, FirstOf, Zenon
  <2>3. QED BY <2>1, <2>2, ReadyFits, Zenon
<1>3. layout = NoLayout \/ (IsLayout(layout) /\ todo # <<>>)
  BY <1>2, LayoutIsLayout, Zenon
<1>4. ASSUME view # NoTensor
      PROVE  IsTensor(view) /\ layout # NoLayout
  <2>1. /\ layout # NoLayout
        /\ view = IF Head(todo).out = FromLayout THEN ViewOf(Head(todo), layout) ELSE Head(todo).out
    BY <1>4, Zenon DEF SessionInv, CurrentInv
  <2>2. Head(todo) \in Pending /\ Ready(Head(todo)) /\ layout \in LayoutSet
    BY <1>2, <2>1, Zenon
  <2>3. view \in Tensors(2)
    BY <2>1, <2>2, ViewIsTensor, OutIsOutput, Zenon
  <2>4. QED BY <2>1, <2>3, TensorIsTensor, Zenon
<1>5. \A i \in DOMAIN done : IsLayout(done[i].layout) /\ IsTensor(done[i].view)
  BY LaunchesAreLaunches, LayoutIsLayout, TensorIsTensor, Zenon
<1>6. result = "ok" => Len(done) >= Len(session)
  <2>1. todo = <<>> => Len(todo) = 0
    OBVIOUS
  <2>2. Len(done) \in Nat /\ Len(session) \in Nat
    BY <1>1
  <2>3. QED BY <1>1, <2>1, <2>2
<1>7. QED BY <1>1, <1>3, <1>4, <1>5, <1>6, Zenon DEF TypeOK, Families

\* The variables of every session have their types, a view exists only for a layout, a layout
\* only for a call that is still to be launched, and a session that ends well has launched all
\* its calls, those that a raw GEMM stands for included (mqa.rs:198, gemm.rs:132).
THEOREM TypeCorrect == Spec => []TypeOK
  BY SessionInvariant, TypeOKHolds, PTL

LEMMA OutputFitsHolds ==
    ASSUME SessionInv
    PROVE  OutputFits
<1>1. ASSUME NEW i \in DOMAIN done, done[i].call.out = FromLayout
      PROVE  FitsAt(done[i].call, done[i].layout, done[i].view)
  <2>1. done[i].call \in Pending /\ Made(arch, done[i])
    BY LaunchesAreLaunches, Zenon
  <2>2. /\ Ready(done[i].call) /\ done[i].layout = LayoutOf(done[i].call)
        /\ done[i].view = ViewOf(done[i].call, done[i].layout)
    BY <1>1, <2>1, Zenon DEF Made
  <2>3. QED BY <2>1, <2>2, ReadyFits, Zenon
<1>2. QED BY <1>1, Zenon DEF OutputFits, FitsAt

\* For every shape, dtype and architecture, what a kernel writes stays in the output that a
\* binding allocated, and the view that is returned reaches no element outside of it
\* (deepgemm_c_api.cc:246, deepgemm_raw_mqa.cc:148, candle-deepgemm mqa.rs:232).
THEOREM OutputsAreLargeEnough == Spec => []OutputFits
  BY SessionInvariant, OutputFitsHolds, PTL

LEMMA GemmsAreChosen ==
    ASSUME SessionInv, NEW i \in Gemms
    PROVE  /\ arch \in Families /\ i \in DOMAIN done /\ done[i].call \in AnyGemm
           /\ M(i) \in Counts /\ N(i) \in Counts /\ K(i) \in Counts /\ SmsOf(i) \in Counts
           /\ done[i].config = BestConfig(arch, M(i), N(i), K(i), SmsOf(i))
           /\ done[i].config # NoConfig
<1>1. i \in DOMAIN done /\ done[i].call.op = "gemm" /\ arch \in Families
  BY Zenon DEF Gemms, SessionInv, TypesInv
<1>2. done[i].call \in Pending /\ Made(arch, done[i])
  BY <1>1, LaunchesAreLaunches, Zenon
<1>3. done[i].call \in AnyGemm
  BY <1>1, <1>2, CallsByOp, Zenon
<1>4. /\ done[i].call.a \in Tensors(2) /\ done[i].call.b \in Tensors(2)
      /\ done[i].call.sms \in Nat \ {0}
  BY <1>3, Zenon DEF AnyGemm
<1>5. M(i) \in Nat /\ N(i) \in Nat /\ K(i) \in Nat
  BY <1>4, Shapes DEF M, N, K
<1>6. M(i) > 0 /\ N(i) > 0 /\ K(i) > 0
  BY <1>1, <1>2, Zenon DEF Made, Ready, M, N, K
<1>7. M(i) \in Counts /\ N(i) \in Counts /\ K(i) \in Counts /\ SmsOf(i) \in Counts
  BY <1>4, <1>5, <1>6 DEF Counts, SmsOf
<1>8. done[i].config = BestConfig(arch, M(i), N(i), K(i), SmsOf(i)) /\ done[i].config # NoConfig
  BY <1>1, <1>2, Zenon DEF Made, ConfigFor, M, N, K, SmsOf
<1>9. QED BY <1>1, <1>3, <1>7, <1>8

LEMMA GemmsHaveTiles ==
    ASSUME SessionInv, NEW i \in Gemms
    PROVE  \E t \in TilesOf(arch) :
              /\ done[i].config = Configured(arch, K(i), t)
              /\ IsCandidate(arch, M(i), N(i), K(i), SmsOf(i), t)
<1>1. PICK f \in Families, m \in Counts, n \in Counts, k \in Counts, sms \in Counts :
         /\ f = arch /\ m = M(i) /\ n = N(i) /\ k = K(i) /\ sms = SmsOf(i)
         /\ done[i].config = BestConfig(f, m, n, k, sms) /\ done[i].config # NoConfig
  BY GemmsAreChosen, Zenon
<1>2. k \in Nat
  BY DEF Counts
<1>3. PICK b \in DOMAIN Candidates(f, m, n, k, sms) :
         LET t == Candidates(f, m, n, k, sms)[b] IN
         /\ BestConfig(f, m, n, k, sms) = Configured(f, k, t)
         /\ t \in TilesOf(f) /\ IsCandidate(f, m, n, k, sms, t)
  BY <1>1, <1>2, ChoiceIsBest, Zenon
<1>4. QED BY <1>1, <1>3, Zenon

LEMMA ConfiguredPipelines ==
    ASSUME NEW family, NEW k, NEW t
    PROVE  /\ family = "sm90" => Configured(family, k, t).pipeline = Sm90Pipeline(k, t)
           /\ family # "sm90" => Configured(family, k, t).pipeline = Sm100Pipeline(t)
  BY DEF Configured

LEMMA PipelineIsDeepHolds ==
    ASSUME SessionInv
    PROVE  PipelineIsDeep
<1> SUFFICES ASSUME NEW i \in Gemms
             PROVE  done[i].config.pipeline.stages >= 3 /\ done[i].config.pipeline.smem <= Capacity
  BY Zenon DEF PipelineIsDeep
<1>1. PICK t \in TilesOf(arch) : /\ done[i].config = Configured(arch, K(i), t)
                                 /\ IsCandidate(arch, M(i), N(i), K(i), SmsOf(i), t)
  BY GemmsHaveTiles, Zenon
<1>2. K(i) \in Nat /\ SmsOf(i) \in Nat \ {0} /\ arch \in Families
  BY GemmsAreChosen DEF Counts
<1>3. CASE arch = "sm90"
  <2>1. t \in Sm90TileSet /\ Sm90IsCandidate(K(i), SmsOf(i), t)
    BY <1>1, <1>3, Zenon DEF TilesOf, IsCandidate
  <2>2. done[i].config.pipeline = Sm90Pipeline(K(i), t)
    BY <1>1, <1>3, ConfiguredPipelines
  <2>3. QED BY <1>2, <2>1, <2>2, Sm90CandidatesFit, Zenon
<1>4. CASE arch # "sm90"
  <2>1. t \in Sm100TileSet
    BY <1>1, <1>4, Zenon DEF TilesOf
  <2>2. done[i].config.pipeline = Sm100Pipeline(t)
    BY <1>1, <1>4, ConfiguredPipelines
  <2>3. QED BY <2>1, <2>2, Sm100TilesFit, Zenon
<1>5. QED BY <1>3, <1>4

\* Every GEMM that is launched has three stages at least, in no more shared memory than an SM
\* has, whatever its shape and the number of SMs (deepgemm_raw_gemm.cc:437, 598).
THEOREM PipelinesAreDeep == Spec => []PipelineIsDeep
  BY SessionInvariant, PipelineIsDeepHolds, PTL

LEMMA SameCodeHolds ==
    ASSUME SessionInv
    PROVE  SameCodeSameLaunch
<1> SUFFICES ASSUME NEW i \in Gemms, NEW j \in Gemms,
                    Code(arch, N(i), K(i), SmsOf(i), done[i].config)
                       = Code(arch, N(j), K(j), SmsOf(j), done[j].config)
             PROVE  done[i].config = done[j].config
  BY Zenon DEF SameCodeSameLaunch
<1>1. PICK t \in TilesOf(arch) : done[i].config = Configured(arch, K(i), t)
  BY GemmsHaveTiles, Zenon
<1>2. PICK u \in TilesOf(arch) : done[j].config = Configured(arch, K(j), u)
  BY GemmsHaveTiles, Zenon
<1>3. arch \in {"sm90", "sm100"}
  BY GemmsAreChosen, Zenon DEF Families
<1>4. Configured(arch, K(i), t) = Configured(arch, K(j), u)
  <2>1. Code(arch, N(i), K(i), SmsOf(i), Configured(arch, K(i), t))
           = Code(arch, N(j), K(j), SmsOf(j), Configured(arch, K(j), u))
    BY <1>1, <1>2, Zenon
  <2>2. PICK f, n1, k1, s1, n2, k2, s2 :
           /\ f \in {"sm90", "sm100"} /\ f = arch /\ n1 = N(i) /\ k1 = K(i) /\ s1 = SmsOf(i)
           /\ n2 = N(j) /\ k2 = K(j) /\ s2 = SmsOf(j)
    BY <1>3, Zenon
  <2>3. /\ t \in TilesOf(f) /\ u \in TilesOf(f)
        /\ Code(f, n1, k1, s1, Configured(f, k1, t)) = Code(f, n2, k2, s2, Configured(f, k2, u))
    BY <2>1, <2>2, Zenon
  <2>4. Configured(f, k1, t) = Configured(f, k2, u)
    BY <2>2, <2>3, CodeDeterminesLaunch
  <2>5. QED BY <2>2, <2>4, Zenon
<1>5. QED BY <1>1, <1>2, <1>4, Zenon

\* Two GEMMs of a session whose kernels have the same source, hence the same key in the cache,
\* agree on shared memory, threads, cluster and boxes (deepgemm_raw_gemm.cc:898).
THEOREM SameSourceSameLaunch == Spec => []SameCodeSameLaunch
  BY SessionInvariant, SameCodeHolds, PTL

-----------------------------------------------------------------------------
(* Merits, and what the scans compare *)

LEMMA PairPrecedes ==
    ASSUME NEW a1 \in Int, NEW a2 \in Int, NEW b1 \in Int, NEW b2 \in Int,
           Precedes(<<a1, a2>>, <<b1, b2>>)
    PROVE  a1 < b1 \/ (a1 = b1 /\ a2 < b2)
<1> DEFINE x == <<a1, a2>>
           y == <<b1, b2>>
<1>1. PICK i \in DOMAIN x : x[i] < y[i] /\ \A j \in 1..i - 1 : x[j] = y[j]
  BY Zenon DEF Precedes
<1>2. i \in {1, 2}
  OBVIOUS
<1>3. i = 2 => x[1] = y[1]
  BY <1>1
<1>4. QED BY <1>1, <1>2, <1>3

SextupleLess(a1, a2, a3, a4, a5, a6, b1, b2, b3, b4, b5, b6) ==
    \/ a1 < b1
    \/ a1 = b1 /\ a2 < b2
    \/ a1 = b1 /\ a2 = b2 /\ a3 < b3
    \/ a1 = b1 /\ a2 = b2 /\ a3 = b3 /\ a4 < b4
    \/ a1 = b1 /\ a2 = b2 /\ a3 = b3 /\ a4 = b4 /\ a5 < b5
    \/ a1 = b1 /\ a2 = b2 /\ a3 = b3 /\ a4 = b4 /\ a5 = b5 /\ a6 < b6

LEMMA SextuplePrecedes ==
    ASSUME NEW a1 \in Int, NEW a2 \in Int, NEW a3 \in Int, NEW a4 \in Int, NEW a5 \in Int,
           NEW a6 \in Int, NEW b1 \in Int, NEW b2 \in Int, NEW b3 \in Int, NEW b4 \in Int,
           NEW b5 \in Int, NEW b6 \in Int,
           Precedes(<<a1, a2, a3, a4, a5, a6>>, <<b1, b2, b3, b4, b5, b6>>)
    PROVE  SextupleLess(a1, a2, a3, a4, a5, a6, b1, b2, b3, b4, b5, b6)
<1> DEFINE x == <<a1, a2, a3, a4, a5, a6>>
           y == <<b1, b2, b3, b4, b5, b6>>
<1>1. PICK i \in DOMAIN x : x[i] < y[i] /\ \A j \in 1..i - 1 : x[j] = y[j]
  BY Zenon DEF Precedes
<1>2. /\ x[1] = a1 /\ x[2] = a2 /\ x[3] = a3 /\ x[4] = a4 /\ x[5] = a5 /\ x[6] = a6
      /\ y[1] = b1 /\ y[2] = b2 /\ y[3] = b3 /\ y[4] = b4 /\ y[5] = b5 /\ y[6] = b6
      /\ i \in 1..6
  OBVIOUS
<1> HIDE DEF x, y
<1>3. \A j \in 1..6 : j < i => x[j] = y[j]
  BY <1>1, <1>2
<1>4. QED BY <1>1, <1>2, <1>3 DEF SextupleLess

LEMMA LadderByMerit ==
    ASSUME NEW w \in Counts, NEW s \in Nat, NEW l \in Nat, NEW e \in Nat, NEW r \in Nat,
           NEW w1 \in Counts, NEW s1 \in Nat, NEW l1 \in Nat, NEW e1 \in Nat, NEW r1 \in Nat,
           Precedes(<<IF w = 1 THEN 0 ELSE 1, -s, w, -l, e, r>>,
                    <<IF w1 = 1 THEN 0 ELSE 1, -s1, w1, -l1, e1, r1>>)
    PROVE  Ladder(w, s, l, e, r, w1, s1, l1, e1, r1)
<1>1. PICK f \in {0, 1}, f1 \in {0, 1} :
         f = (IF w = 1 THEN 0 ELSE 1) /\ f1 = (IF w1 = 1 THEN 0 ELSE 1)
  OBVIOUS
<1>2. Precedes(<<f, -s, w, -l, e, r>>, <<f1, -s1, w1, -l1, e1, r1>>)
  BY <1>1, Zenon
<1>3. PICK ms \in Int, ml \in Int, ms1 \in Int, ml1 \in Int :
         ms = -s /\ ml = -l /\ ms1 = -s1 /\ ml1 = -l1
  OBVIOUS
<1>4. Precedes(<<f, ms, w, ml, e, r>>, <<f1, ms1, w1, ml1, e1, r1>>)
  BY <1>2, <1>3, Zenon
<1>5. SextupleLess(f, ms, w, ml, e, r, f1, ms1, w1, ml1, e1, r1)
  <2>1. /\ w \in Int /\ w1 \in Int /\ f \in Int /\ f1 \in Int
        /\ e \in Int /\ e1 \in Int /\ r \in Int /\ r1 \in Int
    BY DEF Counts
  <2>2. QED BY <1>4, <2>1, SextuplePrecedes, Zenon
<1>6. w \in Nat /\ w > 0 /\ w1 \in Nat /\ w1 > 0
  BY DEF Counts
<1>7. QED BY <1>1, <1>3, <1>5, <1>6, SMT DEF Ladder, SextupleLess

LEMMA WavesAreCounts ==
    ASSUME NEW m \in Counts, NEW n \in Counts, NEW sms \in Counts,
           NEW family \in Families, NEW t \in TilesOf(family)
    PROVE  Waves(m, n, sms, t) \in Counts
<1>1. t \in TileSet /\ t.block_m > 0 /\ t.block_n > 0
  BY DEF TilesOf, Sm90TileSet, Sm100TileSet
<1>2. Blocks(m, n, t) \in Nat \ {0}
  BY <1>1, BlocksArePositive DEF Counts
<1>3. QED BY <1>2, CeilDivBounds DEF Waves, Counts

\* Merits of a launch, as an operator of the numbers it was chosen for.
MeritsOf(family, m, n, k, sms, t) ==
    LET waves == Waves(m, n, sms, t)
    IN IF family = "sm90"
       THEN IF ClusterSize(t) > 1 /\ waves = 1 THEN <<1, 0>> ELSE <<0, Cycles(m, n, k, sms, t)>>
       ELSE <<IF waves = 1 THEN 0 ELSE 1, -ClusterSize(t), waves,
              -LastWave(m, n, sms, t), t.block_m + t.block_n, t.block_m * t.block_n>>

LEMMA MoreMeritIsBetter ==
    ASSUME NEW family \in Families, NEW m \in Counts, NEW n \in Counts,
           NEW k \in Nat, NEW sms \in Counts,
           NEW t \in TilesOf(family), NEW u \in TilesOf(family),
           Precedes(MeritsOf(family, m, n, k, sms, t), MeritsOf(family, m, n, k, sms, u))
    PROVE  IsBetter(family, Info(family, m, n, k, sms, t), Info(family, m, n, k, sms, u))
<1> DEFINE a == Info(family, m, n, k, sms, t)
           b == Info(family, m, n, k, sms, u)
<1>1. PICK w \in Counts, v \in Counts : w = Waves(m, n, sms, t) /\ v = Waves(m, n, sms, u)
  BY WavesAreCounts, Zenon
<1>2. CASE family = "sm90"
  <2>1. PICK x \in Nat, y \in Nat : x = Cycles(m, n, k, sms, t) /\ y = Cycles(m, n, k, sms, u)
    BY <1>2, CyclesAreNatural DEF TilesOf, Counts
  <2>2. PICK costly \in BOOLEAN, dear \in BOOLEAN :
           costly = (ClusterSize(t) > 1 /\ w = 1) /\ dear = (ClusterSize(u) > 1 /\ v = 1)
    OBVIOUS
  <2>3. /\ MeritsOf(family, m, n, k, sms, t) = IF costly THEN <<1, 0>> ELSE <<0, x>>
        /\ MeritsOf(family, m, n, k, sms, u) = IF dear THEN <<1, 0>> ELSE <<0, y>>
    BY <1>1, <1>2, <2>1, <2>2, Zenon DEF MeritsOf
  <2>4. /\ a.finite = ~costly /\ a.cycles = x /\ b.finite = ~dear /\ b.cycles = y
    <3>1. (w <= 1 <=> w = 1) /\ (v <= 1 <=> v = 1)
      BY DEF Counts
    <3>2. /\ a.finite = ~(ClusterSize(t) > 1 /\ w <= 1) /\ a.cycles = x
          /\ b.finite = ~(ClusterSize(u) > 1 /\ v <= 1) /\ b.cycles = y
      BY <1>1, <1>2, <2>1, Zenon DEF Info, Sm90Info
    <3>3. QED BY <2>2, <3>1, <3>2, Zenon
  <2>5. ~costly /\ (dear \/ x < y)
    <3>1. CASE costly /\ dear
      <4>1. Precedes(<<1, 0>>, <<1, 0>>)
        BY <2>3, <3>1, Zenon
      <4>2. QED BY <4>1, PairPrecedes
    <3>2. CASE costly /\ ~dear
      <4>1. Precedes(<<1, 0>>, <<0, y>>)
        BY <2>3, <3>2, Zenon
      <4>2. QED BY <4>1, PairPrecedes
    <3>3. CASE ~costly /\ ~dear
      <4>1. Precedes(<<0, x>>, <<0, y>>)
        BY <2>3, <3>3, Zenon
      <4>2. x < y
        BY <4>1, PairPrecedes
      <4>3. QED BY <3>3, <4>2
    <3>4. QED BY <3>1, <3>2, <3>3, Zenon
  <2> HIDE DEF a, b
  <2>6. Sm90IsBetter(a, b)
    BY <2>4, <2>5, Zenon DEF Sm90IsBetter
  <2>7. QED BY <1>2, <2>6, Zenon DEF IsBetter, a, b
<1>3. CASE family # "sm90"
  <2>1. /\ a \in Sm100Infos /\ b \in Sm100Infos /\ a = Sm100Info(m, n, sms, t)
        /\ b = Sm100Info(m, n, sms, u)
    BY <1>3, InfoIsInfo DEF Families, Info
  <2>2. /\ a.waves \in Counts /\ a.last \in Nat /\ Size(a) \in Nat /\ Extent(a) \in Nat /\ Area(a) \in Nat
        /\ b.waves \in Counts /\ b.last \in Nat /\ Size(b) \in Nat /\ Extent(b) \in Nat /\ Area(b) \in Nat
    BY <2>1, Sm100Numbers DEF Counts
  <2>3. /\ MeritsOf(family, m, n, k, sms, t)
              = <<IF a.waves = 1 THEN 0 ELSE 1, -Size(a), a.waves, -a.last, Extent(a), Area(a)>>
        /\ MeritsOf(family, m, n, k, sms, u)
              = <<IF b.waves = 1 THEN 0 ELSE 1, -Size(b), b.waves, -b.last, Extent(b), Area(b)>>
    <3>1. /\ a.waves = Waves(m, n, sms, t) /\ a.last = LastWave(m, n, sms, t) /\ a.tile = t
          /\ b.waves = Waves(m, n, sms, u) /\ b.last = LastWave(m, n, sms, u) /\ b.tile = u
      BY <2>1 DEF Sm100Info
    <3>2. /\ Size(a) = ClusterSize(t) /\ Extent(a) = t.block_m + t.block_n
          /\ Area(a) = t.block_m * t.block_n
          /\ Size(b) = ClusterSize(u) /\ Extent(b) = u.block_m + u.block_n
          /\ Area(b) = u.block_m * u.block_n
      BY <3>1, Zenon DEF Size, Extent, Area
    <3> HIDE DEF a, b
    <3>3. MeritsOf(family, m, n, k, sms, t)
              = <<IF a.waves = 1 THEN 0 ELSE 1, -Size(a), a.waves, -a.last, Extent(a), Area(a)>>
      BY <1>3, <3>1, <3>2 DEF MeritsOf
    <3>4. MeritsOf(family, m, n, k, sms, u)
              = <<IF b.waves = 1 THEN 0 ELSE 1, -Size(b), b.waves, -b.last, Extent(b), Area(b)>>
      BY <1>3, <3>1, <3>2 DEF MeritsOf
    <3>5. QED BY <3>3, <3>4, Zenon
  <2> HIDE DEF a, b
  <2>4. Ladder(a.waves, Size(a), a.last, Extent(a), Area(a),
               b.waves, Size(b), b.last, Extent(b), Area(b))
    <3>1. Precedes(<<IF a.waves = 1 THEN 0 ELSE 1, -Size(a), a.waves, -a.last, Extent(a), Area(a)>>,
                   <<IF b.waves = 1 THEN 0 ELSE 1, -Size(b), b.waves, -b.last, Extent(b), Area(b)>>)
      BY <2>3, Zenon
    <3>2. QED BY <2>2, <3>1, LadderByMerit
  <2>5. QED BY <1>3, <2>4, Sm100Ladder, Zenon DEF IsBetter, a, b
<1>4. QED BY <1>2, <1>3

LEMMA ChosenIsBestHolds ==
    ASSUME SessionInv
    PROVE  ChosenIsBest
<1> SUFFICES ASSUME NEW i \in Gemms
             PROVE  LET tiles == Range(Candidates(arch, M(i), N(i), K(i), SmsOf(i)))
                        chosen == done[i].config.tile
                    IN chosen \in tiles /\ \A t \in tiles : ~Precedes(Merits(i, t), Merits(i, chosen))
  BY Zenon DEF ChosenIsBest
<1>1. PICK f \in Families, m \in Counts, n \in Counts, k \in Counts, sms \in Counts :
         /\ f = arch /\ m = M(i) /\ n = N(i) /\ k = K(i) /\ sms = SmsOf(i)
         /\ done[i].config = BestConfig(f, m, n, k, sms) /\ done[i].config # NoConfig
  BY GemmsAreChosen, Zenon
<1>2. k \in Nat /\ m \in Nat
  BY DEF Counts
<1>3. PICK candidates : candidates = Candidates(f, m, n, k, sms)
  OBVIOUS
<1>4. PICK b \in DOMAIN candidates :
         /\ BestConfig(f, m, n, k, sms) = Configured(f, k, candidates[b])
         /\ candidates[b] \in TilesOf(f)
         /\ \A j \in DOMAIN candidates :
               ~IsBetter(f, Info(f, m, n, k, sms, candidates[j]),
                            Info(f, m, n, k, sms, candidates[b]))
  BY <1>1, <1>2, <1>3, ChoiceIsBest, Zenon
<1>5. \A j \in DOMAIN candidates : candidates[j] \in TilesOf(f)
  BY <1>2, <1>3, CandidatesAreTiles, Zenon
<1>6. done[i].config.tile = candidates[b]
  <2>1. Configured(f, k, candidates[b]).tile = candidates[b]
    BY DEF Configured
  <2>2. QED BY <1>1, <1>4, <2>1, Zenon
<1>7. \A t : Merits(i, t) = MeritsOf(f, m, n, k, sms, t)
  BY <1>1, Zenon DEF Merits, MeritsOf
<1>8. \A j \in DOMAIN candidates :
         ~Precedes(MeritsOf(f, m, n, k, sms, candidates[j]), MeritsOf(f, m, n, k, sms, candidates[b]))
  BY <1>2, <1>4, <1>5, MoreMeritIsBetter, Zenon
<1>9. Range(Candidates(arch, M(i), N(i), K(i), SmsOf(i))) = {candidates[j] : j \in DOMAIN candidates}
  BY <1>1, <1>3, Zenon DEF Range
<1>10. QED BY <1>6, <1>7, <1>8, <1>9, Zenon

\* No candidate for a GEMM that is launched has more merit than its tile: the scan, which
\* compares each with the best so far (deepgemm_raw_gemm.cc:549, 731), finds an optimum of
\* the order that it is meant for.
THEOREM ChosenTilesAreBest == Spec => []ChosenIsBest
  BY SessionInvariant, ChosenIsBestHolds, PTL

-----------------------------------------------------------------------------
(* Scales that a GEMM takes from a transform *)

\* What the launcher of a GEMM saw of a scale that an earlier call returned.
ReadFits(x, rows) ==
    x.dtype = "returned" =>
        /\ x.call \in DOMAIN done /\ rows <= I32Max
        /\ done[x.call].view.dtype \in ScaleDTypes
        /\ done[x.call].view.shape[1] = rows /\ done[x.call].view.strides[1] = 1
ReadsFit(c) ==
    c.op = "gemm" => ReadFits(c.a_scale, c.a.shape[1]) /\ ReadFits(c.b_scale, c.b.shape[1])
ReadsInv == \A i \in DOMAIN done : ReadsFit(done[i].call)

\* The view of a launch tells which kind of call returned it.
LEMMA ViewsTell ==
    ASSUME NEW family, NEW d, d.call \in Pending, Made(family, d)
    PROVE  /\ d.call.op \in Ops
           /\ d.call.op \in {"mqa", "paged"} => d.view.strides[1] >= 256
           /\ d.call.op = "plan" => d.view.dtype = "i32"
           /\ d.call.op = "gemm" => d.view.dtype = "bf16"
           /\ d.call.op = "scale" => d.view.shape[1] = d.call.mn
<1>1. PICK c, l, v : c \in Pending /\ c = d.call /\ l = d.layout /\ v = d.view
  OBVIOUS
<1>2. /\ Ready(c) /\ l = LayoutOf(c)
      /\ v = IF c.out = FromLayout THEN ViewOf(c, l) ELSE LogicalSpec(l)
  BY <1>1, Zenon DEF Made
<1>3. v = ViewOf(c, l) \/ v = LogicalSpec(l)
  BY <1>2, Zenon
<1>4. v.dtype = l.dtype
  <2>1. LogicalSpec(l).dtype = l.dtype
    BY DEF LogicalSpec, Tensor
  <2>2. ViewOf(c, l).dtype = l.dtype
    BY Zenon DEF ViewOf, Contiguous, Tensor
  <2>3. QED BY <1>3, <2>1, <2>2, Zenon
<1>5. ASSUME c.op \in {"mqa", "paged"} PROVE v.strides[1] >= 256
  <2>1. FitsAt(c, l, ViewOf(c, l)) /\ l.strides[1] >= 256
    <3>1. CASE c.op = "mqa"
      BY <1>1, <1>2, <3>1, CallsByOp, MqaFits, Zenon
    <3>2. CASE c.op = "paged"
      BY <1>1, <1>2, <3>2, CallsByOp, PagedFits, Zenon
    <3>3. QED BY <1>5, <3>1, <3>2
  <2>2. ViewOf(c, l).strides = l.strides
    BY <2>1, Zenon DEF FitsAt
  <2>3. LogicalSpec(l).strides = l.strides
    BY DEF LogicalSpec, Tensor
  <2>4. QED BY <1>3, <2>1, <2>2, <2>3, Zenon
<1>6. c.op = "plan" => l.dtype = "i32"
  BY <1>2 DEF LayoutOf, MetadataLayout, Fill2D, Layout2D
<1>7. c.op = "gemm" => l.dtype = "bf16"
  BY <1>2 DEF LayoutOf, GemmOutputLayout, Fill2D, Layout2D
<1>8. ASSUME c.op = "scale" PROVE v.shape[1] = c.mn
  <2>1. l.logical[1] = c.mn
    <3>1. c \in AnyScale
      BY <1>1, <1>8, CallsByOp, Zenon
    <3>2. l = Layout2D(c.dtype, <<c.mn, ScaleCols(c)>>, <<ScaleCols(c), ScaleRows(c)>>,
                       <<1, ScaleRows(c)>>)
      BY <1>2, <3>1, ScaleIsLaidOut, Zenon
    <3>3. QED BY <3>2 DEF Layout2D
  <2>2. LogicalSpec(l).shape[1] = l.logical[1]
    BY DEF LogicalSpec, Tensor
  <2>3. ViewOf(c, l).shape[1] = l.logical[1]
    <3>1. ViewOf(c, l) = Tensor(l.dtype, <<l.logical[1], l.allocation[1]>>, <<1, l.allocation[2]>>)
      BY <1>8, Zenon DEF ViewOf
    <3>2. QED BY <3>1 DEF Tensor
  <2>4. QED BY <1>3, <2>1, <2>2, <2>3, Zenon
<1>9. c.op \in Ops
  BY <1>2, Zenon DEF Ready
<1>10. QED BY <1>1, <1>4, <1>5, <1>6, <1>7, <1>8, <1>9, Zenon

LEMMA ReadsKept ==
    ASSUME ReadsInv, done' = done
    PROVE  ReadsInv'
  BY Zenon DEF ReadsInv, ReadsFit, ReadFits

LEMMA ReadsLaunch ==
    ASSUME SessionInv, ReadsInv, Launch
    PROVE  ReadsInv'
<1>1. /\ MayLaunch /\ done' = Append(done, Launched)
  BY Zenon DEF Launch
<1>2. todo # <<>> /\ LauncherAccepts(Call, OutSpec)
  BY <1>1, Zenon DEF MayLaunch, Allocated, Running
<1>3. PICK d, c : d = Launched /\ c = Head(todo)
  OBVIOUS
<1>4. d \in Launches /\ d.call = c
  BY <1>1, <1>3, LaunchedIsMade, Zenon DEF Launched, Call
<1>5. todo \in Seq(Pending) /\ done \in Seq(Launches) /\ arch \in Families
  BY Zenon DEF SessionInv, TypesInv
<1>6. c \in Pending /\ UsesBefore(c, Len(done) + 1)
  <2>1. c \in Pending /\ c = todo[1] /\ 1 \in DOMAIN todo
    BY <1>2, <1>3, <1>5, FirstOf, Zenon
  <2>2. QED BY <2>1, Zenon DEF SessionInv, UsesInv
<1>7. /\ Len(done) \in Nat /\ DOMAIN done' = DOMAIN done \cup {Len(done) + 1}
      /\ \A i \in DOMAIN done : done'[i] = done[i]
      /\ done'[Len(done) + 1] = d
  <2>1. done' = Append(done, d)
    BY <1>1, <1>3, Zenon
  <2>2. QED BY <1>4, <1>5, <2>1, OneAfter
<1>8. ASSUME NEW x, NEW rows, ReadFits(x, rows) PROVE ReadFits(x, rows)'
  BY <1>7, <1>8, Zenon DEF ReadFits
<1>9. \A i \in DOMAIN done : ReadsFit(done[i].call)'
  BY <1>7, <1>8, Zenon DEF ReadsInv, ReadsFit
<1>10. ReadsFit(c)
  <2>1. SUFFICES ASSUME c.op = "gemm"
                 PROVE  ReadFits(c.a_scale, c.a.shape[1]) /\ ReadFits(c.b_scale, c.b.shape[1])
    BY Zenon DEF ReadsFit
  <2>2. PICK m, n, k : m = c.a.shape[1] /\ n = c.b.shape[1] /\ k = c.a.shape[2]
    OBVIOUS
  <2>3. /\ \A y \in GemmSizes(m, n, k) : FitsI32(y)
        /\ IF arch = "sm90"
           THEN /\ NativeScale(Given(c.a_scale), m, k, 128, "f32")
                /\ NativeIs(c.b_scale, "f32", <<CeilDiv(n, 128), CeilDiv(k, 128)>>)
           ELSE /\ NativeScale(Given(c.a_scale), m, k, 128, "ue8m0")
                /\ NativeScale(Given(c.b_scale), n, k, 128, "ue8m0")
    <3>1. NativeGemm(c, OutSpec)
      BY <1>2, <1>3, <2>1, Zenon DEF LauncherAccepts, Call
    <3>2. QED BY <2>2, <3>1, Zenon DEF NativeGemm
  <2>4. m <= I32Max /\ n <= I32Max
    BY <2>3, Zenon DEF GemmSizes, FitsI32
  <2>5. c \in AnyGemm
    BY <1>6, <2>1, CallsByOp, Zenon
  <2>6. /\ c.a_scale \in Inputs(c) /\ c.b_scale \in Inputs(c)
    BY <2>1, Zenon DEF Inputs
  <2>7. ASSUME NEW x \in Inputs(c), x.dtype = "returned"
        PROVE  x.call \in DOMAIN done /\ Given(x) = done[x.call].view
    <3>1. x.call \in Nat \ {0}
      BY <1>6, <2>7, InputsAreInputs, ResultsAreResults
    <3>2. x.call < Len(done) + 1
      BY <1>6, <2>7, Zenon DEF UsesBefore
    <3>3. DOMAIN done = 1..Len(done)
      BY <1>5
    <3>4. QED BY <1>7, <2>7, <3>1, <3>2, <3>3 DEF Given
  <2>8. ASSUME NEW x \in Inputs(c), NEW rows, rows <= I32Max, NEW dtype \in ScaleDTypes,
               NativeScale(Given(x), rows, k, 128, dtype)
        PROVE  ReadFits(x, rows)
    <3>1. SUFFICES ASSUME x.dtype = "returned" PROVE ReadFits(x, rows)
      BY Zenon DEF ReadFits
    <3>2. PICK v : v = done[x.call].view
      OBVIOUS
    <3>3. x.call \in DOMAIN done /\ Given(x) = v
      BY <2>7, <3>1, <3>2, Zenon
    <3>4. /\ v.dtype = dtype /\ v.shape = <<rows, CeilDiv(k, 128 * Packing(dtype))>>
          /\ v.strides = <<1, TmaAligned(rows, ElemSize(dtype))>>
      BY <2>8, <3>3, Zenon DEF NativeScale
    <3>5. v.shape[1] = rows /\ v.strides[1] = 1
      BY <3>4
    <3>6. QED BY <2>8, <3>2, <3>3, <3>4, <3>5, Zenon DEF ReadFits
  <2>9. "f32" \in ScaleDTypes /\ "ue8m0" \in ScaleDTypes
    BY DEF ScaleDTypes
  <2>10. CASE arch = "sm90"
    <3>1. ReadFits(c.a_scale, m)
      BY <2>3, <2>4, <2>6, <2>8, <2>9, <2>10, Zenon
    <3>2. c.b_scale.dtype = "f32"
      <4>1. c.b_scale = Contiguous("f32", <<CeilDiv(n, 128), CeilDiv(k, 128)>>)
        BY <2>3, <2>10, Zenon DEF NativeIs, Is
      <4>2. \A dtype, shape : Contiguous(dtype, shape).dtype = dtype
        BY Zenon DEF Contiguous, Tensor
      <4>3. QED BY <4>1, <4>2, Zenon
    <3>3. ReadFits(c.b_scale, n)
      BY <3>2 DEF ReadFits
    <3>4. QED BY <2>2, <3>1, <3>3, Zenon
  <2>11. CASE arch # "sm90"
    <3>1. ReadFits(c.a_scale, m) /\ ReadFits(c.b_scale, n)
      BY <2>3, <2>4, <2>6, <2>8, <2>9, <2>11, Zenon
    <3>2. QED BY <2>2, <3>1, Zenon
  <2>12. QED BY <2>10, <2>11
<1>11. ReadsFit(c)'
  <2>1. PICK s, u : s = c /\ u = done'[Len(done) + 1].call
    OBVIOUS
  <2>2. ReadsFit(s)'
    BY <1>8, <1>10, <2>1, Zenon DEF ReadsFit
  <2>3. QED BY <2>1, <2>2, Zenon
<1>12. QED BY <1>4, <1>7, <1>9, <1>11, Zenon DEF ReadsInv

\* The scales that a GEMM took from an earlier call had, when it was launched, the dtype, the
\* rows and the stride that its launcher demands (deepgemm_raw_gemm.cc:290), and what returned
\* them stays as it was.
THEOREM ReadsInvariant == Spec => [](SessionInv /\ ReadsInv)
<1>1. Init => SessionInv /\ ReadsInv
  <2>1. Init => done = <<>>
    BY Zenon DEF Init
  <2>2. QED BY <2>1, SessionInit DEF ReadsInv
<1>2. SessionInv /\ ReadsInv /\ [Next]_vars => (SessionInv /\ ReadsInv)'
  <2>1. ASSUME SessionInv, ReadsInv, Next PROVE SessionInv' /\ ReadsInv'
    <3>1. SessionInv'
      BY <2>1, SessionStep
    <3>2. Launch \/ done' = done
      BY <2>1, Zenon DEF Next, MqaLogits, PagedPlan, PagedMqaLogits, PrepareScale, GemmPrepared,
         Layout, GemmRaw, GemmRawB, Refuse, RefuseRaw, RefuseOutput, Reject, GiveUp, Allocate,
         Finish, Finished, vars
    <3>3. QED BY <2>1, <3>1, <3>2, ReadsKept, ReadsLaunch
  <2>2. ASSUME SessionInv, ReadsInv, UNCHANGED vars PROVE SessionInv' /\ ReadsInv'
    <3>1. SessionInv'
      BY <2>2, SessionKept DEF vars, SessionInv, TypesInv
    <3>2. QED BY <2>2, <3>1, ReadsKept DEF vars
  <2>3. QED BY <2>1, <2>2
<1>3. QED BY <1>1, <1>2, PTL DEF Spec

LEMMA RowsThatFit ==
    ASSUME NEW c, c.mn \in Nat, c.mn <= I32Max
    PROVE  c.mn <= RowsWritten(c)
<1>1. I32Max \in Nat
  BY ContractsAssumption
<1>2. c.mn % (2 * (I32Max + 1)) = c.mn
  BY <1>1
<1>3. RowsWritten(c) = c.mn
  BY <1>2, Zenon DEF RowsWritten
<1>4. QED BY <1>3

LEMMA ScalesReadHolds ==
    ASSUME SessionInv, ReadsInv
    PROVE  ScalesReadAreWritten
<1>1. ASSUME NEW i \in Gemms, NEW x, NEW rows, ReadFits(x, rows), x.dtype = "returned"
      PROVE  done[x.call].call.op = "scale" /\ rows <= RowsWritten(done[x.call].call)
  <2>1. PICK d : d = done[x.call]
    OBVIOUS
  <2>2. /\ x.call \in DOMAIN done /\ rows <= I32Max
        /\ d.view.dtype \in ScaleDTypes /\ d.view.shape[1] = rows /\ d.view.strides[1] = 1
    BY <1>1, <2>1, Zenon DEF ReadFits
  <2>3. d.call \in Pending /\ Made(arch, d)
    BY <2>1, <2>2, LaunchesAreLaunches, Zenon
  <2>4. /\ d.call.op \in Ops
        /\ d.call.op \in {"mqa", "paged"} => d.view.strides[1] >= 256
        /\ d.call.op = "plan" => d.view.dtype = "i32"
        /\ d.call.op = "gemm" => d.view.dtype = "bf16"
        /\ d.call.op = "scale" => d.view.shape[1] = d.call.mn
    BY <2>3, ViewsTell
  <2>5. d.call.op = "scale"
    BY <2>2, <2>4 DEF Ops, ScaleDTypes
  <2>6. d.call \in AnyScale
    BY <2>3, <2>5, CallsByOp, Zenon
  <2>7. d.call.mn \in Nat /\ d.call.mn = rows
    BY <2>2, <2>4, <2>5, <2>6, Zenon DEF AnyScale
  <2>8. rows <= RowsWritten(d.call)
    BY <2>2, <2>7, RowsThatFit
  <2>9. QED BY <2>1, <2>5, <2>8, Zenon
<1>2. ASSUME NEW i \in Gemms
      PROVE  /\ ReadFits(done[i].call.a_scale, M(i)) /\ ReadFits(done[i].call.b_scale, N(i))
  BY Zenon DEF Gemms, ReadsInv, ReadsFit, M, N
<1>3. SUFFICES ASSUME NEW i \in Gemms,
                      NEW read \in {<<done[i].call.a_scale, M(i)>>, <<done[i].call.b_scale, N(i)>>},
                      read[1].dtype = "returned"
               PROVE  /\ done[read[1].call].call.op = "scale"
                      /\ read[2] <= RowsWritten(done[read[1].call].call)
  BY Zenon DEF ScalesReadAreWritten
<1>4. PICK x, rows : x = read[1] /\ rows = read[2]
  OBVIOUS
<1>5. (x = done[i].call.a_scale /\ rows = M(i)) \/ (x = done[i].call.b_scale /\ rows = N(i))
  BY <1>4
<1>6. ReadFits(x, rows)
  BY <1>2, <1>5, Zenon
<1>7. QED BY <1>1, <1>3, <1>4, <1>6, Zenon

\* Every row of scales that a GEMM reads was written by the transform that returned them,
\* though the transform is told the rows in 32 bits (deepgemm_raw_gemm.cc:1142): what returned
\* them was a transform, and its rows are those of the operand.
THEOREM ScalesAreWritten == Spec => []ScalesReadAreWritten
  BY ReadsInvariant, ScalesReadHolds, PTL

-----------------------------------------------------------------------------
(* What the launchers take, the crate does not refuse *)

LEMMA SpecsHaveTheDType ==
    ASSUME NEW c, c.op \in {"mqa", "paged", "scale"}
    PROVE  LogicalSpec(LayoutOf(c)).dtype = c.dtype
<1>1. \A l : LogicalSpec(l).dtype = l.dtype
  BY Zenon DEF LogicalSpec, Tensor
<1>2. LayoutOf(c).dtype = c.dtype
  <2>1. \A dtype, logical, allocation, strides :
           Layout2D(dtype, logical, allocation, strides).dtype = dtype
    BY Zenon DEF Layout2D
  <2>2. \A dtype, rows, cols, allocRows, allocCols :
           Fill2D(dtype, rows, cols, allocRows, allocCols).dtype = dtype
    BY <2>1, Zenon DEF Fill2D
  <2>3. CASE c.op = "mqa"
    <3>1. \A seq, kv, heads, maxK, dtype : MqaLayout(seq, kv, heads, maxK, dtype).dtype = dtype
      BY <2>2 DEF MqaLayout
    <3>2. QED BY <2>3, <3>1 DEF LayoutOf
  <2>4. CASE c.op = "paged"
    <3>1. \A batch, nextN, maxLen, dtype : PagedLayout(batch, nextN, maxLen, dtype).dtype = dtype
      BY <2>2 DEF PagedLayout
    <3>2. QED BY <2>4, <3>1 DEF LayoutOf
  <2>5. CASE c.op = "scale"
    <3>1. \A mn, k, granK, dtype : ScaleLayout(mn, k, granK, dtype).dtype = dtype
      BY <2>1, Zenon DEF ScaleLayout
    <3>2. QED BY <2>5, <3>1 DEF LayoutOf
  <2>6. QED BY <2>3, <2>4, <2>5
<1>3. QED BY <1>1, <1>2, Zenon

LEMMA NativeHeadsAreSupported ==
    ASSUME arch \in Families, NEW fp4 \in BOOLEAN, NEW heads, NEW headDim,
           NativeHeads(fp4, heads, headDim)
    PROVE  SupportsHeads(fp4, heads, headDim)
<1>1. arch = "sm90" \/ arch = "sm100"
  BY DEF Families
<1>2. CASE arch = "sm90"
  BY <1>2 DEF NativeHeads, SupportsHeads
<1>3. CASE arch = "sm100"
  BY <1>3 DEF NativeHeads, SupportsHeads
<1>4. QED BY <1>1, <1>2, <1>3

LEMMA NativeMqaIsAccepted ==
    ASSUME arch \in Families, NEW c \in AnyMqa, NativeMqa(c, LogicalSpec(LayoutOf(c)))
    PROVE  Accepts(c)
<1>1. PICK out, fp4, seq, heads, dim, kv :
         /\ out = LogicalSpec(LayoutOf(c)) /\ fp4 = (c.q_scale # NoTensor)
         /\ seq = c.q.shape[1] /\ heads = c.q.shape[2] /\ dim = c.q.shape[3]
         /\ kv = c.kv.shape[1]
  OBVIOUS
<1>2. c.op = "mqa" /\ out.dtype = c.dtype /\ fp4 \in BOOLEAN
  BY <1>1, OpsOfCalls, SpecsHaveTheDType
<1>3. /\ NativeIs(c.q, Packed(fp4), c.q.shape)
      /\ NativeIs(c.kv, Packed(fp4), <<kv, dim>>)
      /\ fp4 => NativeIs(c.q_scale, "ue8m0", <<seq, heads>>)
      /\ NativeIs(c.kv_scale, IF fp4 THEN "ue8m0" ELSE "f32", <<kv>>)
      /\ NativeWeights(c.weights, seq, heads, out)
      /\ Is(c.start, "i32", <<seq>>) /\ Is(c.end, "i32", <<seq>>)
      /\ ~(c.clean /\ c.max_k > 0)
      /\ NativeLogits(out, seq, IF c.max_k = 0 THEN kv ELSE c.max_k,
                      MqaStride(kv, c.max_k, out.dtype))
      /\ NativeHeads(fp4, heads, HeadDim(fp4, dim))
  BY <1>1, Zenon DEF NativeMqa
<1>4. c.dtype \in LogitsDType
  BY <1>2, <1>3, Zenon DEF NativeLogits
<1>5. AcceptsWeights(c.weights, seq, heads, c.dtype)
  BY <1>2, <1>3 DEF NativeWeights, AcceptsWeights
<1>6. SupportsHeads(fp4, heads, HeadDim(fp4, dim))
  BY <1>2, <1>3, NativeHeadsAreSupported, Zenon
<1>7. seq > 0 /\ dim > 0
  <2>1. Positive(c.q.shape)
    BY <1>3, Zenon DEF NativeIs
  <2>2. DOMAIN c.q.shape = 1..3
    BY DEF AnyMqa, Tensors
  <2>3. 1 \in 1..3 /\ 3 \in 1..3
    OBVIOUS
  <2>4. QED BY <1>1, <2>1, <2>2, <2>3, Zenon DEF Positive
<1>8. kv > 0
  <2>1. Positive(<<kv>>)
    BY <1>3, Zenon DEF NativeIs
  <2>2. 1 \in DOMAIN <<kv>> /\ <<kv>>[1] = kv
    OBVIOUS
  <2>3. QED BY <2>1, <2>2, Zenon DEF Positive
<1>9. AcceptsMqa(c)
  BY <1>1, <1>3, <1>4, <1>5, <1>6, <1>7, Zenon DEF AcceptsMqa, NativeIs
<1>10. QED BY <1>1, <1>2, <1>7, <1>8, <1>9, Zenon DEF Accepts

LEMMA NativeIndicesAreAccepted ==
    ASSUME NEW x, NEW batch, NEW nextN,
           x # NoTensor => Is(x, "i32", <<batch>>) /\ arch = "sm100" /\ nextN = 1
    PROVE  AcceptsIndices(x, batch, nextN)
  BY Zenon DEF AcceptsIndices

LEMMA NativeBlocksAreSupported ==
    ASSUME NEW blockKv, blockKv = 64 \/ (arch = "sm100" /\ blockKv = 32)
    PROVE  SupportsBlockKv(blockKv)
  BY DEF SupportsBlockKv

LEMMA NativePlanIsAccepted ==
    ASSUME NEW c \in AnyPlan, NativePlan(c, LogicalSpec(LayoutOf(c)))
    PROVE  Accepts(c)
<1>1. PICK batch, nextN : batch = c.context_lens.shape[1] /\ nextN = c.context_lens.shape[2]
  OBVIOUS
<1>2. c.op = "plan"
  BY OpsOfCalls, Zenon
<1>3. /\ NativeIs(c.context_lens, "i32", c.context_lens.shape) /\ c.sms > 0
      /\ c.indices # NoTensor =>
            Is(c.indices, "i32", <<batch>>) /\ arch = "sm100" /\ nextN = 1
      /\ c.block_kv = 64 \/ (arch = "sm100" /\ c.block_kv = 32)
  BY <1>1, Zenon DEF NativePlan
<1>4. AcceptsIndices(c.indices, batch, nextN) /\ SupportsBlockKv(c.block_kv)
  BY <1>3, NativeIndicesAreAccepted, NativeBlocksAreSupported, Zenon
<1>5. AcceptsPlan(c)
  BY <1>1, <1>3, <1>4, Zenon DEF AcceptsPlan, NativeIs
<1>6. QED BY <1>2, <1>5, Zenon DEF Accepts

LEMMA NativePagedIsAccepted ==
    ASSUME arch \in Families, NEW c \in AnyPaged, NativePaged(c, LogicalSpec(LayoutOf(c))),
           c.out = FromLayout => c.plan_block_kv = c.cache.shape[2]
    PROVE  Accepts(c)
<1>1. PICK out, fp4, batch, nextN, heads, dim, blockKv :
         /\ out = LogicalSpec(LayoutOf(c)) /\ fp4 = (c.q_scale # NoTensor)
         /\ batch = c.q.shape[1] /\ nextN = c.q.shape[2]
         /\ heads = c.q.shape[3] /\ dim = c.q.shape[4] /\ blockKv = c.cache.shape[2]
  OBVIOUS
<1>2. c.op = "paged" /\ out.dtype = c.dtype /\ fp4 \in BOOLEAN
  BY <1>1, OpsOfCalls, SpecsHaveTheDType
<1>3. /\ NativeIs(c.q, Packed(fp4), c.q.shape)
      /\ fp4 => NativeIs(c.q_scale, "ue8m0", <<batch, nextN, heads>>)
      /\ NativeIs(c.cache, "u8", <<c.cache.shape[1], blockKv, 1, dim + 4>>)
      /\ NativeWeights(c.weights, batch * nextN, heads, out)
      /\ NativeIs(c.context_lens, "i32", <<batch, nextN>>)
      /\ c.block_table.dtype = "i32"
      /\ c.block_table.shape[1] = batch /\ c.block_table.strides[2] = 1
      /\ c.sms > 0
      /\ NativeIs(Given(c.schedule_meta), "i32", <<c.sms + 1, 2>>)
      /\ c.indices # NoTensor =>
            Is(c.indices, "i32", <<batch>>) /\ arch = "sm100" /\ nextN = 1
      /\ c.max_len > 0 /\ ~c.clean
      /\ NativeLogits(out, batch * nextN, c.max_len, PagedStride(c.max_len, out.dtype))
      /\ blockKv = 64 \/ (arch = "sm100" /\ blockKv = 32)
      /\ arch = "sm90" => nextN \in {1, 2}
      /\ NativeHeads(fp4, heads, HeadDim(fp4, dim))
  BY <1>1, Zenon DEF NativePaged
<1>4. c.dtype \in LogitsDType
  BY <1>2, <1>3, Zenon DEF NativeLogits
<1>5. AcceptsWeights(c.weights, batch * nextN, heads, c.dtype)
  BY <1>2, <1>3, Zenon DEF NativeWeights, AcceptsWeights
<1>6. SupportsHeads(fp4, heads, HeadDim(fp4, dim))
  BY <1>2, <1>3, NativeHeadsAreSupported, Zenon
<1>7. batch > 0 /\ nextN > 0 /\ dim > 0
  <2>1. Positive(c.q.shape)
    BY <1>3, Zenon DEF NativeIs
  <2>2. DOMAIN c.q.shape = 1..4
    BY DEF AnyPaged, Tensors
  <2>3. 1 \in 1..4 /\ 2 \in 1..4 /\ 4 \in 1..4
    OBVIOUS
  <2>4. QED BY <1>1, <2>1, <2>2, <2>3, Zenon DEF Positive
<1>8. AcceptsIndices(c.indices, batch, nextN) /\ SupportsBlockKv(blockKv)
  BY <1>3, NativeIndicesAreAccepted, NativeBlocksAreSupported, Zenon
<1>9. AcceptsPaged(c)
  <2>1. /\ Is(c.q, Packed(fp4), c.q.shape)
        /\ fp4 => Is(c.q_scale, "ue8m0", <<batch, nextN, heads>>)
        /\ Is(c.cache, "u8", <<c.cache.shape[1], blockKv, 1, dim + 4>>)
        /\ Is(c.context_lens, "i32", <<batch, nextN>>)
        /\ Is(Given(c.schedule_meta), "i32", <<c.sms + 1, 2>>)
    BY <1>3, Zenon DEF NativeIs
  <2>2. QED BY <1>1, <1>3, <1>4, <1>5, <1>6, <1>7, <1>8, <2>1, Zenon DEF AcceptsPaged
<1>10. QED BY <1>1, <1>2, <1>7, <1>9, Zenon DEF Accepts

LEMMA NativeTransformIsAccepted ==
    ASSUME NEW c \in AnyScale, NativeTransform(c, LogicalSpec(LayoutOf(c)))
    PROVE  Accepts(c)
<1>1. c.op = "scale" /\ LogicalSpec(LayoutOf(c)).dtype = c.dtype
  BY OpsOfCalls, SpecsHaveTheDType
<1>2. /\ Positive(<<c.mn, c.k, c.gran_mn, c.gran_k>>)
      /\ NativeIs(c.scale, "f32", <<CeilDiv(c.mn, c.gran_mn), CeilDiv(c.k, c.gran_k)>>)
      /\ c.dtype \in {"f32", "ue8m0"}
  BY <1>1, Zenon DEF NativeTransform
<1>3. c.mn > 0 /\ c.k > 0 /\ c.gran_mn > 0 /\ c.gran_k > 0
  <2>1. PICK s : s = <<c.mn, c.k, c.gran_mn, c.gran_k>>
    OBVIOUS
  <2>2. /\ 1 \in DOMAIN s /\ s[1] = c.mn /\ 2 \in DOMAIN s /\ s[2] = c.k
        /\ 3 \in DOMAIN s /\ s[3] = c.gran_mn /\ 4 \in DOMAIN s /\ s[4] = c.gran_k
    BY <2>1
  <2>3. Positive(s)
    BY <1>2, <2>1, Zenon
  <2>4. QED BY <2>2, <2>3, Zenon DEF Positive
<1>4. AcceptsScale(c)
  BY <1>2, <1>3, Zenon DEF AcceptsScale, NativeIs
<1>5. QED BY <1>1, <1>4, Zenon DEF Accepts

\* What the current call is given is a tensor: its own, or one that was returned.
LEMMA GivenIsTensor ==
    ASSUME SessionInv, todo # <<>>, NEW x \in Inputs(Call)
    PROVE  Given(x) \in Tensors(2)
<1>1. todo \in Seq(Pending) /\ done \in Seq(Launches)
  BY Zenon DEF SessionInv, TypesInv
<1>2. PICK c : c = Head(todo)
  OBVIOUS
<1>3. c \in Pending /\ UsesBefore(c, Len(done) + 1)
  <2>1. c \in Pending /\ c = todo[1] /\ 1 \in DOMAIN todo
    BY <1>1, <1>2, FirstOf, Zenon
  <2>2. QED BY <2>1, Zenon DEF SessionInv, UsesInv
<1>4. x \in Inputs(c) /\ x \in Tensors(2) \cup Results
  BY <1>2, <1>3, InputsAreInputs, Zenon DEF Call
<1>5. CASE x.dtype # "returned"
  <2>1. x \in Tensors(2)
    BY <1>4, <1>5, ResultsAreResults, Zenon
  <2>2. QED BY <1>5, <2>1, Zenon DEF Given
<1>6. CASE x.dtype = "returned"
  <2>1. x.call \in Nat \ {0}
    BY <1>4, <1>6, ResultsAreResults, Zenon
  <2>2. x.call < Len(done) + 1
    BY <1>3, <1>4, <1>6, Zenon DEF UsesBefore
  <2>3. Len(done) \in Nat /\ DOMAIN done = 1..Len(done)
    BY <1>1
  <2>4. x.call \in DOMAIN done
    BY <2>1, <2>2, <2>3
  <2>5. done[x.call] \in Launches
    BY <1>1, <2>4
  <2>6. done[x.call].view \in Tensors(2)
    BY <2>5, Zenon DEF Launches
  <2>7. QED BY <1>6, <2>6, Zenon DEF Given
<1>7. QED BY <1>5, <1>6

\* A tensor is what its three fields say.
LEMMA TensorIsItsFields ==
    ASSUME NEW x \in Tensors(2)
    PROVE  x = Tensor(x.dtype, x.shape, x.strides)
  BY DEF Tensor, Tensors

LEMMA NativeScaleIsPrepared ==
    ASSUME NEW x \in Tensors(2), NEW mn \in Counts, NEW k \in Counts, NEW dtype \in ScaleDTypes,
           NativeScale(x, mn, k, 128, dtype)
    PROVE  x = LogicalSpec(ScaleLayout(mn, k, 128, dtype))
<1>1. PICK cols, rows : /\ cols = CeilDiv(k, 128 * Packing(dtype))
                        /\ rows = AlignUp(mn, 16 \div ElemSize(dtype))
  OBVIOUS
<1>2. TmaAligned(mn, ElemSize(dtype)) = rows
  BY <1>1, ScaleNumbers, Zenon
<1>3. x.dtype = dtype /\ x.shape = <<mn, cols>> /\ x.strides = <<1, rows>>
  BY <1>1, <1>2, Zenon DEF NativeScale
<1>4. x = Tensor(dtype, <<mn, cols>>, <<1, rows>>)
  BY <1>3, TensorIsItsFields
<1>5. PICK l : l = Layout2D(dtype, <<mn, cols>>, <<cols, rows>>, <<1, rows>>)
  OBVIOUS
<1>6. l.dtype = dtype /\ l.logical = <<mn, cols>> /\ l.strides = <<1, rows>>
  BY <1>5, Zenon DEF Layout2D
<1>7. LogicalSpec(l) = Tensor(dtype, <<mn, cols>>, <<1, rows>>)
  BY <1>6, Zenon DEF LogicalSpec
<1>8. ScaleLayout(mn, k, 128, dtype) = l
  BY <1>1, <1>5, Zenon DEF ScaleLayout
<1>9. QED BY <1>4, <1>7, <1>8, Zenon

LEMMA NativeGemmIsAccepted ==
    ASSUME NEW c \in AnyGemm, NEW out, NativeGemm(c, out),
           \A x \in Inputs(c) : Given(x) \in Tensors(2)
    PROVE  Accepts(c)
<1>1. PICK m, n, k : m = c.a.shape[1] /\ n = c.b.shape[1] /\ k = c.a.shape[2]
  OBVIOUS
<1>2. c.op = "gemm"
  BY OpsOfCalls, Zenon
<1>3. /\ NativeIs(c.a, "fp8", <<m, k>>) /\ NativeIs(c.b, "fp8", <<n, k>>)
      /\ n % 8 = 0
      /\ IF arch = "sm90"
         THEN /\ NativeScale(Given(c.a_scale), m, k, 128, "f32")
              /\ NativeIs(c.b_scale, "f32", <<CeilDiv(n, 128), CeilDiv(k, 128)>>)
         ELSE /\ NativeScale(Given(c.a_scale), m, k, 128, "ue8m0")
              /\ NativeScale(Given(c.b_scale), n, k, 128, "ue8m0")
  BY <1>1, Zenon DEF NativeGemm
<1>4. m \in Counts /\ n \in Counts /\ k \in Counts
  <2>1. m \in Nat /\ n \in Nat /\ k \in Nat
    <3>1. c.a \in Tensors(2) /\ c.b \in Tensors(2)
      BY Zenon DEF AnyGemm
    <3>2. c.a.shape \in [1..2 -> Nat] /\ c.b.shape \in [1..2 -> Nat]
      BY <3>1, Zenon DEF Tensors
    <3>3. QED BY <1>1, <3>2, PairOf, Zenon
  <2>2. \A x, y : Positive(<<x, y>>) => x > 0 /\ y > 0
    <3>1. \A x, y : 1 \in DOMAIN <<x, y>> /\ 2 \in DOMAIN <<x, y>> /\ <<x, y>>[1] = x /\ <<x, y>>[2] = y
      OBVIOUS
    <3>2. QED BY <3>1, Zenon DEF Positive
  <2>3. Positive(<<m, k>>) /\ Positive(<<n, k>>)
    BY <1>3, Zenon DEF NativeIs
  <2>4. m > 0 /\ n > 0 /\ k > 0
    BY <2>2, <2>3, Zenon
  <2>5. QED BY <2>1, <2>4 DEF Counts
<1>5. m > 0 /\ n > 0 /\ k > 0
  BY <1>4 DEF Counts
<1>6. Given(c.a_scale) \in Tensors(2) /\ Given(c.b_scale) \in Tensors(2)
  BY <1>2, Zenon DEF Inputs
<1>7. "f32" \in ScaleDTypes /\ "ue8m0" \in ScaleDTypes
  BY DEF ScaleDTypes
<1>8. CASE arch = "sm90"
  <2>1. Given(c.a_scale) = LogicalSpec(ScaleLayout(m, k, 128, "f32"))
    BY <1>3, <1>4, <1>6, <1>7, <1>8, NativeScaleIsPrepared, Zenon
  <2>2. AcceptsGemm(c)
    BY <1>1, <1>3, <1>5, <1>8, <2>1, Zenon DEF AcceptsGemm, NativeIs
  <2>3. QED BY <1>2, <2>2, Zenon DEF Accepts
<1>9. CASE arch # "sm90"
  <2>0. /\ NativeScale(Given(c.a_scale), m, k, 128, "ue8m0")
        /\ NativeScale(Given(c.b_scale), n, k, 128, "ue8m0")
    BY <1>3, <1>9, Zenon
  <2>1. Given(c.a_scale) = LogicalSpec(ScaleLayout(m, k, 128, "ue8m0"))
    BY <1>4, <1>6, <1>7, <2>0, NativeScaleIsPrepared
  <2>3. Given(c.b_scale) = LogicalSpec(ScaleLayout(n, k, 128, "ue8m0"))
    BY <1>4, <1>6, <1>7, <2>0, NativeScaleIsPrepared
  <2>2. AcceptsGemm(c)
    BY <1>1, <1>3, <1>5, <1>9, <2>1, <2>3, Zenon DEF AcceptsGemm, NativeIs
  <2>4. QED BY <1>2, <2>2, Zenon DEF Accepts
<1>10. QED BY <1>8, <1>9

\* What the crate refuses is refused as it stands.
RefusedInv ==
    result = "refused" /\ layout = NoLayout /\ Call.op \in Ops => todo # <<>> /\ ~Accepts(Call)

LEMMA AcceptsKept ==
    ASSUME UNCHANGED <<arch, todo, done>>, (Accepts(Call))'
    PROVE  Accepts(Call)
<1>1. PICK c : c = Call
  OBVIOUS
<1>2. \A x : Given(x)' = Given(x)
  BY Zenon DEF Given
<1>3. AcceptsMqa(c)' => AcceptsMqa(c)
  BY DEF AcceptsMqa, AcceptsWeights, SupportsHeads
<1>4. AcceptsPlan(c)' => AcceptsPlan(c)
  BY DEF AcceptsPlan, SupportsBlockKv, AcceptsIndices
<1>5. AcceptsPaged(c)' => AcceptsPaged(c)
  BY DEF AcceptsPaged, AcceptsWeights, SupportsHeads, SupportsBlockKv, AcceptsIndices, Given
<1>6. AcceptsGemm(c)' => AcceptsGemm(c)
  BY <1>2 DEF AcceptsGemm, Given
<1>7. Accepts(c)'
  BY <1>1 DEF Call
<1>8. Accepts(c)
  BY <1>3, <1>4, <1>5, <1>6, <1>7, Zenon DEF Accepts, AcceptsScale
<1>9. QED BY <1>1, <1>8, Zenon

LEMMA RefusedStep ==
    ASSUME SessionInv, RefusedInv, [Next]_vars
    PROVE  RefusedInv'
<1>1. CASE Refuse
  <2>1. result' = "refused" /\ UNCHANGED <<arch, todo, layout, done>> /\ todo # <<>> /\ ~Accepts(Call)
    BY <1>1, Zenon DEF Refuse, GiveUp, Running
  <2>2. (Accepts(Call))' => Accepts(Call)
    BY <2>1, AcceptsKept
  <2>3. QED BY <2>1, <2>2, Zenon DEF RefusedInv
<1>2. CASE RefuseRaw
  <2>1. Call' = Call /\ (Call.op = "raw_gemm" \/ Call.op = "raw_b")
    BY <1>2, Zenon DEF RefuseRaw, GiveUp, Calling, Call
  <2>2. Call'.op \notin Ops
    BY <2>1 DEF Ops
  <2>3. QED BY <2>2, Zenon DEF RefusedInv
<1>3. CASE RefuseOutput
  <2>1. layout' = layout /\ view # NoTensor
    BY <1>3, Zenon DEF RefuseOutput, GiveUp, Allocated
  <2>2. layout' # NoLayout
    BY <2>1, Zenon DEF SessionInv, CurrentInv
  <2>3. QED BY <2>2, Zenon DEF RefusedInv
<1>4. CASE UNCHANGED vars
  <2>1. UNCHANGED <<arch, todo, layout, done, result>>
    BY <1>4, Zenon DEF vars
  <2>2. (Accepts(Call))' => Accepts(Call)
    BY <2>1, AcceptsKept
  <2>3. QED BY <2>1, <2>2, Zenon DEF RefusedInv, Call
<1>5. CASE Reject \/ Finish
  <2>1. result' = "rejected" \/ result' = "ok"
    BY <1>5, Zenon DEF Reject, Finish, GiveUp
  <2>2. QED BY <2>1 DEF RefusedInv
<1>6. CASE MqaLogits \/ PagedPlan \/ PagedMqaLogits \/ PrepareScale \/ GemmPrepared
           \/ GemmRaw \/ GemmRawB \/ Allocate \/ Launch
  <2>1. result = "none" /\ result' = result
    BY <1>6, Zenon DEF MqaLogits, PagedPlan, PagedMqaLogits, PrepareScale, GemmPrepared, Layout,
       GemmRaw, GemmRawB, Calling, Allocate, Launch, MayLaunch, Allocated, Running
  <2>2. QED BY <2>1 DEF RefusedInv
<1>7. CASE Finished
  BY <1>4, <1>7, Zenon DEF Finished
<1>8. QED BY <1>1, <1>2, <1>3, <1>4, <1>5, <1>6, <1>7, Zenon DEF Next

LEMMA RefusedHolds ==
    SessionInv /\ RefusedInv => RefusedForCause
<1> SUFFICES ASSUME SessionInv, RefusedInv, result = "refused", layout = NoLayout,
                    Call.op \in Ops, LauncherAccepts(Call, LogicalSpec(LayoutOf(Call))),
                    ~(/\ Call.op = "paged" /\ Call.out = FromLayout
                      /\ Call.plan_block_kv # Call.cache.shape[2])
             PROVE  FALSE
  BY Zenon DEF RefusedForCause, Ops
<1>1. todo # <<>> /\ ~Accepts(Call)
  BY Zenon DEF RefusedInv
<1>2. PICK c, out : c = Call /\ out = LogicalSpec(LayoutOf(Call))
  OBVIOUS
<1>3. c \in Pending /\ arch \in Families
  <2>1. todo \in Seq(Pending) /\ arch \in Families
    BY Zenon DEF SessionInv, TypesInv
  <2>2. QED BY <1>1, <1>2, <2>1, FirstOf, Zenon DEF Call
<1>4. out = LogicalSpec(LayoutOf(c)) /\ ~Accepts(c) /\ LauncherAccepts(c, out)
  BY <1>1, <1>2, Zenon
<1>5. CASE c.op = "mqa" /\ NativeMqa(c, out)
  BY <1>3, <1>4, <1>5, CallsByOp, NativeMqaIsAccepted, Zenon
<1>6. CASE c.op = "plan" /\ NativePlan(c, out)
  BY <1>3, <1>4, <1>6, CallsByOp, NativePlanIsAccepted, Zenon
<1>7. CASE c.op = "paged" /\ NativePaged(c, out)
  BY <1>2, <1>3, <1>4, <1>7, CallsByOp, NativePagedIsAccepted, Zenon
<1>8. CASE c.op = "scale" /\ NativeTransform(c, out)
  BY <1>3, <1>4, <1>8, CallsByOp, NativeTransformIsAccepted, Zenon
<1>9. CASE c.op = "gemm" /\ NativeGemm(c, out)
  <2>1. \A x \in Inputs(c) : Given(x) \in Tensors(2)
    BY <1>1, <1>2, GivenIsTensor, Zenon
  <2>2. QED BY <1>3, <1>4, <1>9, <2>1, CallsByOp, NativeGemmIsAccepted, Zenon
<1>10. QED BY <1>4, <1>5, <1>6, <1>7, <1>8, <1>9, Zenon DEF LauncherAccepts

\* The crate refuses no call that the launcher would take, but for the block size of a plan that
\* a binding compares with the cache's (mqa.rs:466, mqa.rs:652, deepgemm_raw_mqa.cc:1256): for
\* every tensor, and for every tensor that an earlier call returned.
THEOREM RefusalsHaveCauses == Spec => []RefusedForCause
<1>1. Init => RefusedInv
  BY DEF Init, RefusedInv
<1>2. SessionInv /\ RefusedInv /\ [Next]_vars => RefusedInv'
  BY RefusedStep
<1>3. QED BY <1>1, <1>2, RefusedHolds, SessionInvariant, PTL DEF Spec

-----------------------------------------------------------------------------
(* The row pitch of a page of the cache *)

\* A product of three numbers, in whatever order the fold takes them.
LEMMA ProductOfThree ==
    ASSUME NEW shape, shape[2] \in Nat, shape[3] \in Nat, shape[4] \in Nat
    PROVE  Product(shape, {2, 3, 4}) = shape[2] * (shape[3] * shape[4])
<1> DEFINE T == {2, 3, 4}
           Factor(s, p) == IF p \in s THEN shape[p] ELSE 1
           Times(s) == Factor(s, 2) * (Factor(s, 3) * Factor(s, 4))
           One(s, p) == IF p \in s THEN 1 ELSE 0
           Size3(s) == One(s, 2) + One(s, 3) + One(s, 4)
           Some(s) == CHOOSE x \in s : TRUE
           Unfolded(s, f) == IF s = {} THEN 1 ELSE shape[Some(s)] * f[s \ {Some(s)}]
           f == CHOOSE f : f = [s \in SUBSET T |-> Unfolded(s, f)]
<1>1. Product(shape, T) = f[T]
  BY Zenon DEF Product, FoldFunctionOnSet, MapThenFoldSet
<1>2. \A s \in SUBSET T : s # {} => Some(s) \in s
  <2>1. \A s : s # {} => \E x \in s : TRUE
    OBVIOUS
  <2>2. QED BY <2>1, Zenon
<1>3. ASSUME NEW s \in SUBSET T, NEW p \in s
      PROVE  /\ Times(s) = shape[p] * Times(s \ {p})
             /\ Size3(s) = Size3(s \ {p}) + 1
  <2>1. PICK r : r = s \ {p}
    OBVIOUS
  <2>2. \A q \in T : Factor(s, q) \in Nat /\ Factor(r, q) \in Nat
    OBVIOUS
  <2>3. CASE p = 2
    <3>1. /\ Factor(s, 2) = shape[2] /\ Factor(r, 2) = 1
          /\ Factor(s, 3) = Factor(r, 3) /\ Factor(s, 4) = Factor(r, 4)
          /\ One(s, 2) = 1 /\ One(r, 2) = 0 /\ One(s, 3) = One(r, 3) /\ One(s, 4) = One(r, 4)
      BY <2>1, <2>3
    <3> HIDE DEF Factor
    <3>2. Times(s) = shape[2] * Times(r)
      BY <2>2, <3>1
    <3> HIDE DEF Times
    <3>3. Size3(s) = Size3(r) + 1
      BY <3>1
    <3>4. QED BY <2>1, <2>3, <3>2, <3>3, Zenon
  <2>4. CASE p = 3
    <3>1. /\ Factor(s, 3) = shape[3] /\ Factor(r, 3) = 1
          /\ Factor(s, 2) = Factor(r, 2) /\ Factor(s, 4) = Factor(r, 4)
          /\ One(s, 3) = 1 /\ One(r, 3) = 0 /\ One(s, 2) = One(r, 2) /\ One(s, 4) = One(r, 4)
      BY <2>1, <2>4
    <3> HIDE DEF Factor
    <3>2. Times(s) = shape[3] * Times(r)
      BY <2>2, <3>1
    <3> HIDE DEF Times
    <3>3. Size3(s) = Size3(r) + 1
      BY <3>1
    <3>4. QED BY <2>1, <2>4, <3>2, <3>3, Zenon
  <2>5. CASE p = 4
    <3>1. /\ Factor(s, 4) = shape[4] /\ Factor(r, 4) = 1
          /\ Factor(s, 2) = Factor(r, 2) /\ Factor(s, 3) = Factor(r, 3)
          /\ One(s, 4) = 1 /\ One(r, 4) = 0 /\ One(s, 2) = One(r, 2) /\ One(s, 3) = One(r, 3)
      BY <2>1, <2>5
    <3> HIDE DEF Factor
    <3>2. Times(s) = shape[4] * Times(r)
      BY <2>2, <3>1
    <3> HIDE DEF Times
    <3>3. Size3(s) = Size3(r) + 1
      BY <3>1
    <3>4. QED BY <2>1, <2>5, <3>2, <3>3, Zenon
  <2>6. QED BY <2>3, <2>4, <2>5
<1>4. Times({}) = 1 /\ Times(T) = shape[2] * (shape[3] * shape[4])
  OBVIOUS
<1>5. \A s \in SUBSET T : Size3(s) \in 0..3 /\ (Size3(s) = 0 => s = {})
  OBVIOUS
<1> HIDE DEF Some, Times, Size3
<1>6. \E g : g = [s \in SUBSET T |-> Unfolded(s, g)]
  <2> DEFINE g == [s \in SUBSET T |-> Times(s)]
  <2>1. ASSUME NEW s \in SUBSET T PROVE Times(s) = Unfolded(s, g)
    <3>1. CASE s = {}
      BY <1>4, <3>1
    <3>2. CASE s # {}
      <4>1. Some(s) \in s /\ s \ {Some(s)} \in SUBSET T
        BY <1>2, <3>2
      <4>2. g[s \ {Some(s)}] = Times(s \ {Some(s)})
        BY <4>1
      <4> HIDE DEF g
      <4>3. QED BY <1>3, <3>2, <4>1, <4>2, Zenon
    <3>3. QED BY <3>1, <3>2
  <2>2. g = [s \in SUBSET T |-> Unfolded(s, g)]
    <3> HIDE DEF Unfolded
    <3>1. PICK h : h = g
      OBVIOUS
    <3>2. \A s \in SUBSET T : Times(s) = Unfolded(s, h)
      BY <2>1, <3>1, Zenon
    <3>3. h = [s \in SUBSET T |-> Times(s)]
      BY <3>1, Zenon
    <3>4. h = [s \in SUBSET T |-> Unfolded(s, h)]
      BY <3>2, <3>3
    <3>5. QED BY <3>1, <3>4, Zenon
  <2>3. QED BY <2>2, Zenon
<1>7. f = [s \in SUBSET T |-> Unfolded(s, f)]
  <2> HIDE DEF Unfolded
  <2>1. QED BY <1>6, Zenon
<1> HIDE DEF f
<1>8. \A s \in SUBSET T : f[s] = Unfolded(s, f)
  <2> HIDE DEF Unfolded
  <2>1. PICK D : D = SUBSET T
    OBVIOUS
  <2>2. f = [s \in D |-> Unfolded(s, f)]
    BY <1>7, <2>1, Zenon
  <2>3. QED BY <2>1, <2>2, Zenon
<1> DEFINE Right(n) == \A s \in SUBSET T : Size3(s) = n => f[s] = Times(s)
<1>9. Right(0)
  <2>1. f[{}] = 1
    <3>1. {} \in SUBSET T
      OBVIOUS
    <3>2. QED BY <1>8, <3>1, Zenon
  <2>2. QED BY <1>4, <1>5, <2>1, Zenon
<1>10. ASSUME NEW n \in Nat, Right(n) PROVE Right(n + 1)
  <2>1. SUFFICES ASSUME NEW s \in SUBSET T, Size3(s) = n + 1 PROVE f[s] = Times(s)
    BY Zenon
  <2>2. s # {}
    <3>1. Size3({}) = 0
      BY DEF Size3
    <3>2. QED BY <2>1, <3>1
  <2>3. PICK p \in s : p = Some(s)
    BY <1>2, <2>2, Zenon
  <2>4. s \ {p} \in SUBSET T
    OBVIOUS
  <2>5. Size3(s \ {p}) = n
    <3>1. Size3(s) = Size3(s \ {p}) + 1
      BY <1>3, Zenon
    <3>2. Size3(s \ {p}) \in 0..3
      BY <1>5, <2>4, Zenon
    <3>3. QED BY <2>1, <3>1, <3>2
  <2>6. f[s \ {p}] = Times(s \ {p})
    BY <1>10, <2>4, <2>5, Zenon
  <2>7. f[s] = shape[p] * f[s \ {p}]
    BY <1>8, <2>2, <2>3, Zenon
  <2>8. QED BY <1>3, <2>6, <2>7, Zenon
<1>11. Right(1) /\ Right(2) /\ Right(3)
  <2>1. 0 \in Nat /\ 1 \in Nat /\ 2 \in Nat /\ 0 + 1 = 1 /\ 1 + 1 = 2 /\ 2 + 1 = 3
    OBVIOUS
  <2> HIDE DEF Right
  <2>2. Right(1)
    BY <1>9, <1>10, <2>1
  <2>3. Right(2)
    BY <1>10, <2>1, <2>2
  <2>4. QED BY <1>10, <2>1, <2>2, <2>3
<1>12. Size3(T) = 3
  BY DEF Size3
<1>13. T \in SUBSET T
  OBVIOUS
<1>14. QED BY <1>1, <1>4, <1>11, <1>12, <1>13, Zenon

LEMMA PagePitch ==
    ASSUME NEW blocks \in Nat, NEW blockKv \in {32, 64}, NEW bytes \in Nat, NEW x,
           Is(x, "u8", <<blocks, blockKv, 1, bytes>>)
    PROVE  x.strides[1] % 4 = 0
<1>1. PICK s : s = <<blocks, blockKv, 1, bytes>>
  OBVIOUS
<1>2. /\ s[2] = blockKv /\ s[3] = 1 /\ s[4] = bytes
      /\ DOMAIN s = {1, 2, 3, 4}
  BY <1>1
<1>3. x.strides = RowMajor(s)
  BY <1>1, Zenon DEF Is, Contiguous, Tensor
<1>4. RowMajor(s)[1] = Product(s, {2, 3, 4})
  <2>1. {j \in DOMAIN s : j > 1} = {2, 3, 4} /\ 1 \in DOMAIN s
    BY <1>2
  <2>2. QED BY <2>1, Zenon DEF RowMajor
<1>5. Product(s, {2, 3, 4}) = blockKv * (1 * bytes)
  <2>1. blockKv \in Nat /\ 1 \in Nat
    OBVIOUS
  <2>2. QED BY <1>2, <2>1, ProductOfThree, Zenon
<1>6. (blockKv * (1 * bytes)) % 4 = 0
  <2>1. (32 * (1 * bytes)) % 4 = 0 /\ (64 * (1 * bytes)) % 4 = 0
    OBVIOUS
  <2>2. QED BY <2>1
<1>7. QED BY <1>3, <1>4, <1>5, <1>6

-----------------------------------------------------------------------------
(* What the crate accepts, the launchers and the driver take, but for named causes *)

LEMMA PositiveShapes ==
    /\ \A x : x > 0 => Positive(<<x>>)
    /\ \A x, y : x > 0 /\ y > 0 => Positive(<<x, y>>)
    /\ \A x, y, z : x > 0 /\ y > 0 /\ z > 0 => Positive(<<x, y, z>>)
    /\ \A x, y, z, w : x > 0 /\ y > 0 /\ z > 0 /\ w > 0 => Positive(<<x, y, z, w>>)
  BY DEF Positive

LEMMA SmallFits ==
    ASSUME NEW x \in Nat, x <= 128
    PROVE  FitsI32(x)
  BY ContractsAssumption DEF FitsI32

HeadDims == {32, 64, 128}
Sm90Heads == {32, 64}

LEMMA DenseIs ==
    ASSUME NEW x, NEW dtype, NEW shape, Is(x, dtype, shape)
    PROVE  x.dtype = dtype /\ x.shape = shape /\ x.strides = RowMajor(shape)
  BY Zenon DEF Is, Contiguous, Tensor

LEMMA SupportedHeadsAreNative ==
    ASSUME arch \in Families, NEW fp4 \in BOOLEAN, NEW heads, NEW headDim,
           SupportsHeads(fp4, heads, headDim)
    PROVE  /\ NativeHeads(fp4, heads, headDim)
           /\ heads \in HeadCounts /\ headDim \in HeadDims
           /\ arch = "sm90" => ~fp4 /\ heads \in Sm90Heads
<1>1. arch = "sm90" \/ arch = "sm100"
  BY DEF Families
<1>2. CASE arch = "sm90"
  BY <1>2 DEF NativeHeads, SupportsHeads, HeadCounts, HeadDims, Sm90Heads
<1>3. CASE arch = "sm100"
  BY <1>3 DEF NativeHeads, SupportsHeads, HeadCounts, HeadDims
<1>4. QED BY <1>1, <1>2, <1>3

LEMMA AcceptedWeightsAreNative ==
    ASSUME NEW x, NEW rows, NEW heads, rows > 0, heads > 0, NEW out,
           AcceptsWeights(x, rows, heads, out.dtype), FitsI32(x.strides[1])
    PROVE  NativeWeights(x, rows, heads, out)
<1>1. Positive(<<rows, heads>>)
  BY PositiveShapes, Zenon
<1>2. QED BY <1>1, Zenon DEF AcceptsWeights, NativeWeights

LEMMA WeightsOnSm90 ==
    ASSUME arch = "sm90", NEW x, NEW rows, NEW heads, NEW dtype, AcceptsWeights(x, rows, heads, dtype)
    PROVE  ElemSize(x.dtype) = 4
<1>1. x.dtype = "f32"
  BY DEF AcceptsWeights
<1>2. QED BY <1>1 DEF ElemSize

\* What a launch describes to the driver is aligned.
AllAligned(c) == \A f \in Described(c) : IsAligned(c, f)

\* The output that the crate describes is the one that the launcher asks for.
LEMMA LogitsAreLaidOut ==
    ASSUME NEW dtype \in LogitsDType, NEW rows, NEW cols, NEW allocRows, NEW allocCols, NEW out,
           out = LogicalSpec(Fill2D(dtype, rows, cols, allocRows, allocCols))
    PROVE  NativeLogits(out, rows, cols, allocCols) /\ out.dtype = dtype
<1>1. PICK l : l = Fill2D(dtype, rows, cols, allocRows, allocCols)
  OBVIOUS
<1>2. l.dtype = dtype /\ l.logical = <<rows, cols>> /\ l.strides = <<allocCols, 1>>
  BY <1>1, Zenon DEF Fill2D, Layout2D
<1>3. out.dtype = dtype /\ out.shape = <<rows, cols>> /\ out.strides = <<allocCols, 1>>
  BY <1>1, <1>2, Zenon DEF LogicalSpec, Tensor
<1>4. QED BY <1>3, Zenon DEF NativeLogits

LEMMA AcceptedMqaIsTaken ==
    ASSUME arch \in Families, NEW c \in AnyMqa, Accepts(c),
           \A x \in Sizes(c) : FitsI32(x), AllAligned(c), Describes(c.weights)
    PROVE  LauncherAccepts(c, LogicalSpec(LayoutOf(c))) /\ DriverAccepts(c)
<1>1. PICK out, fp4, seq, heads, dim, kv, cols, stride :
         /\ out = LogicalSpec(LayoutOf(c)) /\ fp4 = (c.q_scale # NoTensor)
         /\ seq = c.q.shape[1] /\ heads = c.q.shape[2] /\ dim = c.q.shape[3]
         /\ kv = c.kv.shape[1]
         /\ cols = IF c.max_k = 0 THEN kv ELSE c.max_k
         /\ stride = MqaStride(kv, c.max_k, c.dtype)
  OBVIOUS
<1>2. c.op = "mqa" /\ fp4 \in BOOLEAN
  BY <1>1, OpsOfCalls
<1>3. AcceptsMqa(c) /\ seq > 0 /\ kv > 0
  BY <1>1, <1>2 DEF Accepts
<1>4. /\ c.dtype \in LogitsDType
      /\ ~(c.clean /\ c.max_k > 0)
      /\ dim > 0
      /\ Is(c.q, Packed(fp4), c.q.shape)
      /\ Is(c.kv, Packed(fp4), <<kv, dim>>)
      /\ fp4 => Is(c.q_scale, "ue8m0", <<seq, heads>>)
      /\ Is(c.kv_scale, IF fp4 THEN "ue8m0" ELSE "f32", <<kv>>)
      /\ AcceptsWeights(c.weights, seq, heads, c.dtype)
      /\ Is(c.start, "i32", <<seq>>) /\ Is(c.end, "i32", <<seq>>)
      /\ SupportsHeads(fp4, heads, HeadDim(fp4, dim))
  BY <1>1, <1>3, Zenon DEF AcceptsMqa
<1>5. /\ NativeHeads(fp4, heads, HeadDim(fp4, dim))
      /\ heads \in HeadCounts /\ HeadDim(fp4, dim) \in HeadDims
      /\ arch = "sm90" => ~fp4 /\ heads \in Sm90Heads
  BY <1>2, <1>4, SupportedHeadsAreNative, Zenon
<1>6. heads \in Nat /\ heads > 0 /\ heads <= 128
  BY <1>5 DEF HeadCounts
<1>7. c.q.shape \in [1..3 -> Nat] /\ c.max_k \in Nat
  BY Zenon DEF AnyMqa, Tensors
<1>8. NativeIs(c.q, Packed(fp4), c.q.shape)
  <2>1. \A i \in 1..3 : i = 1 \/ i = 2 \/ i = 3
    OBVIOUS
  <2>2. Positive(c.q.shape)
    BY <1>1, <1>3, <1>4, <1>6, <1>7, <2>1, Zenon DEF Positive
  <2>3. QED BY <1>4, <2>2, Zenon DEF NativeIs
<1>9. /\ NativeIs(c.kv, Packed(fp4), <<kv, dim>>)
      /\ fp4 => NativeIs(c.q_scale, "ue8m0", <<seq, heads>>)
      /\ NativeIs(c.kv_scale, IF fp4 THEN "ue8m0" ELSE "f32", <<kv>>)
  BY <1>3, <1>4, <1>6, PositiveShapes, Zenon DEF NativeIs
<1>10. /\ FitsI32(seq) /\ FitsI32(TmaAligned(kv, 4)) /\ FitsI32(c.max_k)
       /\ FitsI32(c.weights.strides[1])
  <2>1. Sizes(c) = {seq, TmaAligned(kv, 4), c.max_k, c.weights.strides[1]}
    BY <1>1, <1>2, Zenon DEF Sizes
  <2>2. QED BY <2>1
<1>11. FitsI32(heads) /\ FitsI32(HeadDim(fp4, dim))
  <2>1. HeadDim(fp4, dim) \in Nat /\ HeadDim(fp4, dim) <= 128
    BY <1>5 DEF HeadDims
  <2>2. QED BY <1>6, <2>1, SmallFits, Zenon
<1>12. /\ NativeLogits(out, seq, cols, stride) /\ out.dtype = c.dtype
  <2>1. \E allocRows : LayoutOf(c) = Fill2D(c.dtype, seq, cols, allocRows, stride)
    <3>1. LayoutOf(c) = MqaLayout(seq, kv, heads, c.max_k, c.dtype)
      BY <1>1, <1>2 DEF LayoutOf
    <3>2. stride = AlignUp(IF c.max_k = 0 THEN kv + 256 ELSE AlignUp(c.max_k, 256),
                           1024 \div ElemSize(c.dtype))
      BY <1>1 DEF MqaStride
    <3>3. MqaLayout(seq, kv, heads, c.max_k, c.dtype)
            = Fill2D(c.dtype, seq, cols, AlignUp(seq, 128 \div heads), stride)
      BY <1>1, <3>2 DEF MqaLayout
    <3>4. QED BY <3>1, <3>3, Zenon
  <2>2. PICK allocRows : LayoutOf(c) = Fill2D(c.dtype, seq, cols, allocRows, stride)
    BY <2>1, Zenon
  <2>3. out = LogicalSpec(Fill2D(c.dtype, seq, cols, allocRows, stride)) /\ c.dtype \in LogitsDType
    BY <1>1, <1>4, <2>2, Zenon
  <2>4. QED BY <2>3, LogitsAreLaidOut
<1>13. NativeWeights(c.weights, seq, heads, out)
  BY <1>3, <1>4, <1>6, <1>10, <1>12, AcceptedWeightsAreNative
<1>14. NativeMqa(c, out)
  <2>1. \A x \in {seq, heads, HeadDim(fp4, dim), c.max_k, TmaAligned(kv, 4)} : FitsI32(x)
    BY <1>10, <1>11
  <2>2. NativeLogits(out, seq, IF c.max_k = 0 THEN kv ELSE c.max_k, MqaStride(kv, c.max_k, out.dtype))
    BY <1>1, <1>12
  <2>3. QED BY <1>1, <1>4, <1>5, <1>8, <1>9, <1>13, <2>1, <2>2, Zenon DEF NativeMqa
<1>15. Smem(c) <= SmemCapacity
  <2>1. CASE arch # "sm90"
    <3>1. arch = "sm100"
      BY <2>1 DEF Families
    <3>2. Smem(c) = SmemCapacity
      BY <1>2, <3>1 DEF Smem
    <3>3. QED BY <3>2 DEF SmemCapacity
  <2>2. CASE arch = "sm90"
    <3>1. heads \in {32, 64} /\ dim \in {32, 64, 128}
      BY <1>5, <2>2 DEF HeadDim, HeadDims, Sm90Heads
    <3>2. ElemSize(c.weights.dtype) = 4
      BY <1>4, <2>2, WeightsOnSm90
    <3>3. c.kv.shape[2] = dim
      <4>1. c.kv.shape = <<kv, dim>>
        BY <1>4, DenseIs, Zenon
      <4>2. QED BY <4>1
    <3>4. Smem(c) = MqaSmem(c)
      BY <1>2, <2>2 DEF Smem
    <3>5. (128 \div heads) * heads = 128
      BY <3>1
    <3>6. MqaSmem(c) = 3 * (128 * dim + 128 * 4 + 256 * dim + 256 * 4) + (3 * 2 + 3 * 2 + 4 * 2) * 8 + 4
      BY <1>1, <3>2, <3>3, <3>5, Zenon DEF MqaSmem
    <3>7. QED BY <3>1, <3>4, <3>6 DEF SmemCapacity
  <2>3. QED BY <2>1, <2>2
<1>16. Describable(c)
  BY <1>2 DEF Describable, AllAligned
<1>17. QED BY <1>1, <1>2, <1>14, <1>15, <1>16 DEF LauncherAccepts, DriverAccepts

LEMMA AcceptedIndicesAreNative ==
    ASSUME NEW x, NEW batch, NEW nextN, AcceptsIndices(x, batch, nextN)
    PROVE  x # NoTensor => Is(x, "i32", <<batch>>) /\ arch = "sm100" /\ nextN = 1
  BY Zenon DEF AcceptsIndices

PageSizes == {32, 64}

LEMMA SupportedBlocksAreNative ==
    ASSUME arch \in Families, NEW blockKv, SupportsBlockKv(blockKv)
    PROVE  /\ blockKv = 64 \/ (arch = "sm100" /\ blockKv = 32)
           /\ blockKv \in PageSizes
<1>1. arch = "sm90" \/ arch = "sm100"
  BY DEF Families
<1>2. QED BY <1>1 DEF SupportsBlockKv, PageSizes

LEMMA PageSizesFit ==
    ASSUME NEW blockKv \in PageSizes
    PROVE  FitsI32(blockKv) /\ blockKv \in Nat /\ blockKv > 0
<1>1. blockKv \in Nat /\ blockKv > 0 /\ blockKv <= 128
  BY DEF PageSizes
<1>2. QED BY <1>1, SmallFits, Zenon

LEMMA NothingToAlign ==
    ASSUME NEW c, c.op \in {"plan", "scale"}
    PROVE  AllAligned(c) /\ Describable(c)
<1>1. Described(c) = {}
  BY DEF Described
<1>2. QED BY <1>1 DEF AllAligned, Describable

LEMMA AcceptedPlanIsTaken ==
    ASSUME arch \in Families, NEW c \in AnyPlan, Accepts(c),
           \A x \in Sizes(c) : FitsI32(x), Positive(c.context_lens.shape), c.sms <= Sms,
           PlanSmem(c) <= SmemCapacity
    PROVE  LauncherAccepts(c, LogicalSpec(LayoutOf(c))) /\ DriverAccepts(c)
<1>1. PICK batch, nextN, out :
         /\ batch = c.context_lens.shape[1] /\ nextN = c.context_lens.shape[2]
         /\ out = LogicalSpec(LayoutOf(c))
  OBVIOUS
<1>2. c.op = "plan" /\ c.sms \in Nat
  BY OpsOfCalls, Zenon DEF AnyPlan
<1>3. AcceptsPlan(c)
  BY <1>2 DEF Accepts
<1>4. /\ Is(c.context_lens, "i32", c.context_lens.shape)
      /\ SupportsBlockKv(c.block_kv)
      /\ c.sms > 0
      /\ AcceptsIndices(c.indices, batch, nextN)
  BY <1>1, <1>3, Zenon DEF AcceptsPlan
<1>5. NativeIs(c.context_lens, "i32", c.context_lens.shape)
  BY <1>4, Zenon DEF NativeIs
<1>6. Is(out, "i32", <<c.sms + 1, 2>>)
  <2>1. PICK rows \in Nat : rows = c.sms + 1
    BY <1>2
  <2>2. RowMajor(<<rows, 2>>) = <<2, 1>>
    <3>1. 2 \in Nat
      OBVIOUS
    <3>2. QED BY <3>1, RowMajorOfPair, Zenon
  <2>3. PICK l : l = LayoutOf(c)
    OBVIOUS
  <2>4. l = Fill2D("i32", rows, 2, rows, 2)
    BY <1>2, <2>1, <2>3, Zenon DEF LayoutOf, MetadataLayout
  <2>5. l.dtype = "i32" /\ l.logical = <<rows, 2>> /\ l.strides = <<2, 1>>
    BY <2>4, Zenon DEF Fill2D, Layout2D
  <2>6. out = Tensor("i32", <<rows, 2>>, <<2, 1>>)
    BY <1>1, <2>3, <2>5, Zenon DEF LogicalSpec
  <2>7. QED BY <2>1, <2>2, <2>6, Zenon DEF Is, Contiguous
<1>7. /\ c.indices # NoTensor =>
            Is(c.indices, "i32", <<batch>>) /\ arch = "sm100" /\ nextN = 1
      /\ c.block_kv = 64 \/ (arch = "sm100" /\ c.block_kv = 32)
      /\ c.block_kv \in PageSizes
  <2>1. (c.block_kv = 64 \/ (arch = "sm100" /\ c.block_kv = 32)) /\ c.block_kv \in PageSizes
    BY <1>4, SupportedBlocksAreNative
  <2>2. AcceptsIndices(c.indices, batch, nextN)
    BY <1>4, Zenon
  <2>3. c.indices # NoTensor => Is(c.indices, "i32", <<batch>>) /\ arch = "sm100" /\ nextN = 1
    BY <2>2, AcceptedIndicesAreNative, Zenon
  <2>4. QED BY <2>1, <2>3, Zenon
<1>8. \A x \in {batch, nextN, c.sms, c.block_kv} : FitsI32(x)
  <2>1. FitsI32(c.block_kv)
    BY <1>7, PageSizesFit, Zenon
  <2>2. Sizes(c) = {batch, nextN, c.sms}
    BY <1>1, <1>2 DEF Sizes
  <2>3. QED BY <2>1, <2>2
<1>9. NativePlan(c, out)
  BY <1>1, <1>4, <1>5, <1>6, <1>7, <1>8, Zenon DEF NativePlan
<1>10. Smem(c) <= SmemCapacity
  BY <1>2, Zenon DEF Smem
<1>11. Describable(c)
  BY <1>2, NothingToAlign
<1>12. QED BY <1>1, <1>2, <1>9, <1>10, <1>11 DEF LauncherAccepts, DriverAccepts

\* The shared memory of the SM90 kernel for pages, in all of its variants.
LEMMA PagedSmemFits ==
    ASSUME NEW nextN \in {1, 2}, NEW heads \in {32, 64}, NEW dim \in {32, 64, 128}
    PROVE  LET qh == nextN * heads
               Aligned(bytes) == AlignUp(bytes, dim * 8)
           IN 3 * (qh * dim + Aligned(qh * 4)) + Aligned(3 * 8 * 2)
              + 4 * (3 * (64 * dim + Aligned(64 * 4)) + Aligned(3 * 8 * 2))
              + 4 * 2 * 8 + 4 <= SmemCapacity
<1>1. CASE dim = 32
  <2>1. /\ AlignUp(48, 256) = 256 /\ AlignUp(256, 256) = 256
        /\ AlignUp(128, 256) = 256 /\ AlignUp(512, 256) = 512
    BY DEF AlignUp
  <2>2. nextN * heads \in {32, 64, 128}
    OBVIOUS
  <2>3. QED BY <1>1, <2>1, <2>2 DEF SmemCapacity
<1>2. CASE dim = 64
  <2>1. /\ AlignUp(48, 512) = 512 /\ AlignUp(256, 512) = 512
        /\ AlignUp(128, 512) = 512 /\ AlignUp(512, 512) = 512
    BY DEF AlignUp
  <2>2. nextN * heads \in {32, 64, 128}
    OBVIOUS
  <2>3. QED BY <1>2, <2>1, <2>2 DEF SmemCapacity
<1>3. CASE dim = 128
  <2>1. /\ AlignUp(48, 1024) = 1024 /\ AlignUp(256, 1024) = 1024
        /\ AlignUp(128, 1024) = 1024 /\ AlignUp(512, 1024) = 1024
    BY DEF AlignUp
  <2>2. nextN * heads \in {32, 64, 128}
    OBVIOUS
  <2>3. QED BY <1>3, <2>1, <2>2 DEF SmemCapacity
<1>4. QED BY <1>1, <1>2, <1>3

LEMMA AcceptedPagedIsTaken ==
    ASSUME arch \in Families, NEW c \in AnyPaged, Accepts(c),
           \A x \in Sizes(c) : FitsI32(x), AllAligned(c), Describes(c.weights),
           c.q_scale = NoTensor => c.weights.strides[1] = c.weights.shape[2],
           c.cache.shape[1] # 0, c.block_table.shape[2] # 0, c.sms <= Sms
    PROVE  LauncherAccepts(c, LogicalSpec(LayoutOf(c))) /\ DriverAccepts(c)
<1>1. PICK out, fp4, batch, nextN, heads, dim, blockKv, blocks, stride :
         /\ out = LogicalSpec(LayoutOf(c)) /\ fp4 = (c.q_scale # NoTensor)
         /\ batch = c.q.shape[1] /\ nextN = c.q.shape[2]
         /\ heads = c.q.shape[3] /\ dim = c.q.shape[4] /\ blockKv = c.cache.shape[2]
         /\ blocks = c.cache.shape[1] /\ stride = PagedStride(c.max_len, c.dtype)
  OBVIOUS
<1>2. c.op = "paged" /\ fp4 \in BOOLEAN
  BY <1>1, OpsOfCalls
<1>3. AcceptsPaged(c) /\ batch > 0 /\ nextN > 0
  BY <1>1, <1>2 DEF Accepts
<1>4. /\ c.dtype \in LogitsDType
      /\ c.max_len > 0 /\ c.sms > 0 /\ ~c.clean
      /\ dim > 0
      /\ Is(c.q, Packed(fp4), c.q.shape)
      /\ fp4 => Is(c.q_scale, "ue8m0", <<batch, nextN, heads>>)
      /\ Is(c.cache, "u8", <<blocks, blockKv, 1, dim + 4>>)
      /\ AcceptsWeights(c.weights, batch * nextN, heads, c.dtype)
      /\ Is(c.context_lens, "i32", <<batch, nextN>>)
      /\ c.block_table.shape[1] = batch /\ c.block_table.strides[2] = 1
      /\ c.block_table.dtype = "i32"
      /\ Is(Given(c.schedule_meta), "i32", <<c.sms + 1, 2>>)
      /\ AcceptsIndices(c.indices, batch, nextN)
      /\ SupportsBlockKv(blockKv)
      /\ SupportsHeads(fp4, heads, HeadDim(fp4, dim))
      /\ arch = "sm90" => nextN \in {1, 2}
  BY <1>1, <1>3, Zenon DEF AcceptsPaged
<1>5. /\ NativeHeads(fp4, heads, HeadDim(fp4, dim))
      /\ heads \in HeadCounts /\ HeadDim(fp4, dim) \in HeadDims
      /\ arch = "sm90" => ~fp4 /\ heads \in Sm90Heads
  BY <1>2, <1>4, SupportedHeadsAreNative, Zenon
<1>6. heads \in Nat /\ heads > 0 /\ heads <= 128
  BY <1>5 DEF HeadCounts
<1>7. /\ c.q \in Tensors(4) /\ c.cache \in Tensors(4) /\ c.block_table \in Tensors(2)
      /\ c.sms \in Nat /\ c.max_len \in Nat
  BY Zenon DEF AnyPaged
<1>8. /\ c.q.shape \in [1..4 -> Nat] /\ c.cache.shape \in [1..4 -> Nat]
      /\ c.block_table.shape \in [1..2 -> Nat]
  BY <1>7, Zenon DEF Tensors
<1>9. /\ batch \in Nat /\ nextN \in Nat /\ dim \in Nat /\ blocks \in Nat /\ blocks > 0
      /\ c.block_table.shape[2] > 0
  BY <1>1, <1>8
<1>10. NativeIs(c.q, Packed(fp4), c.q.shape)
  <2>1. \A i \in 1..4 : i = 1 \/ i = 2 \/ i = 3 \/ i = 4
    OBVIOUS
  <2>2. Positive(c.q.shape)
    BY <1>1, <1>3, <1>4, <1>6, <1>8, <2>1, Zenon DEF Positive
  <2>3. QED BY <1>4, <2>2, Zenon DEF NativeIs
<1>11. /\ blockKv = 64 \/ (arch = "sm100" /\ blockKv = 32)
       /\ blockKv \in PageSizes /\ FitsI32(blockKv) /\ blockKv > 0
       /\ c.indices # NoTensor => Is(c.indices, "i32", <<batch>>) /\ arch = "sm100" /\ nextN = 1
  <2>1. (blockKv = 64 \/ (arch = "sm100" /\ blockKv = 32)) /\ blockKv \in PageSizes
    BY <1>4, SupportedBlocksAreNative
  <2>2. QED BY <1>4, <2>1, AcceptedIndicesAreNative, PageSizesFit
<1>12. batch * nextN > 0 /\ dim + 4 > 0 /\ c.sms + 1 > 0
  BY <1>3, <1>4, <1>7, <1>9
<1>13. /\ fp4 => NativeIs(c.q_scale, "ue8m0", <<batch, nextN, heads>>)
       /\ NativeIs(c.context_lens, "i32", <<batch, nextN>>)
  BY <1>3, <1>4, <1>6, PositiveShapes, Zenon DEF NativeIs
<1>14. NativeIs(Given(c.schedule_meta), "i32", <<c.sms + 1, 2>>)
  <2>1. Positive(<<c.sms + 1, 2>>)
    BY <1>12, PositiveShapes
  <2>2. QED BY <1>4, <2>1, Zenon DEF NativeIs
<1>15. NativeIs(c.cache, "u8", <<blocks, blockKv, 1, dim + 4>>)
  <2>1. Positive(<<blocks, blockKv, 1, dim + 4>>)
    BY <1>9, <1>11, <1>12, PositiveShapes
  <2>2. QED BY <1>4, <2>1, Zenon DEF NativeIs
<1>16. c.cache.strides[1] % 4 = 0
  <2>1. blockKv \in {32, 64} /\ dim + 4 \in Nat
    BY <1>9, <1>11 DEF PageSizes
  <2>2. QED BY <1>4, <1>9, <2>1, PagePitch
<1>17. Positive(c.block_table.shape)
  <2>1. \A i \in 1..2 : i = 1 \/ i = 2
    OBVIOUS
  <2>2. QED BY <1>3, <1>4, <1>8, <1>9, <2>1, Zenon DEF Positive
<1>18. /\ FitsI32(batch) /\ FitsI32(nextN) /\ FitsI32(c.max_len) /\ FitsI32(c.weights.strides[1])
       /\ FitsI32(c.block_table.strides[1]) /\ FitsI32(blocks) /\ FitsI32(c.cache.strides[1])
  <2>1. Sizes(c) = {batch, nextN, c.max_len, c.weights.strides[1],
                    c.block_table.strides[1], blocks, c.cache.strides[1]}
    BY <1>1, <1>2 DEF Sizes
  <2>2. QED BY <2>1
<1>19. FitsI32(heads) /\ FitsI32(HeadDim(fp4, dim))
  <2>1. HeadDim(fp4, dim) \in Nat /\ HeadDim(fp4, dim) <= 128
    BY <1>5 DEF HeadDims
  <2>2. QED BY <1>6, <2>1, SmallFits, Zenon
<1>20. \A x \in {batch, nextN, heads, HeadDim(fp4, dim), blocks, blockKv,
                 c.max_len, c.block_table.strides[1], c.cache.strides[1]} : FitsI32(x)
  BY <1>11, <1>18, <1>19
<1>21. NativeLogits(out, batch * nextN, c.max_len, stride) /\ out.dtype = c.dtype
  <2>1. PICK rows : rows = batch * nextN
    OBVIOUS
  <2>2. LayoutOf(c) = PagedLayout(batch, nextN, c.max_len, c.dtype)
    BY <1>1, <1>2 DEF LayoutOf
  <2>3. PagedLayout(batch, nextN, c.max_len, c.dtype) = Fill2D(c.dtype, rows, c.max_len, rows, stride)
    <3>1. stride = AlignUp(AlignUp(c.max_len, 256), 1024 \div ElemSize(c.dtype))
      BY <1>1, Zenon DEF PagedStride
    <3>2. PagedLayout(batch, nextN, c.max_len, c.dtype)
            = Fill2D(c.dtype, batch * nextN, c.max_len, batch * nextN,
                     AlignUp(AlignUp(c.max_len, 256), 1024 \div ElemSize(c.dtype)))
      BY DEF PagedLayout
    <3>3. QED BY <2>1, <3>1, <3>2
  <2>4. out = LogicalSpec(Fill2D(c.dtype, rows, c.max_len, rows, stride)) /\ c.dtype \in LogitsDType
    BY <1>1, <1>4, <2>2, <2>3, Zenon
  <2>5. QED BY <2>1, <2>4, LogitsAreLaidOut
<1>22. NativeWeights(c.weights, batch * nextN, heads, out)
  BY <1>4, <1>6, <1>12, <1>18, <1>21, AcceptedWeightsAreNative
<1>23. ~fp4 => c.weights.strides[1] = heads
  <2>1. c.weights.shape = <<batch * nextN, heads>>
    BY <1>4, Zenon DEF AcceptsWeights
  <2>2. c.weights.shape[2] = heads
    BY <2>1
  <2>3. QED BY <1>1, <2>2
<1>24. NativePaged(c, out)
  <2>1. NativeLogits(out, batch * nextN, c.max_len, PagedStride(c.max_len, out.dtype))
    BY <1>1, <1>21, Zenon
  <2>2. QED
    BY <1>1, <1>4, <1>5, <1>10, <1>11, <1>13, <1>14, <1>15, <1>16, <1>17, <1>20, <1>22, <1>23,
       <2>1, Zenon DEF NativePaged
<1>25. Smem(c) <= SmemCapacity
  <2>1. CASE arch # "sm90"
    <3>1. arch = "sm100"
      BY <2>1 DEF Families
    <3>2. Smem(c) = SmemCapacity
      BY <1>2, <3>1 DEF Smem
    <3>3. QED BY <3>2 DEF SmemCapacity
  <2>2. CASE arch = "sm90"
    <3>1. nextN \in {1, 2} /\ heads \in {32, 64} /\ dim \in {32, 64, 128} /\ blockKv = 64
      BY <1>4, <1>5, <1>11, <2>2 DEF HeadDim, HeadDims, Sm90Heads
    <3>2. ElemSize(c.weights.dtype) = 4
      BY <1>4, <2>2, WeightsOnSm90
    <3>3. Smem(c) = PagedSmem(c)
      BY <1>2, <2>2 DEF Smem
    <3>4. PagedSmem(c) =
             LET qh == nextN * heads
                 Aligned(bytes) == AlignUp(bytes, dim * 8)
             IN 3 * (qh * dim + Aligned(qh * 4)) + Aligned(3 * 8 * 2)
                + 4 * (3 * (64 * dim + Aligned(64 * 4)) + Aligned(3 * 8 * 2))
                + 4 * 2 * 8 + 4
      BY <1>1, <3>1, <3>2, Zenon DEF PagedSmem
    <3>5. QED BY <3>1, <3>3, <3>4, PagedSmemFits
  <2>3. QED BY <2>1, <2>2
<1>26. Describable(c)
  BY <1>2 DEF Describable, AllAligned
<1>27. QED BY <1>1, <1>2, <1>24, <1>25, <1>26 DEF LauncherAccepts, DriverAccepts

LEMMA AcceptedScaleIsTaken ==
    ASSUME NEW c \in AnyScale, Accepts(c),
           \A x \in Sizes(c) : FitsI32(x), CeilDiv(c.k, c.gran_k) <= 512
    PROVE  LauncherAccepts(c, LogicalSpec(LayoutOf(c))) /\ DriverAccepts(c)
<1>1. PICK out, l, cols, rows, blocks, mblocks :
         /\ out = LogicalSpec(l) /\ l = LayoutOf(c)
         /\ cols = CeilDiv(c.k, c.gran_k * Packing(c.dtype))
         /\ rows = AlignUp(c.mn, 16 \div ElemSize(c.dtype))
         /\ blocks = CeilDiv(c.k, c.gran_k) /\ mblocks = CeilDiv(c.mn, c.gran_mn)
  OBVIOUS
<1>2. c.op = "scale"
  BY OpsOfCalls, Zenon
<1>3. AcceptsScale(c)
  BY <1>2 DEF Accepts
<1>4. /\ c.mn > 0 /\ c.k > 0 /\ c.gran_mn > 0 /\ c.gran_k > 0
      /\ c.dtype \in ScaleDTypes
      /\ Is(c.scale, "f32", <<mblocks, blocks>>)
  BY <1>1, <1>3, Zenon DEF AcceptsScale, ScaleDTypes
<1>5. c.mn \in Counts /\ c.k \in Counts /\ c.gran_mn \in Counts /\ c.gran_k \in Counts
  <2>1. c.mn \in Nat /\ c.k \in Nat /\ c.gran_mn \in Nat /\ c.gran_k \in Nat
    BY Zenon DEF AnyScale
  <2>2. QED BY <1>4, <2>1 DEF Counts
<1>6. mblocks > 0 /\ blocks > 0
  <2>1. /\ c.mn \in Nat /\ c.mn # 0 /\ c.k \in Nat /\ c.k # 0
        /\ c.gran_mn \in Nat \ {0} /\ c.gran_k \in Nat \ {0}
    BY <1>5 DEF Counts
  <2>2. mblocks \in Nat \ {0} /\ blocks \in Nat \ {0}
    BY <1>1, <2>1, CeilDivBounds
  <2>3. QED BY <2>2
<1>7. NativeIs(c.scale, "f32", <<mblocks, blocks>>)
  BY <1>4, <1>6, PositiveShapes, Zenon DEF NativeIs
<1>8. out.dtype = c.dtype /\ out.shape = <<c.mn, cols>> /\ out.strides = <<1, rows>>
  <2>1. l = ScaleLayout(c.mn, c.k, c.gran_k, c.dtype)
    BY <1>1, <1>2 DEF LayoutOf
  <2>2. l = Layout2D(c.dtype, <<c.mn, cols>>, <<cols, rows>>, <<1, rows>>)
    BY <1>1, <2>1, Zenon DEF ScaleLayout
  <2>3. l.dtype = c.dtype /\ l.logical = <<c.mn, cols>> /\ l.strides = <<1, rows>>
    BY <2>2, Zenon DEF Layout2D
  <2>4. QED BY <1>1, <2>3, Zenon DEF LogicalSpec, Tensor
<1>9. NativeScale(out, c.mn, c.k, c.gran_k, out.dtype)
  <2>1. TmaAligned(c.mn, ElemSize(c.dtype)) = rows
    BY <1>1, <1>4, <1>5, ScaleNumbers, Zenon
  <2>2. QED BY <1>1, <1>8, <2>1, Zenon DEF NativeScale
<1>10. /\ FitsI32(c.gran_mn) /\ FitsI32(c.gran_k) /\ FitsI32(TmaAligned(c.mn, 4))
       /\ FitsI32(ScaleGrid(c))
  <2>1. Sizes(c) = {TmaAligned(c.mn, 4), c.gran_mn, c.gran_k, ScaleGrid(c)}
    BY <1>2 DEF Sizes
  <2>2. QED BY <2>1
<1>11. Positive(<<c.mn, c.k, c.gran_mn, c.gran_k>>)
  BY <1>4, PositiveShapes, Zenon
<1>12. NativeTransform(c, out)
  <2>1. out.dtype \in {"f32", "ue8m0"}
    BY <1>4, <1>8, Zenon DEF ScaleDTypes
  <2>2. blocks <= 512
    BY <1>1
  <2>3. QED BY <1>1, <1>7, <1>9, <1>10, <1>11, <2>1, <2>2, Zenon DEF NativeTransform
<1>13. Smem(c) <= SmemCapacity
  BY <1>2 DEF Smem, SmemCapacity
<1>14. Describable(c)
  BY <1>2, NothingToAlign
<1>15. QED BY <1>1, <1>2, <1>12, <1>13, <1>14 DEF LauncherAccepts, DriverAccepts

-----------------------------------------------------------------------------
(* GEMMs *)

\* Up to DeepestK there is room for the scales of b next to four stages.
LEMMA RoomForScales ==
    ASSUME NEW k \in Nat, NEW m \in Nat, k <= DeepestK(m)
    PROVE  Sm90Once(k, SmallestTile(m)) + 4 * Sm90Stage(SmallestTile(m)) <= Capacity
<1>1. PICK block, t : /\ block = (IF m <= 16 THEN 16 ELSE IF m <= 32 THEN 32 ELSE 64)
                      /\ t = Tile(FALSE, block, 16, 1, 1)
  OBVIOUS
<1>2. block \in {16, 32, 64}
  BY <1>1
<1>3. t.block_m = block /\ t.block_n = 16
  BY <1>1, Zenon DEF Tile
<1>4. SmallestTile(m) = t
  BY <1>1 DEF SmallestTile
<1>5. PICK once, stage : /\ once = AlignUp(block * 16 * 2, 1024) + 16 * 8 * 2
                         /\ stage = (block + 16) * 128 + AlignUp(block * 4, 128)
  OBVIOUS
<1>6. once \in Nat /\ once <= 4096 /\ stage \in Nat /\ stage <= 16384
  BY <1>2, <1>5 DEF AlignUp
<1>7. Sm90Stage(t) = stage
  BY <1>3, <1>5 DEF Sm90Stage, BlockK
<1>8. ASSUME NEW x \in Nat
      PROVE  Sm90Once(x, t) = once + AlignUp(CeilDiv(x, 128) * 4, 8)
  <2>1. PICK rows \in Nat : rows = (IF BlockK % t.block_n = 0 THEN 1 ELSE 2) /\ rows = 1
    BY <1>3 DEF BlockK
  <2>2. PICK blocks \in Nat : blocks = CeilDiv(x, 128)
    BY DEF CeilDiv
  <2>3. blocks * 4 * rows = blocks * 4
    BY <2>1, <2>2
  <2>5. CeilDiv(x, BlockK) = blocks
    BY <2>2 DEF BlockK
  <2>6. Sm90Once(x, t) = AlignUp(t.block_m * t.block_n * 2, 1024) + 16 * 8 * 2
                            + AlignUp(CeilDiv(x, BlockK) * 4 * rows, 8)
    BY <2>1, SMT DEF Sm90Once
  <2>8. Sm90Once(x, t) = AlignUp(block * 16 * 2, 1024) + 16 * 8 * 2 + AlignUp(blocks * 4, 8)
    BY <1>3, <2>3, <2>5, <2>6
  <2>7. QED BY <1>5, <2>2, <2>8
<1>9. Sm90Once(0, t) = once
  <2>1. CeilDiv(0, 128) = 0
    BY DEF CeilDiv
  <2>2. AlignUp(0 * 4, 8) = 0
    BY DEF AlignUp
  <2>3. Sm90Once(0, t) = once + AlignUp(CeilDiv(0, 128) * 4, 8)
    BY <1>8
  <2>4. QED BY <1>6, <2>1, <2>2, <2>3
<1>10. PICK room \in Nat : room = Capacity - once - 4 * stage
  BY <1>6 DEF Capacity
<1>11. k <= (room \div 8) * 2 * 128
  <2>1. DeepestK(m) = ((Capacity - Sm90Once(0, t) - 4 * Sm90Stage(t)) \div 8) * 2 * BlockK
    BY <1>1 DEF DeepestK
  <2>2. QED BY <1>7, <1>9, <1>10, <2>1 DEF BlockK
<1>12. PICK q \in Nat : q = room \div 8 /\ q * 8 <= room
  BY <1>10
<1>13. CeilDiv(k, 128) \in Nat /\ CeilDiv(k, 128) <= q * 2
  BY <1>11, <1>12 DEF CeilDiv
<1>14. AlignUp(CeilDiv(k, 128) * 4, 8) <= q * 8
  BY <1>12, <1>13 DEF AlignUp
<1>15. AlignUp(CeilDiv(k, 128) * 4, 8) \in Nat
  BY <1>13 DEF AlignUp
<1>16. QED BY <1>4, <1>6, <1>7, <1>8, <1>10, <1>12, <1>14, <1>15 DEF Capacity

LEMMA PreparedScaleIsNative ==
    ASSUME NEW x, NEW mn \in Counts, NEW k \in Counts, NEW dtype \in ScaleDTypes,
           x = LogicalSpec(ScaleLayout(mn, k, 128, dtype))
    PROVE  NativeScale(x, mn, k, 128, dtype)
<1>1. PICK cols, rows : /\ cols = CeilDiv(k, 128 * Packing(dtype))
                        /\ rows = AlignUp(mn, 16 \div ElemSize(dtype))
  OBVIOUS
<1>2. TmaAligned(mn, ElemSize(dtype)) = rows
  BY <1>1, ScaleNumbers, Zenon
<1>3. PICK l : l = Layout2D(dtype, <<mn, cols>>, <<cols, rows>>, <<1, rows>>)
  OBVIOUS
<1>4. l.dtype = dtype /\ l.logical = <<mn, cols>> /\ l.strides = <<1, rows>>
  BY <1>3, Zenon DEF Layout2D
<1>5. ScaleLayout(mn, k, 128, dtype) = l
  BY <1>1, <1>3, Zenon DEF ScaleLayout
<1>6. x.dtype = dtype /\ x.shape = <<mn, cols>> /\ x.strides = <<1, rows>>
  BY <1>4, <1>5, Zenon DEF LogicalSpec, Tensor
<1>7. QED BY <1>1, <1>2, <1>6, Zenon DEF NativeScale

\* A kernel fits on an SM, its tensors in the boxes of TMA and its clusters in the grid.
Launchable(family, config, sms) ==
    /\ config # NoConfig
    /\ config.pipeline.smem <= Capacity
    /\ sms % ClusterSize(config.tile) = 0
    /\ \A box \in Boxes(family, config) : \A i \in 1..2 : box[i] \in 1..256

LEMMA ChosenIsLaunchable ==
    ASSUME NEW family \in Families, NEW m \in Counts, NEW n \in Counts, NEW k \in Nat,
           NEW sms \in Counts, family = "sm90" => k <= DeepestK(m)
    PROVE  Launchable(family, BestConfig(family, m, n, k, sms), sms)
<1>1. PICK config : config = BestConfig(family, m, n, k, sms)
  OBVIOUS
<1>2. m \in Nat \ {0} /\ n \in Nat \ {0} /\ sms \in Nat \ {0} /\ m \in Nat
  BY DEF Counts
<1>3. family = "sm90" \/ family = "sm100"
  BY DEF Families
<1>4. config # NoConfig
  <2>1. CASE family = "sm90"
    BY <1>1, <1>2, <2>1, RoomForScales, Sm90Chooses
  <2>2. CASE family = "sm100"
    BY <1>1, <1>2, <2>2, Sm100Chooses
  <2>3. QED BY <1>3, <2>1, <2>2
<1>5. PICK t \in TilesOf(family) :
         config = Configured(family, k, t) /\ IsCandidate(family, m, n, k, sms, t)
  BY <1>1, <1>4, ChoiceIsBest, Zenon
<1>6. config.tile = t
  BY <1>5 DEF Configured
<1>7. config.pipeline.smem <= Capacity /\ sms % ClusterSize(t) = 0
  <2>1. CASE family = "sm90"
    <3>1. config.pipeline = Sm90Pipeline(k, t)
      BY <1>5, <2>1 DEF Configured
    <3>2. t \in Sm90TileSet /\ Sm90IsCandidate(k, sms, t)
      BY <1>5, <2>1, Zenon DEF TilesOf, IsCandidate
    <3>3. Sm90Pipeline(k, t).smem <= Capacity
      BY <1>2, <3>2, Sm90CandidatesFit, Zenon
    <3>4. sms % ClusterSize(t) = 0
      BY <3>2, Zenon DEF Sm90IsCandidate
    <3>5. QED BY <3>1, <3>3, <3>4, Zenon
  <2>2. CASE family = "sm100"
    <3>1. config.pipeline = Sm100Pipeline(t)
      BY <1>5, <2>2 DEF Configured
    <3>2. t \in Sm100TileSet /\ Sm100IsCandidate(m, n, sms, t)
      BY <1>5, <2>2 DEF TilesOf, IsCandidate
    <3>3. Sm100Pipeline(t).smem <= Capacity
      BY <3>2, Sm100TilesFit, Zenon
    <3>4. sms % ClusterSize(t) = 0
      BY <3>2, Zenon DEF Sm100IsCandidate
    <3>5. QED BY <3>1, <3>3, <3>4, Zenon
  <2>3. QED BY <1>3, <2>1, <2>2
<1>8. \A box \in Boxes(family, config) : \A i \in 1..2 : box[i] \in 1..256
  <2>1. \A box \in Boxes(family, config) : box[1] \in 1..256 /\ box[2] \in 1..256
    BY <1>5, BoxesAreDescribable, Zenon DEF Families
  <2>2. QED BY <2>1
<1>9. sms % ClusterSize(config.tile) = 0
  BY <1>6, <1>7, Zenon
<1>10. Launchable(family, config, sms)
  BY <1>4, <1>7, <1>8, <1>9, Zenon DEF Launchable
<1>11. QED BY <1>1, <1>10, Zenon

LEMMA AcceptedGemmIsTaken ==
    ASSUME arch \in Families, NEW c \in AnyGemm, Accepts(c),
           \A x \in Sizes(c) : FitsI32(x), AllAligned(c), c.a.shape[2] % 16 = 0,
           arch = "sm90" => c.a.shape[2] <= DeepestK(c.a.shape[1])
    PROVE  LauncherAccepts(c, LogicalSpec(LayoutOf(c))) /\ DriverAccepts(c)
<1>1. PICK out, m, n, k, sms :
         /\ m = c.a.shape[1] /\ n = c.b.shape[1] /\ k = c.a.shape[2] /\ sms = c.sms
         /\ out = LogicalSpec(LayoutOf(c))
  OBVIOUS
<1>2. c.op = "gemm"
  BY OpsOfCalls, Zenon
<1>3. AcceptsGemm(c)
  BY <1>2 DEF Accepts
<1>4. /\ Is(c.a, "fp8", <<m, k>>) /\ Is(c.b, "fp8", <<n, k>>)
      /\ m > 0 /\ n > 0 /\ k > 0 /\ n % 8 = 0
  BY <1>1, <1>3, Zenon DEF AcceptsGemm
<1>5. m \in Counts /\ n \in Counts /\ k \in Counts /\ sms \in Counts
  <2>1. c.a \in Tensors(2) /\ c.b \in Tensors(2) /\ sms \in Nat \ {0}
    BY <1>1, Zenon DEF AnyGemm
  <2>2. c.a.shape \in [1..2 -> Nat] /\ c.b.shape \in [1..2 -> Nat]
    BY <2>1, Zenon DEF Tensors
  <2>3. m \in Nat /\ n \in Nat /\ k \in Nat
    BY <1>1, <2>2, PairOf, Zenon
  <2>4. QED BY <1>4, <2>1, <2>3 DEF Counts
<1>6. m \in Nat /\ n \in Nat /\ k \in Nat
  BY <1>5 DEF Counts
<1>7. "f32" \in ScaleDTypes /\ "ue8m0" \in ScaleDTypes
  BY DEF ScaleDTypes
<1>8. FitsI32(TmaAligned(m, 4)) /\ FitsI32(TmaAligned(n, 4)) /\ FitsI32(k)
  <2>1. Sizes(c) = {TmaAligned(m, 4), TmaAligned(n, 4), k}
    BY <1>1, <1>2 DEF Sizes
  <2>2. QED BY <2>1
<1>9. FitsI32(m) /\ FitsI32(n)
  BY <1>6, <1>8, TmaAlignedIsAligned, ContractsAssumption DEF FitsI32
<1>10. \A x \in GemmSizes(m, n, k) : FitsI32(x)
  BY <1>8, <1>9 DEF GemmSizes
<1>11. /\ NativeIs(c.a, "fp8", <<m, k>>) /\ NativeIs(c.b, "fp8", <<n, k>>)
       /\ Positive(<<m, n>>)
  BY <1>4, PositiveShapes, Zenon DEF NativeIs
<1>12. NativeIs(out, "bf16", <<m, n>>)
  <2>1. PICK l : l = LayoutOf(c)
    OBVIOUS
  <2>2. l = GemmOutputLayout(m, n)
    BY <1>1, <1>2, <2>1 DEF LayoutOf
  <2>3. l.dtype = "bf16" /\ l.logical = <<m, n>> /\ l.strides = <<n, 1>>
    BY <2>2, Zenon DEF GemmOutputLayout, Fill2D, Layout2D
  <2>4. out = Tensor("bf16", <<m, n>>, <<n, 1>>)
    BY <1>1, <2>1, <2>3, Zenon DEF LogicalSpec
  <2>5. RowMajor(<<m, n>>) = <<n, 1>>
    BY <1>6, RowMajorOfPair, Zenon
  <2>6. QED BY <1>11, <2>4, <2>5, Zenon DEF NativeIs, Is, Contiguous
<1>13. PICK config : config = BestConfig(arch, m, n, k, sms)
  OBVIOUS
<1>14. ConfigOf(c) = config
  BY <1>1, <1>13, Zenon DEF ConfigOf
<1>15. Launchable(arch, config, sms)
  <2>1. PICK family : family = arch
    OBVIOUS
  <2>2. family \in Families /\ (family = "sm90" => k <= DeepestK(m))
    BY <1>1, <2>1, Zenon
  <2>3. Launchable(family, BestConfig(family, m, n, k, sms), sms)
    BY <1>5, <1>6, <2>2, ChosenIsLaunchable, Zenon
  <2>4. QED BY <1>13, <2>1, <2>3, Zenon
<1>16. IF arch = "sm90"
       THEN /\ NativeScale(Given(c.a_scale), m, k, 128, "f32")
            /\ NativeIs(c.b_scale, "f32", <<CeilDiv(n, 128), CeilDiv(k, 128)>>)
       ELSE /\ NativeScale(Given(c.a_scale), m, k, 128, "ue8m0")
            /\ NativeScale(Given(c.b_scale), n, k, 128, "ue8m0")
  <2>1. CASE arch = "sm90"
    <3>1. /\ Given(c.a_scale) = LogicalSpec(ScaleLayout(m, k, 128, "f32"))
          /\ Is(c.b_scale, "f32", <<CeilDiv(n, 128), CeilDiv(k, 128)>>)
      BY <1>1, <1>3, <2>1, Zenon DEF AcceptsGemm
    <3>2. NativeScale(Given(c.a_scale), m, k, 128, "f32")
      BY <1>5, <1>7, <3>1, PreparedScaleIsNative
    <3>3. Positive(<<CeilDiv(n, 128), CeilDiv(k, 128)>>)
      <4>1. CeilDiv(n, 128) > 0 /\ CeilDiv(k, 128) > 0
        BY <1>4, <1>6 DEF CeilDiv
      <4>2. QED BY <4>1, PositiveShapes, Zenon
    <3>4. QED BY <2>1, <3>1, <3>2, <3>3, Zenon DEF NativeIs
  <2>2. CASE arch # "sm90"
    <3>1. /\ Given(c.a_scale) = LogicalSpec(ScaleLayout(m, k, 128, "ue8m0"))
          /\ Given(c.b_scale) = LogicalSpec(ScaleLayout(n, k, 128, "ue8m0"))
      BY <1>1, <1>3, <2>2, Zenon DEF AcceptsGemm
    <3>2. NativeScale(Given(c.a_scale), m, k, 128, "ue8m0")
      BY <1>5, <1>7, <3>1, PreparedScaleIsNative
    <3>3. NativeScale(Given(c.b_scale), n, k, 128, "ue8m0")
      BY <1>5, <1>7, <3>1, PreparedScaleIsNative
    <3>4. QED BY <2>2, <3>2, <3>3, Zenon
  <2>3. QED BY <2>1, <2>2
<1>17. NativeGemm(c, out)
  <2>1. ConfigOf(c) # NoConfig
    BY <1>14, <1>15, Zenon DEF Launchable
  <2>2. QED BY <1>1, <1>4, <1>8, <1>10, <1>11, <1>12, <1>16, <2>1, Zenon DEF NativeGemm
<1>18. Describes(c.a) /\ Describes(c.b)
  <2>1. RowMajor(<<m, k>>) = <<k, 1>> /\ RowMajor(<<n, k>>) = <<k, 1>>
    BY <1>6, RowMajorOfPair, Zenon
  <2>2. /\ c.a.dtype = "fp8" /\ c.a.strides = <<k, 1>>
        /\ c.b.dtype = "fp8" /\ c.b.strides = <<k, 1>>
    BY <1>4, <2>1, DenseIs, Zenon
  <2>3. ElemSize("fp8") = 1 /\ k * 1 = k /\ <<k, 1>>[1] = k
    BY <1>6 DEF ElemSize
  <2>4. QED BY <1>1, <2>2, <2>3, Zenon DEF Describes
<1>19. Describable(c)
  <2>1. c.op \notin {"mqa", "paged"}
    BY <1>2
  <2>2. \A box \in Boxes(arch, config) : \A i \in 1..2 : box[i] \in 1..256
    BY <1>15, Zenon DEF Launchable
  <2>3. QED BY <1>14, <1>18, <2>1, <2>2, Zenon DEF Describable, AllAligned
<1>20. Smem(c) <= SmemCapacity
  <2>1. Smem(c) = config.pipeline.smem
    BY <1>2, <1>14 DEF Smem
  <2>2. Capacity = SmemCapacity
    BY DEF Capacity, SmemCapacity
  <2>3. QED BY <1>15, <2>1, <2>2, Zenon DEF Launchable
<1>21. DriverAccepts(c)
  BY <1>1, <1>14, <1>15, <1>19, <1>20, Zenon DEF DriverAccepts, Launchable
<1>22. QED BY <1>1, <1>2, <1>17, <1>21, Zenon DEF LauncherAccepts

-----------------------------------------------------------------------------
(* Why a call that the crate let through is rejected *)

\* The causes that RejectedForCause names.
Cause(c) ==
    \/ \E x \in Sizes(c) : ~FitsI32(x)
    \/ ~AllAligned(c)
    \/ c.op \in {"mqa", "paged"} /\ ~Describes(c.weights)
    \/ c.op = "paged" /\ c.q_scale = NoTensor /\ c.weights.strides[1] # c.weights.shape[2]
    \/ c.op = "gemm" /\ c.a.shape[2] % 16 # 0
    \/ c.op = "gemm" /\ arch = "sm90" /\ c.a.shape[2] > DeepestK(c.a.shape[1])
    \/ Wraps(c)
    \/ c.op = "paged" /\ (c.cache.shape[1] = 0 \/ c.block_table.shape[2] = 0)
    \/ c.op = "plan" /\ ~Positive(c.context_lens.shape)
    \/ c.op \in {"plan", "paged"} /\ c.sms > Sms
    \/ c.op = "plan" /\ PlanSmem(c) > SmemCapacity
    \/ c.op = "scale" /\ CeilDiv(c.k, c.gran_k) > 512

LEMMA CausesAreCauses ==
    RejectedForCause <=> (result = "rejected" => Cause(Call))
  BY Zenon DEF RejectedForCause, Cause, AllAligned

LEMMA CausesStay ==
    ASSUME UNCHANGED <<arch, todo, done>>, Cause(Call)
    PROVE  (Cause(Call))'
<1>1. PICK c : c = Call
  OBVIOUS
<1>2. Call' = c /\ arch' = arch /\ done' = done
  BY <1>1 DEF Call
<1>3. PlanSmem(c)' = PlanSmem(c)
  BY <1>2, Zenon DEF PlanSmem
<1>4. Products(c)' = Products(c)
  BY <1>3, Zenon DEF Products
<1>5. Wraps(c)' <=> Wraps(c)
  BY <1>4, Zenon DEF Wraps, FitsI32
<1>6. AllAligned(c)' <=> AllAligned(c)
  <2>1. Described(c)' = Described(c)
    BY <1>2, Zenon DEF Described
  <2>2. \A f : IsAligned(c, f)' <=> IsAligned(c, f)
    BY <1>2, Zenon DEF IsAligned, AlignedOut
  <2>3. QED BY <2>1, <2>2, Zenon DEF AllAligned
<1>7. Cause(c) => Cause(c)'
  <2>1. arch' = arch
    BY <1>2
  <2>2. SUFFICES ASSUME Cause(c) PROVE Cause(c)'
    OBVIOUS
  <2>3. CASE c.op = "gemm" /\ arch = "sm90" /\ c.a.shape[2] > DeepestK(c.a.shape[1])
    BY <2>1, <2>3, Zenon DEF Cause
  <2>4. CASE Wraps(c)
    BY <1>5, <2>4, Zenon DEF Cause
  <2>5. CASE c.op = "plan" /\ PlanSmem(c) > SmemCapacity
    BY <1>3, <2>5, Zenon DEF Cause
  <2>6. CASE ~AllAligned(c)
    BY <1>6, <2>6, Zenon DEF Cause
  <2>7. QED BY <2>2, <2>3, <2>4, <2>5, <2>6, Zenon DEF Cause
<1>8. Cause(c)'
  BY <1>1, <1>7, Zenon
<1>9. QED BY <1>2, <1>8, Zenon

\* The orders that the proofs need are total on what they compare.
LEMMA NotMore ==
    /\ \A x, y \in Nat : ~(x > y) => x <= y
    /\ \A x \in Nat, y \in Int : ~(x > y) => x <= y
  OBVIOUS

LEMMA DeepestIsInteger ==
    ASSUME NEW m \in Nat
    PROVE  DeepestK(m) \in Int
<1> DEFINE block == IF m <= 16 THEN 16 ELSE IF m <= 32 THEN 32 ELSE 64
<1>0. block \in {16, 32, 64}
  OBVIOUS
<1>1. PICK t : t = Tile(FALSE, block, 16, 1, 1)
  OBVIOUS
<1> HIDE DEF block
<1>2. t.block_m \in {16, 32, 64} /\ t.block_n = 16
  BY <1>0, <1>1, Zenon DEF Tile
<1>3. Sm90Stage(t) \in Int
  BY <1>2 DEF Sm90Stage, BlockK, AlignUp
<1>4. Sm90Once(0, t) \in Int
  BY <1>2 DEF Sm90Once, BlockK, AlignUp, CeilDiv
<1>5. PICK room \in Int : room = Capacity - Sm90Once(0, t) - 4 * Sm90Stage(t)
  BY <1>3, <1>4 DEF Capacity
<1>6. DeepestK(m) = (room \div 8) * 2 * BlockK
  BY <1>1, <1>5 DEF DeepestK, block
<1>7. QED BY <1>5, <1>6 DEF BlockK

\* What the crate accepts and has none of the causes is launched.
LEMMA CallWithoutCauseIsTaken ==
    ASSUME arch \in Families, NEW c \in Pending, c.op \in Ops, Accepts(c), ~Cause(c)
    PROVE  LauncherAccepts(c, LogicalSpec(LayoutOf(c))) /\ DriverAccepts(c)
<1>1. (\A x \in Sizes(c) : FitsI32(x)) /\ AllAligned(c)
  BY Zenon DEF Cause
<1>2. CASE c.op = "mqa"
  <2>1. c \in AnyMqa
    BY <1>2, CallsByOp, Zenon
  <2>2. Describes(c.weights)
    BY <1>2 DEF Cause
  <2>3. QED BY <1>1, <2>1, <2>2, AcceptedMqaIsTaken, Zenon
<1>3. CASE c.op = "plan"
  <2>1. c \in AnyPlan
    BY <1>3, CallsByOp, Zenon
  <2>2. Positive(c.context_lens.shape) /\ ~(c.sms > Sms) /\ ~(PlanSmem(c) > SmemCapacity)
    BY <1>3 DEF Cause
  <2>3. c.sms <= Sms
    <3>1. c.sms \in Nat /\ Sms \in Nat
      BY <2>1, ContractsAssumption, Zenon DEF AnyPlan
    <3>2. QED BY <2>2, <3>1, NotMore, Zenon
  <2>4. PlanSmem(c) <= SmemCapacity
    <3>1. c.context_lens \in Tensors(2)
      BY <2>1, Zenon DEF AnyPlan
    <3>2. c.context_lens.shape \in [1..2 -> Nat]
      BY <3>1, Zenon DEF Tensors
    <3>3. PICK batch \in Nat : batch = c.context_lens.shape[1]
      BY <3>2, PairOf, Zenon
    <3>4. AlignUp(batch, 32) * 4 \in Nat /\ 2 * batch * 4 \in Nat
      BY AlignUpBounds
    <3>5. PlanSmem(c) \in Nat
      BY <3>3, <3>4 DEF PlanSmem
    <3>6. SmemCapacity \in Nat
      BY DEF SmemCapacity
    <3>7. QED BY <2>2, <3>5, <3>6, NotMore, Zenon
  <2>5. QED BY <1>1, <2>1, <2>2, <2>3, <2>4, AcceptedPlanIsTaken, Zenon
<1>4. CASE c.op = "paged"
  <2>1. c \in AnyPaged
    BY <1>4, CallsByOp, Zenon
  <2>2. /\ Describes(c.weights)
        /\ c.q_scale = NoTensor => c.weights.strides[1] = c.weights.shape[2]
        /\ c.cache.shape[1] # 0 /\ c.block_table.shape[2] # 0 /\ ~(c.sms > Sms)
    BY <1>4 DEF Cause
  <2>3. c.sms <= Sms
    <3>1. c.sms \in Nat /\ Sms \in Nat
      BY <2>1, ContractsAssumption, Zenon DEF AnyPaged
    <3>2. QED BY <2>2, <3>1, NotMore, Zenon
  <2>4. QED BY <1>1, <2>1, <2>2, <2>3, AcceptedPagedIsTaken, Zenon
<1>5. CASE c.op = "scale"
  <2>1. c \in AnyScale
    BY <1>5, CallsByOp, Zenon
  <2>2. ~(CeilDiv(c.k, c.gran_k) > 512)
    BY <1>5 DEF Cause
  <2>3. CeilDiv(c.k, c.gran_k) <= 512
    <3>1. AcceptsScale(c)
      BY <1>5 DEF Accepts
    <3>2. c.gran_k > 0
      BY <3>1, Zenon DEF AcceptsScale
    <3>3. c.k \in Nat /\ c.gran_k \in Nat
      BY <2>1, Zenon DEF AnyScale
    <3>4. CeilDiv(c.k, c.gran_k) \in Nat
      BY <3>2, <3>3, CeilDivBounds
    <3>5. QED BY <2>2, <3>4
  <2>4. QED BY <1>1, <2>1, <2>3, AcceptedScaleIsTaken, Zenon
<1>6. CASE c.op = "gemm"
  <2>1. c \in AnyGemm
    BY <1>6, CallsByOp, Zenon
  <2>2. c.a.shape[2] % 16 = 0 /\ (arch = "sm90" => ~(c.a.shape[2] > DeepestK(c.a.shape[1])))
    BY <1>6 DEF Cause
  <2>3. PICK m \in Nat, k \in Nat : m = c.a.shape[1] /\ k = c.a.shape[2]
    <3>1. c.a \in Tensors(2)
      BY <2>1, Zenon DEF AnyGemm
    <3>2. c.a.shape \in [1..2 -> Nat]
      BY <3>1, Zenon DEF Tensors
    <3>3. QED BY <3>2, PairOf, Zenon
  <2>4. DeepestK(m) \in Int
    BY DeepestIsInteger
  <2>5. arch = "sm90" => k <= DeepestK(m)
    BY <2>2, <2>3, <2>4, NotMore, Zenon
  <2>6. QED BY <1>1, <2>1, <2>2, <2>3, <2>5, AcceptedGemmIsTaken, Zenon
<1>7. QED BY <1>2, <1>3, <1>4, <1>5, <1>6 DEF Ops

\* A layout is kept for a call that the crate accepts.
AcceptedInv == layout # NoLayout => Accepts(Call)

LEMMA AcceptsStays ==
    ASSUME UNCHANGED <<arch, todo, done>>, Accepts(Call)
    PROVE  (Accepts(Call))'
<1>1. PICK c : c = Call
  OBVIOUS
<1>2. \A x : Given(x)' = Given(x)
  BY Zenon DEF Given
<1>3. AcceptsMqa(c) => AcceptsMqa(c)'
  BY DEF AcceptsMqa, AcceptsWeights, SupportsHeads
<1>4. AcceptsPlan(c) => AcceptsPlan(c)'
  BY DEF AcceptsPlan, SupportsBlockKv, AcceptsIndices
<1>5. AcceptsPaged(c) => AcceptsPaged(c)'
  BY DEF AcceptsPaged, AcceptsWeights, SupportsHeads, SupportsBlockKv, AcceptsIndices, Given
<1>6. AcceptsGemm(c) => AcceptsGemm(c)'
  BY <1>2 DEF AcceptsGemm, Given
<1>7. Accepts(c)
  BY <1>1
<1>8. Accepts(c)'
  BY <1>3, <1>4, <1>5, <1>6, <1>7, Zenon DEF Accepts, AcceptsScale
<1>9. Call' = c
  BY <1>1 DEF Call
<1>10. QED BY <1>8, <1>9, Zenon

LEMMA AcceptedStep ==
    ASSUME SessionInv, AcceptedInv, [Next]_vars
    PROVE  AcceptedInv'
<1>1. CASE MqaLogits \/ PagedPlan \/ PagedMqaLogits \/ PrepareScale \/ GemmPrepared
  <2>1. Accepts(Call) /\ UNCHANGED <<arch, todo, done>>
    BY <1>1, Zenon DEF MqaLogits, PagedPlan, PagedMqaLogits, PrepareScale, GemmPrepared, Layout
  <2>2. (Accepts(Call))'
    BY <2>1, AcceptsStays
  <2>3. QED BY <2>2, Zenon DEF AcceptedInv
<1>2. CASE GemmRaw \/ GemmRawB \/ Launch
  <2>1. layout' = NoLayout
    BY <1>2, Zenon DEF GemmRaw, GemmRawB, Launch, Calling
  <2>2. QED BY <2>1, Zenon DEF AcceptedInv
<1>3. CASE UNCHANGED <<arch, todo, layout, done>>
  <2>1. layout' = layout /\ UNCHANGED <<arch, todo, done>>
    BY <1>3
  <2>2. Accepts(Call) => (Accepts(Call))'
    BY <2>1, AcceptsStays
  <2>3. QED BY <2>1, <2>2, Zenon DEF AcceptedInv
<1>4. CASE Refuse \/ RefuseRaw \/ RefuseOutput \/ Reject \/ Allocate \/ Finish \/ Finished
  <2>1. UNCHANGED <<arch, todo, layout, done>>
    BY <1>4 DEF Refuse, RefuseRaw, RefuseOutput, Reject, Allocate, Finish, Finished, GiveUp, vars
  <2>2. QED BY <1>3, <2>1
<1>5. CASE UNCHANGED vars
  <2>1. UNCHANGED <<arch, todo, layout, done>>
    BY <1>5 DEF vars
  <2>2. QED BY <1>3, <2>1
<1>6. QED BY <1>1, <1>2, <1>4, <1>5, Zenon DEF Next

LEMMA RejectedStep ==
    ASSUME SessionInv, AcceptedInv, RejectedForCause, [Next]_vars
    PROVE  RejectedForCause'
<1>0. (result' = "rejected" => (Cause(Call))') => RejectedForCause'
  BY Zenon DEF RejectedForCause, Cause, AllAligned
<1>1. CASE Reject
  <2>1. /\ layout # NoLayout /\ todo # <<>> /\ UNCHANGED <<arch, todo, done>>
        /\ ~(LauncherAccepts(Call, LogicalSpec(layout)) /\ DriverAccepts(Call)) \/ Wraps(Call)
    <3>1. view # NoTensor /\ todo # <<>> /\ OutSpec = LogicalSpec(layout)
      BY <1>1, Zenon DEF Reject, Allocated, Running
    <3>2. layout # NoLayout
      BY <3>1, Zenon DEF SessionInv, CurrentInv
    <3>3. UNCHANGED <<arch, todo, done>>
      BY <1>1, Zenon DEF Reject, GiveUp
    <3>4. ~(LauncherAccepts(Call, OutSpec) /\ DriverAccepts(Call)) \/ Wraps(Call)
      BY <1>1, Zenon DEF Reject
    <3>5. QED BY <3>1, <3>2, <3>3, <3>4, Zenon
  <2>2. PICK c : c = Call
    OBVIOUS
  <2>3. c \in Pending /\ c.op \in Ops /\ Accepts(c) /\ layout = LayoutOf(c) /\ arch \in Families
    <3>1. todo \in Seq(Pending) /\ arch \in Families
      BY Zenon DEF SessionInv, TypesInv
    <3>2. c \in Pending
      BY <2>1, <2>2, <3>1, FirstOf, Zenon DEF Call
    <3>3. Ready(c) /\ layout = LayoutOf(c)
      BY <2>1, <2>2, Zenon DEF SessionInv, CurrentInv, Call
    <3>4. c.op \in Ops
      BY <3>3, Zenon DEF Ready
    <3>5. QED BY <2>1, <2>2, <3>1, <3>2, <3>3, <3>4, Zenon DEF AcceptedInv
  <2>4. Wraps(c) => Cause(c)
    BY Zenon DEF Cause
  <2>5. ~Cause(c) => LauncherAccepts(c, LogicalSpec(LayoutOf(c))) /\ DriverAccepts(c)
    BY <2>3, CallWithoutCauseIsTaken, Zenon
  <2>6. Cause(Call)
    BY <2>1, <2>2, <2>3, <2>4, <2>5, Zenon
  <2>7. (Cause(Call))'
    BY <2>1, <2>6, CausesStay
  <2>8. QED BY <1>0, <2>7, Zenon
<1>2. CASE UNCHANGED <<arch, todo, done, result>>
  <2>1. Cause(Call) => (Cause(Call))'
    BY <1>2, CausesStay
  <2>2. QED BY <1>0, <1>2, <2>1, CausesAreCauses, Zenon
<1>3. CASE Refuse \/ RefuseRaw \/ RefuseOutput \/ Finish
  <2>1. result' = "refused" \/ result' = "ok"
    BY <1>3, Zenon DEF Refuse, RefuseRaw, RefuseOutput, Finish, GiveUp
  <2>2. QED BY <1>0, <2>1
<1>4. CASE MqaLogits \/ PagedPlan \/ PagedMqaLogits \/ PrepareScale \/ GemmPrepared
           \/ GemmRaw \/ GemmRawB \/ Allocate \/ Launch
  <2>1. result = "none" /\ result' = result
    BY <1>4, Zenon DEF MqaLogits, PagedPlan, PagedMqaLogits, PrepareScale, GemmPrepared, Layout,
       GemmRaw, GemmRawB, Calling, Allocate, Launch, MayLaunch, Allocated, Running
  <2>2. QED BY <1>0, <2>1
<1>5. CASE Finished \/ UNCHANGED vars
  BY <1>2, <1>5 DEF Finished, vars
<1>6. QED BY <1>1, <1>3, <1>4, <1>5, Zenon DEF Next

\* The crate and the launchers check a call each for itself, in Rust and in C++ (mqa.rs:377,
\* deepgemm_raw_mqa.cc:1081).  What the crate lets through, a launcher or the driver reject for
\* the causes of RejectedForCause only, whatever the tensors and whatever was launched before.
THEOREM RejectionsHaveCauses == Spec => []RejectedForCause
<1>1. Init => AcceptedInv /\ RejectedForCause
  BY DEF Init, AcceptedInv, RejectedForCause
<1>2. SessionInv /\ AcceptedInv /\ RejectedForCause /\ [Next]_vars => AcceptedInv' /\ RejectedForCause'
  BY AcceptedStep, RejectedStep
<1>3. QED BY <1>1, <1>2, SessionInvariant, PTL DEF Spec

-----------------------------------------------------------------------------
(* Scales that are spread over the rows of their blocks *)

\* Threads and the cells of a matrix, row by row, are in bijection.
LEMMA ThreadOfCell ==
    ASSUME NEW rows \in Nat, NEW cols \in Nat, cols > 0, NEW row \in 0..rows - 1, NEW col \in 0..cols - 1
    PROVE  /\ row * cols + col \in 0..rows * cols - 1
           /\ (row * cols + col) \div cols = row
           /\ (row * cols + col) % cols = col
<1>1. row \in Nat /\ col \in Nat /\ row + 1 <= rows /\ col + 1 <= cols
  OBVIOUS
<1>2. PICK x \in Nat : x = row * cols + col
  BY <1>1
<1>3. row * cols \in Nat /\ rows * cols \in Nat
  BY <1>1
<1>4. (row + 1) * cols = row * cols + cols
  BY <1>1
<1>5. (row + 1) * cols <= rows * cols
  BY <1>1
<1>6. x <= rows * cols - 1
  BY <1>1, <1>2, <1>3, <1>4, <1>5
<1>7. x \div cols = row
  BY <1>1, <1>2
<1>8. x % cols = col
  BY <1>1, <1>2
<1>9. QED BY <1>2, <1>3, <1>6, <1>7, <1>8

LEMMA CellOfThread ==
    ASSUME NEW rows \in Nat, NEW cols \in Nat, cols > 0, NEW x \in 0..rows * cols - 1
    PROVE  /\ x \div cols \in 0..rows - 1 /\ x % cols \in 0..cols - 1
           /\ x = (x \div cols) * cols + (x % cols)
<1>1. rows * cols \in Nat /\ x \in Nat /\ x < rows * cols
  OBVIOUS
<1>2. PICK row \in Nat, col \in Nat : row = x \div cols /\ col = x % cols
  BY <1>1
<1>3. col < cols
  BY <1>1, <1>2
<1>4. x = row * cols + col
  BY <1>1, <1>2
<1>5. row < rows
  <2>1. row * cols < rows * cols
    BY <1>1, <1>3, <1>4
  <2>2. QED BY <2>1, <1>1
<1>6. QED BY <1>2, <1>3, <1>4, <1>5

\* Cells of a matrix whose columns are at least as long as it has rows are apart.
LEMMA CellsApart ==
    ASSUME NEW rows \in Nat, NEW pitch \in Nat, pitch >= rows,
           NEW r1 \in 0..rows - 1, NEW c1 \in Nat, NEW r2 \in 0..rows - 1, NEW c2 \in Nat,
           c1 * pitch + r1 = c2 * pitch + r2
    PROVE  r1 = r2 /\ c1 = c2
<1>1. r1 \in 0..pitch - 1 /\ r2 \in 0..pitch - 1 /\ pitch > 0
  OBVIOUS
<1>2. (c1 * pitch + r1) \div pitch = c1 /\ (c1 * pitch + r1) % pitch = r1
  <2>1. PICK rows1 \in Nat : rows1 = c1 + 1 /\ c1 \in 0..rows1 - 1
    OBVIOUS
  <2>2. QED BY <1>1, <2>1, ThreadOfCell
<1>3. (c2 * pitch + r2) \div pitch = c2 /\ (c2 * pitch + r2) % pitch = r2
  <2>1. PICK rows2 \in Nat : rows2 = c2 + 1 /\ c2 \in 0..rows2 - 1
    OBVIOUS
  <2>2. QED BY <1>1, <2>1, ThreadOfCell
<1>4. QED BY <1>2, <1>3, Zenon

\* Where thread x writes, of the threads that each have a cell.
PlaceOf(cols, pitch, x) == (x % cols) * pitch + (x \div cols)

LEMMA CellsAreCounted ==
    ASSUME NEW rows \in Nat, NEW cols \in Nat, cols > 0, NEW pitch \in Nat, pitch >= rows
    PROVE  Cardinality({PlaceOf(cols, pitch, x) : x \in 0..rows * cols - 1}) = rows * cols
<1> DEFINE Threads == 0..rows * cols - 1
           Cells == {PlaceOf(cols, pitch, x) : x \in Threads}
           f == [x \in Threads |-> PlaceOf(cols, pitch, x)]
<1>1. rows * cols \in Nat
  OBVIOUS
<1>2. IsFiniteSet(Threads) /\ Cardinality(Threads) = rows * cols
  <2>1. PICK last \in Int : last = rows * cols - 1
    BY <1>1
  <2>2. IsFiniteSet(0..last) /\ Cardinality(0..last) = IF 0 > last THEN 0 ELSE last - 0 + 1
    BY <2>1, FS_Interval
  <2>3. QED BY <1>1, <2>1, <2>2
<1>3. ASSUME NEW x \in Threads, NEW y \in Threads, PlaceOf(cols, pitch, x) = PlaceOf(cols, pitch, y)
      PROVE  x = y
  <2>1. /\ x \div cols \in 0..rows - 1 /\ x % cols \in 0..cols - 1
        /\ x = (x \div cols) * cols + (x % cols)
    BY CellOfThread
  <2>2. /\ y \div cols \in 0..rows - 1 /\ y % cols \in 0..cols - 1
        /\ y = (y \div cols) * cols + (y % cols)
    BY CellOfThread
  <2>3. PICK r1 \in 0..rows - 1, c1 \in Nat : r1 = x \div cols /\ c1 = x % cols
    BY <2>1
  <2>4. PICK r2 \in 0..rows - 1, c2 \in Nat : r2 = y \div cols /\ c2 = y % cols
    BY <2>2
  <2>5. c1 * pitch + r1 = c2 * pitch + r2
    BY <1>3, <2>3, <2>4, Zenon DEF PlaceOf
  <2>6. r1 = r2 /\ c1 = c2
    BY <2>5, CellsApart
  <2>7. QED BY <2>1, <2>2, <2>3, <2>4, <2>6
<1> HIDE DEF Threads
<1>4. f \in Bijection(Threads, Cells)
  <2>1. f \in [Threads -> Cells]
    OBVIOUS
  <2>2. \A x, y \in Threads : f[x] = f[y] => x = y
    BY <1>3
  <2>3. \A z \in Cells : \E x \in Threads : f[x] = z
    OBVIOUS
  <2>4. QED BY <2>1, <2>2, <2>3 DEF Bijection, Injection, Surjection, IsInjective
<1>5. Cardinality(Cells) = Cardinality(Threads)
  BY <1>2, <1>4, FS_Bijection DEF ExistsBijection
<1>6. QED BY <1>2, <1>5 DEF Threads

\* What the kernel writes for one element, and what BroadcastFillsView asks of it.
Cell(c, pitch, row, col) ==
    [at |-> col * pitch + row,
     from |-> {<<lane, (row \div c.gran_mn) * CeilDiv(c.k, c.gran_k) + col * Packing(c.dtype) + lane>> :
                  lane \in {y \in 0..Packing(c.dtype) - 1 :
                               col * Packing(c.dtype) + y < CeilDiv(c.k, c.gran_k)}}]
Asked(c, v, row, col) ==
    [at |-> row * v.strides[1] + col * v.strides[2],
     from |-> {<<y, RawElement(c, row, col, y)>> :
                  y \in {y \in 0..Packing(c.dtype) - 1 : col * Packing(c.dtype) + y < c.scale.shape[2]}}]

\* Block scales lie in rows of blocks.
LEMMA ScaleIsDense ==
    ASSUME NEW c \in AnyScale, AcceptsScale(c)
    PROVE  /\ CeilDiv(c.k, c.gran_k) \in Nat
           /\ c.scale.shape[2] = CeilDiv(c.k, c.gran_k)
           /\ c.scale.strides[1] = CeilDiv(c.k, c.gran_k) /\ c.scale.strides[2] = 1
<1>1. c.mn \in Nat /\ c.k \in Nat /\ c.gran_mn \in Nat /\ c.gran_k \in Nat
  BY Zenon DEF AnyScale
<1>2. c.k > 0 /\ c.gran_mn > 0 /\ c.gran_k > 0 /\ c.mn > 0
  BY Zenon DEF AcceptsScale
<1>3. PICK rows, blocks : rows = CeilDiv(c.mn, c.gran_mn) /\ blocks = CeilDiv(c.k, c.gran_k)
  OBVIOUS
<1>4. rows \in Nat /\ blocks \in Nat
  BY <1>1, <1>2, <1>3, CeilDivBounds
<1>5. c.scale = Contiguous("f32", <<rows, blocks>>)
  BY <1>3, Zenon DEF AcceptsScale, Is
<1>6. RowMajor(<<rows, blocks>>) = <<blocks, 1>>
  BY <1>4, RowMajorOfPair
<1>7. c.scale.shape = <<rows, blocks>> /\ c.scale.strides = <<blocks, 1>>
  BY <1>5, <1>6 DEF Contiguous, Tensor
<1>8. QED BY <1>3, <1>4, <1>7

LEMMA CellIsAsked ==
    ASSUME NEW c \in AnyScale, AcceptsScale(c), NEW pitch \in Nat, NEW v, v.strides = <<1, pitch>>,
           NEW row \in Nat, NEW col \in Nat
    PROVE  Cell(c, pitch, row, col) = Asked(c, v, row, col)
<1>1. PICK blocks \in Nat : blocks = CeilDiv(c.k, c.gran_k)
  BY ScaleIsDense
<1>2. c.scale.shape[2] = blocks /\ c.scale.strides[1] = blocks /\ c.scale.strides[2] = 1
  BY <1>1, ScaleIsDense
<1>3. PICK lanes \in Nat : lanes = Packing(c.dtype)
  BY DEF Packing
<1>4. PICK block \in Nat : block = row \div c.gran_mn
  <2>1. c.gran_mn \in Nat /\ c.gran_mn > 0
    BY Zenon DEF AnyScale, AcceptsScale
  <2>2. QED BY <2>1
<1>5. \A y \in 0..lanes - 1 :
         RawElement(c, row, col, y) = block * blocks + col * lanes + y
  BY <1>2, <1>3, <1>4 DEF RawElement
<1>6. row * v.strides[1] + col * v.strides[2] = col * pitch + row
  OBVIOUS
<1>7. \A y : y \in {z \in 0..Packing(c.dtype) - 1 : col * Packing(c.dtype) + z < CeilDiv(c.k, c.gran_k)}
             <=> y \in {z \in 0..Packing(c.dtype) - 1 : col * Packing(c.dtype) + z < c.scale.shape[2]}
  BY <1>1, <1>2
<1>8. \A y \in {z \in 0..Packing(c.dtype) - 1 : col * Packing(c.dtype) + z < CeilDiv(c.k, c.gran_k)} :
         RawElement(c, row, col, y)
             = (row \div c.gran_mn) * CeilDiv(c.k, c.gran_k) + col * Packing(c.dtype) + y
  BY <1>1, <1>3, <1>4, <1>5
<1>9. Cell(c, pitch, row, col).from = Asked(c, v, row, col).from
  <2> DEFINE S == {z \in 0..Packing(c.dtype) - 1 : col * Packing(c.dtype) + z < CeilDiv(c.k, c.gran_k)}
             T == {z \in 0..Packing(c.dtype) - 1 : col * Packing(c.dtype) + z < c.scale.shape[2]}
             e(y) == (row \div c.gran_mn) * CeilDiv(c.k, c.gran_k) + col * Packing(c.dtype) + y
  <2>1. S = T
    BY <1>7
  <2>2. \A y \in S : RawElement(c, row, col, y) = e(y)
    BY <1>8
  <2>3. Cell(c, pitch, row, col).from = {<<y, e(y)>> : y \in S}
    BY DEF Cell
  <2>4. Asked(c, v, row, col).from = {<<y, RawElement(c, row, col, y)>> : y \in T}
    BY DEF Asked
  <2> HIDE DEF S, T, e
  <2>5. {<<y, e(y)>> : y \in S} = {<<y, RawElement(c, row, col, y)>> : y \in S}
    BY <2>2
  <2>6. QED BY <2>1, <2>3, <2>4, <2>5, Zenon
<1>10. Cell(c, pitch, row, col).at = Asked(c, v, row, col).at
  BY <1>6 DEF Cell, Asked
<1>11. QED BY <1>9, <1>10 DEF Cell, Asked

Cells(c, pitch, rows, cols) == {Cell(c, pitch, row, col) : row \in 0..rows - 1, col \in 0..cols - 1}
AskedOf(c, v, rows, cols) == {Asked(c, v, row, col) : row \in 0..rows - 1, col \in 0..cols - 1}

Places(writes) == {w.at : w \in writes}
PlacesOf(cols, pitch, threads) == {PlaceOf(cols, pitch, x) : x \in threads}

\* Each thread has one cell, and each cell a thread.
LEMMA WritesAreCells ==
    ASSUME NEW c \in AnyScale, NEW l, NEW pitch, l.strides[2] = pitch, NEW rows \in Nat, NEW cols \in Nat, cols > 0,
           rows = c.mn, cols = CeilDiv(CeilDiv(c.k, c.gran_k), Packing(c.dtype))
    PROVE  /\ BroadcastWrites(c, l) = Cells(c, pitch, rows, cols)
           /\ Places(BroadcastWrites(c, l)) = PlacesOf(cols, pitch, 0..rows * cols - 1)
<1> DEFINE Threads == 0..rows * cols - 1
           Mine(x) == Cell(c, pitch, x \div cols, x % cols)
<1>1. BroadcastWrites(c, l) = {Mine(x) : x \in Threads}
  <2>1. BroadcastWrites(c, l) =
           {Cell(c, pitch, x \div CeilDiv(CeilDiv(c.k, c.gran_k), Packing(c.dtype)),
                       x % CeilDiv(CeilDiv(c.k, c.gran_k), Packing(c.dtype))) :
               x \in 0..(c.mn * CeilDiv(CeilDiv(c.k, c.gran_k), Packing(c.dtype)) - 1)}
    BY DEF BroadcastWrites, BroadcastColumn, Cell
  <2>2. QED BY <2>1, Zenon
<1>2. \A x \in Threads : x \div cols \in 0..rows - 1 /\ x % cols \in 0..cols - 1
  BY CellOfThread
<1>3. \A row \in 0..rows - 1, col \in 0..cols - 1 :
         \E x \in Threads : x \div cols = row /\ x % cols = col
  <2>1. ASSUME NEW row \in 0..rows - 1, NEW col \in 0..cols - 1
        PROVE  \E x \in Threads : x \div cols = row /\ x % cols = col
    BY ThreadOfCell
  <2>2. QED BY <2>1
<1>4. \A x \in Threads : Mine(x).at = PlaceOf(cols, pitch, x)
  BY Zenon DEF Cell, PlaceOf
<1>5. {Mine(x) : x \in Threads} = Cells(c, pitch, rows, cols)
  <2>1. ASSUME NEW x \in Threads
        PROVE  Mine(x) \in {Cell(c, pitch, row, col) : row \in 0..rows - 1, col \in 0..cols - 1}
    <3>1. PICK row \in 0..rows - 1, col \in 0..cols - 1 : row = x \div cols /\ col = x % cols
      BY <1>2, Zenon
    <3>2. Mine(x) = Cell(c, pitch, row, col)
      BY <3>1
    <3> HIDE DEF Mine
    <3>3. QED BY <3>2
  <2>2. ASSUME NEW row \in 0..rows - 1, NEW col \in 0..cols - 1
        PROVE  Cell(c, pitch, row, col) \in {Mine(x) : x \in Threads}
    <3>1. PICK x \in Threads : x \div cols = row /\ x % cols = col
      BY <1>3, Zenon
    <3>2. Mine(x) = Cell(c, pitch, row, col)
      BY <3>1
    <3> HIDE DEF Mine, Threads
    <3>3. QED BY <3>2
  <2> HIDE DEF Mine, Threads
  <2>3. QED BY <2>1, <2>2 DEF Cells
<1>6. Places({Mine(x) : x \in Threads}) = PlacesOf(cols, pitch, Threads)
  <2> HIDE DEF Mine, Threads
  <2>1. QED BY <1>4, Zenon DEF Places, PlacesOf
<1> HIDE DEF Mine
<1>7. BroadcastWrites(c, l) = Cells(c, pitch, rows, cols)
  BY <1>1, <1>5, Zenon
<1>8. Places(BroadcastWrites(c, l)) = PlacesOf(cols, pitch, Threads)
  BY <1>1, <1>6, Zenon
<1>9. QED BY <1>7, <1>8, Zenon

LEMMA BroadcastFills ==
    ASSUME NEW c \in AnyScale, Ready(c), AcceptsScale(c)
    PROVE  FillsView(c, LayoutOf(c), LogicalSpec(LayoutOf(c)))
<1>1. PICK rows \in Nat, cols \in Nat, pitch \in Nat :
         /\ rows = c.mn /\ cols = ScaleCols(c) /\ pitch = ScaleRows(c)
         /\ cols > 0 /\ pitch >= rows
  <2>1. c.mn \in Counts /\ ScaleCols(c) \in Counts /\ ScaleRows(c) \in Nat /\ ScaleRows(c) >= c.mn
    BY ScaleIsLaidOut, Zenon
  <2>2. c.mn \in Nat /\ ScaleCols(c) \in Nat /\ ScaleCols(c) > 0
    BY <2>1 DEF Counts
  <2>3. QED BY <2>1, <2>2, Zenon
<1>2. PICK l : l = Layout2D(c.dtype, <<rows, cols>>, <<cols, pitch>>, <<1, pitch>>) /\ l = LayoutOf(c)
  BY <1>1, ScaleIsLaidOut, Zenon
<1>3. l.strides = <<1, pitch>> /\ l.logical = <<rows, cols>> /\ l.strides[2] = pitch
  BY <1>2 DEF Layout2D
<1>4. PICK v : v = LogicalSpec(l)
  OBVIOUS
<1>5. v.strides = l.strides /\ v.shape = l.logical
  BY <1>4, Zenon DEF LogicalSpec, Tensor
<1>6. v.strides[1] = 1 /\ v.strides[2] = pitch /\ v.shape[1] = rows /\ v.shape[2] = cols
  BY <1>3, <1>5
<1>7. cols = CeilDiv(CeilDiv(c.k, c.gran_k), Packing(c.dtype))
  <2>1. c.mn \in Counts /\ c.k \in Counts /\ c.gran_k \in Counts
    <3>1. c.mn \in Nat /\ c.k \in Nat /\ c.gran_k \in Nat
      BY Zenon DEF AnyScale
    <3>2. c.mn > 0 /\ c.k > 0 /\ c.gran_k > 0
      BY Zenon DEF AcceptsScale
    <3>3. QED BY <3>1, <3>2 DEF Counts
  <2>2. c.dtype \in ScaleDTypes
    BY DEF AcceptsScale, ScaleDTypes
  <2>3. CeilDiv(CeilDiv(c.k, c.gran_k), Packing(c.dtype)) = CeilDiv(c.k, c.gran_k * Packing(c.dtype))
    BY <2>1, <2>2, ScaleNumbers
  <2>4. QED BY <1>1, <2>3, Zenon DEF ScaleCols
<1>8. /\ BroadcastWrites(c, l) = Cells(c, pitch, rows, cols)
      /\ Places(BroadcastWrites(c, l)) = PlacesOf(cols, pitch, 0..rows * cols - 1)
  BY <1>1, <1>3, <1>7, WritesAreCells
<1>9. \A row \in 0..rows - 1, col \in 0..cols - 1 : Cell(c, pitch, row, col) = Asked(c, v, row, col)
  <2>1. ASSUME NEW row \in 0..rows - 1, NEW col \in 0..cols - 1
        PROVE  Cell(c, pitch, row, col) = Asked(c, v, row, col)
    <3>1. row \in Nat /\ col \in Nat
      OBVIOUS
    <3>2. v.strides = <<1, pitch>>
      BY <1>3, <1>5, Zenon
    <3>3. AcceptsScale(c) /\ c \in AnyScale /\ pitch \in Nat
      OBVIOUS
    <3>4. QED BY <3>1, <3>2, <3>3, CellIsAsked, SMTT(30)
  <2>2. QED BY <2>1
<1>10. Cells(c, pitch, rows, cols) = AskedOf(c, v, v.shape[1], v.shape[2])
  <2>1. Cells(c, pitch, rows, cols) = AskedOf(c, v, rows, cols)
    BY <1>9 DEF Cells, AskedOf
  <2>2. QED BY <1>6, <2>1, Zenon
<1>11. Cardinality(Places(BroadcastWrites(c, l))) = v.shape[1] * v.shape[2]
  <2>1. Cardinality(PlacesOf(cols, pitch, 0..rows * cols - 1)) = rows * cols
    BY <1>1, CellsAreCounted DEF PlacesOf
  <2>2. QED BY <1>6, <1>8, <2>1, Zenon
<1>12. FillsView(c, l, v)
  <2>1. BroadcastWrites(c, l) = AskedOf(c, v, v.shape[1], v.shape[2])
    BY <1>8, <1>10, Zenon
  <2>2. AskedOf(c, v, v.shape[1], v.shape[2]) =
           {[at |-> row * v.strides[1] + col * v.strides[2],
             from |-> {<<y, RawElement(c, row, col, y)>> :
                          y \in {y \in 0..Packing(c.dtype) - 1 :
                                    col * Packing(c.dtype) + y < c.scale.shape[2]}}] :
               row \in 0..v.shape[1] - 1, col \in 0..v.shape[2] - 1}
    BY DEF AskedOf, Asked
  <2>3. QED BY <1>11, <2>1, <2>2 DEF FillsView, Places
<1>13. QED BY <1>2, <1>4, <1>12, Zenon

\* A transform was launched with the scales that the crate accepted.
TransformsInv == \A i \in DOMAIN done : done[i].call.op = "scale" => AcceptsScale(done[i].call)

LEMMA TransformsStep ==
    ASSUME SessionInv, AcceptedInv, TransformsInv, [Next]_vars
    PROVE  TransformsInv'
<1>1. CASE Launch
  <2>1. MayLaunch /\ done' = Append(done, Launched)
    BY <1>1, Zenon DEF Launch
  <2>2. view # NoTensor
    BY <2>1, Zenon DEF MayLaunch, Allocated
  <2>3. layout # NoLayout
    BY <2>2, Zenon DEF SessionInv, CurrentInv
  <2>4. PICK d, c : d = Launched /\ c = Call
    OBVIOUS
  <2>5. d \in Launches /\ d.call = c
    BY <1>1, <2>1, <2>4, LaunchedIsMade, Zenon DEF Launched
  <2>6. c.op = "scale" => AcceptsScale(c)
    BY <2>3, <2>4 DEF AcceptedInv, Accepts
  <2>7. done \in Seq(Launches)
    BY Zenon DEF SessionInv, TypesInv
  <2>8. /\ DOMAIN done' = DOMAIN done \cup {Len(done) + 1}
        /\ \A i \in DOMAIN done : done'[i] = done[i]
        /\ done'[Len(done) + 1] = d
    BY <2>1, <2>4, <2>5, <2>7, OneAfter
  <2>9. \A i \in DOMAIN done' : done'[i].call.op = "scale" => AcceptsScale(done'[i].call)
    BY <2>5, <2>6, <2>8, Zenon DEF TransformsInv
  <2>10. QED BY <2>9, Zenon DEF TransformsInv, AcceptsScale
<1>2. CASE done' = done
  BY <1>2, Zenon DEF TransformsInv, AcceptsScale
<1>3. Launch \/ done' = done
  <2>1. CASE Next
    BY <2>1, Zenon DEF Next, MqaLogits, PagedPlan, PagedMqaLogits, PrepareScale, GemmPrepared,
       Layout, GemmRaw, GemmRawB, Refuse, RefuseRaw, RefuseOutput, Reject, GiveUp, Allocate,
       Finish, Finished, vars
  <2>2. CASE UNCHANGED vars
    BY <2>2 DEF vars
  <2>3. QED BY <2>1, <2>2
<1>4. QED BY <1>1, <1>2, <1>3

LEMMA BroadcastHolds ==
    ASSUME SessionInv, TransformsInv
    PROVE  BroadcastFillsView
<1>1. ASSUME NEW i \in DOMAIN done, done[i].call.op = "scale"
      PROVE  FillsView(done[i].call, done[i].layout, done[i].view)
  <2>1. PICK c, l, v : c = done[i].call /\ l = done[i].layout /\ v = done[i].view
    OBVIOUS
  <2>2. c \in Pending /\ Made(arch, done[i])
    BY <2>1, LaunchesAreLaunches, Zenon
  <2>3. c \in AnyScale
    BY <1>1, <2>1, <2>2, CallsByOp, Zenon
  <2>4. /\ Ready(c) /\ l = LayoutOf(c)
        /\ v = IF c.out = FromLayout THEN ViewOf(c, l) ELSE LogicalSpec(l)
    BY <2>1, <2>2, Zenon DEF Made
  <2>5. v = LogicalSpec(LayoutOf(c))
    BY <2>3, <2>4, ScaleFits, Zenon
  <2>6. AcceptsScale(c)
    BY <1>1, <2>1, Zenon DEF TransformsInv
  <2>7. FillsView(c, LayoutOf(c), LogicalSpec(LayoutOf(c)))
    BY <2>3, <2>4, <2>6, BroadcastFills, Zenon
  <2>8. QED BY <2>1, <2>4, <2>5, <2>7, Zenon
<1>2. QED BY <1>1, Zenon DEF BroadcastFillsView

\* Whatever the size of a scale and of its blocks, the kernels that spread blocks
\* (deepgemm_raw_gemm.cc:357) write each element of the view that is returned once, from the
\* scales of its own row and columns, and nothing else.
THEOREM BroadcastsFillViews == Spec => []BroadcastFillsView
<1>1. Init => AcceptedInv /\ TransformsInv
  BY DEF Init, AcceptedInv, TransformsInv
<1>2. SessionInv /\ AcceptedInv /\ TransformsInv /\ [Next]_vars => AcceptedInv' /\ TransformsInv'
  BY AcceptedStep, TransformsStep
<1>3. QED BY <1>1, <1>2, BroadcastHolds, SessionInvariant, PTL DEF Spec

-----------------------------------------------------------------------------
(* A GEMM on raw scales that keeps to its contract *)

Contract(c) == c.op = "raw_gemm" /\ Documented(c) /\ WithinLimits(c)

\* What the contract says of each operand.
Terms(c, m, n, k) ==
    /\ m \in Counts /\ n \in Counts /\ k \in Counts
    /\ c.a = Contiguous("fp8", <<m, k>>) /\ c.b = Contiguous("fp8", <<n, k>>)
    /\ Is(c.a_scale, "f32", <<m, CeilDiv(k, 128)>>)
    /\ \/ Is(c.b_scale, "f32", <<CeilDiv(n, 128), CeilDiv(k, 128)>>)
       \/ arch = "sm100" /\ Is(c.b_scale, "f32", <<n, CeilDiv(k, 128)>>)
    /\ n % 8 = 0 /\ k % 16 = 0 /\ k <= 512 * 128
    /\ FitsI32(TmaAligned(m, 4)) /\ FitsI32(TmaAligned(n, 4))
    /\ "a" \notin c.unaligned /\ "b" \notin c.unaligned

LEMMA ContractTerms ==
    ASSUME NEW c \in AnyRaw("raw_gemm"), Contract(c)
    PROVE  Terms(c, c.a.shape[1], c.b.shape[1], c.a.shape[2])
<1>1. PICK m, n, k : m = c.a.shape[1] /\ n = c.b.shape[1] /\ k = c.a.shape[2]
  OBVIOUS
<1>2. Documented(c) /\ WithinLimits(c)
  BY Zenon DEF Contract
<1>3. /\ NativeIs(c.a, "fp8", <<m, k>>) /\ NativeIs(c.b, "fp8", <<n, k>>)
      /\ Is(c.a_scale, "f32", <<m, CeilDiv(k, 128)>>)
      /\ \/ Is(c.b_scale, "f32", <<CeilDiv(n, 128), CeilDiv(k, 128)>>)
         \/ arch = "sm100" /\ Is(c.b_scale, "f32", <<n, CeilDiv(k, 128)>>)
  BY <1>1, <1>2, Zenon DEF Documented
<1>4. /\ n % 8 = 0 /\ k % 16 = 0 /\ k <= 512 * 128
      /\ FitsI32(TmaAligned(m, 4)) /\ FitsI32(TmaAligned(n, 4))
      /\ "a" \notin c.unaligned /\ "b" \notin c.unaligned
  BY <1>1, <1>2 DEF WithinLimits
<1>5. m \in Nat /\ n \in Nat /\ k \in Nat
  <2>1. c.a \in Tensors(2) /\ c.b \in Tensors(2)
    BY Zenon DEF AnyRaw
  <2>2. c.a.shape \in [1..2 -> Nat] /\ c.b.shape \in [1..2 -> Nat]
    BY <2>1, Zenon DEF Tensors
  <2>3. QED BY <1>1, <2>2, PairOf, Zenon
<1>6. Positive(c.a.shape) /\ Positive(c.b.shape) /\ c.a.shape = <<m, k>> /\ c.b.shape = <<n, k>>
  <2>1. /\ Is(c.a, "fp8", <<m, k>>) /\ Positive(<<m, k>>)
        /\ Is(c.b, "fp8", <<n, k>>) /\ Positive(<<n, k>>)
    BY <1>3, Zenon DEF NativeIs
  <2>2. QED BY <2>1, DenseIs, Zenon
<1>7. m > 0 /\ k > 0 /\ n > 0
  BY <1>6 DEF Positive
<1>8. m \in Counts /\ n \in Counts /\ k \in Counts
  BY <1>5, <1>7 DEF Counts
<1>9. c.a = Contiguous("fp8", <<m, k>>) /\ c.b = Contiguous("fp8", <<n, k>>)
  BY <1>3, Zenon DEF NativeIs, Is
<1>10. Terms(c, m, n, k)
  BY <1>3, <1>4, <1>8, <1>9, Zenon DEF Terms
<1>11. QED BY <1>1, <1>10, Zenon

\* The blocks of a scale, in tokens or rows and in elements of a row.
Grans == {1, 128}

LEMMA GridFits ==
    ASSUME NEW mn \in Counts, NEW cols \in Nat, cols <= 256
    PROVE  /\ CeilDiv(mn, 64) <= mn /\ CeilDiv(mn, 48) <= mn
           /\ CeilDiv(mn * cols, 256) <= mn
<1>1. mn \in Nat /\ mn >= 1
  BY DEF Counts
<1>2. CeilDiv(mn, 64) <= mn /\ CeilDiv(mn, 48) <= mn
  BY <1>1 DEF CeilDiv
<1>3. PICK x \in Nat : x = mn * cols
  BY <1>1
<1>4. x <= mn * 256
  <2>1. PICK y \in Nat : y = 256 - cols
    OBVIOUS
  <2>2. mn * y \in Nat
    BY <1>1
  <2>3. mn * 256 = mn * cols + mn * y
    BY <1>1, <2>1
  <2>4. QED BY <1>1, <1>3, <2>2, <2>3
<1>5. CeilDiv(x, 256) <= mn
  BY <1>1, <1>3, <1>4 DEF CeilDiv
<1>6. QED BY <1>2, <1>3, <1>5

LEMMA TransformIsGood ==
    ASSUME NEW x \in Tensors(2), NEW mn \in Counts, NEW k \in Counts, k <= 512 * 128,
           NEW gran \in Grans, NEW dtype \in ScaleDTypes, gran = 1 \/ dtype = "ue8m0",
           FitsI32(TmaAligned(mn, 4)),
           Is(x, "f32", <<CeilDiv(mn, gran), CeilDiv(k, 128)>>),
           NEW s, s = ScaleCall(x, mn, k, gran, dtype)
    PROVE  /\ s \in AnyScale /\ s.op = "scale" /\ s.out = FromLayout
           /\ Accepts(s) /\ ~Cause(s)
<1>1. /\ s.op = "scale" /\ s.scale = x /\ s.mn = mn /\ s.k = k /\ s.gran_mn = gran
      /\ s.gran_k = 128 /\ s.dtype = dtype /\ s.out = FromLayout
  BY DEF ScaleCall
<1>2. mn \in Nat /\ k \in Nat /\ gran \in Nat /\ mn > 0 /\ k > 0 /\ gran > 0 /\ gran <= 128
  BY DEF Counts, Grans
<1>3. s \in AnyScale
  <2>1. dtype \in DTypes
    BY DEF ScaleDTypes, DTypes
  <2>2. QED BY <1>2, <2>1, ScaleCallIsScale
<1>4. AcceptsScale(s)
  <2>1. dtype \in {"f32", "ue8m0"}
    BY DEF ScaleDTypes
  <2>2. QED BY <1>1, <1>2, <2>1 DEF AcceptsScale
<1>5. PICK blocks \in Nat : blocks = CeilDiv(k, 128) /\ blocks <= 512
  BY <1>2 DEF CeilDiv
<1>6. PICK cols \in Nat : cols = CeilDiv(blocks, Packing(dtype)) /\ (dtype = "ue8m0" => cols <= 128) /\ cols <= 512
  BY <1>5 DEF CeilDiv, Packing, ScaleDTypes
<1>7. FitsI32(mn)
  BY <1>2, TmaAlignedIsAligned, ContractsAssumption DEF FitsI32
<1>8. FitsI32(gran) /\ FitsI32(128)
  BY <1>2, SmallFits
<1>9. ScaleGrid(s) \in Nat /\ ScaleGrid(s) <= mn
  <2>1. ScaleGrid(s) = IF gran = 1 THEN CeilDiv(mn, IF dtype = "f32" THEN 64 ELSE 48)
                       ELSE CeilDiv(mn * cols, 256)
    BY <1>1, <1>5, <1>6 DEF ScaleGrid
  <2>2. CeilDiv(mn, 64) \in Nat /\ CeilDiv(mn, 48) \in Nat /\ CeilDiv(mn * cols, 256) \in Nat
    <3>1. mn * cols \in Nat
      BY <1>2, <1>6
    <3>2. \A y \in Nat : CeilDiv(y, 64) \in Nat /\ CeilDiv(y, 48) \in Nat /\ CeilDiv(y, 256) \in Nat
      BY DEF CeilDiv
    <3>3. QED BY <1>2, <3>1, <3>2
  <2>3. CeilDiv(mn, 64) <= mn /\ CeilDiv(mn, 48) <= mn
    BY <1>6, GridFits
  <2>4. CASE gran = 1
    BY <2>1, <2>2, <2>3, <2>4
  <2>5. CASE gran # 1
    <3>1. cols <= 256
      BY <1>6, <2>5
    <3>2. CeilDiv(mn * cols, 256) <= mn
      BY <3>1, <1>6, GridFits
    <3>3. QED BY <2>1, <2>2, <2>5, <3>2
  <2>6. QED BY <2>4, <2>5
<1>10. FitsI32(ScaleGrid(s))
  BY <1>2, <1>7, <1>9, ContractsAssumption DEF FitsI32
<1>11. \A y \in Sizes(s) : FitsI32(y)
  <2>1. Sizes(s) = {TmaAligned(s.mn, 4), s.gran_mn, s.gran_k, ScaleGrid(s)}
    BY <1>1 DEF Sizes
  <2>2. QED BY <1>1, <1>8, <1>10, <2>1
<1>12. ~Wraps(s)
  BY <1>1 DEF Wraps, Products
<1>13. ~(CeilDiv(s.k, s.gran_k) > 512)
  BY <1>1, <1>5
<1>14. ~Cause(s)
  BY <1>1, <1>11, <1>12, <1>13, NothingToAlign DEF Cause
<1>15. QED BY <1>1, <1>3, <1>4, <1>14 DEF Accepts

\* There is room for the scales of any rows that a transform takes.
LEMMA DeepestIsDeep ==
    ASSUME NEW m \in Nat
    PROVE  DeepestK(m) \in Int /\ DeepestK(m) >= 512 * 128
<1> DEFINE block == IF m <= 16 THEN 16 ELSE IF m <= 32 THEN 32 ELSE 64
<1>0. block \in {16, 32, 64}
  OBVIOUS
<1>1. PICK t : t = Tile(FALSE, block, 16, 1, 1)
  OBVIOUS
<1> HIDE DEF block
<1>2. t.block_m \in {16, 32, 64} /\ t.block_n = 16
  BY <1>0, <1>1, Zenon DEF Tile
<1>3. PICK stage \in Nat : stage = Sm90Stage(t) /\ stage <= 16384
  BY <1>2 DEF Sm90Stage, BlockK, AlignUp
<1>4. PICK once \in Nat : once = Sm90Once(0, t) /\ once <= 4096
  BY <1>2 DEF Sm90Once, BlockK, AlignUp, CeilDiv
<1>5. PICK room \in Nat : room = Capacity - once - 4 * stage /\ room >= 100000
  BY <1>3, <1>4 DEF Capacity
<1>6. DeepestK(m) = (room \div 8) * 2 * BlockK
  BY <1>1, <1>3, <1>4, <1>5 DEF DeepestK, block
<1>7. QED BY <1>5, <1>6 DEF BlockK

\* The dtype of the scales of a GEMM, and the calls that one on raw scales is made of.
PreparedDType == IF arch = "sm90" THEN "f32" ELSE "ue8m0"
ScaleOfA(c) == ScaleCall(c.a_scale, c.a.shape[1], c.a.shape[2], 1, PreparedDType)
RestOf(c) == [c EXCEPT !.op = "raw_b"]
ScaleOfB(c) == ScaleCall(c.b_scale, c.b.shape[1], c.b.shape[2], Granularity(c), "ue8m0")
GemmOf(c) == GemmCall(c, Returned(1), IF arch = "sm90" THEN c.b_scale ELSE Returned(2))

\* What a call needs to be launched, by a binding.
Good(s) == s \in Pending /\ s.op \in Ops /\ s.out = FromLayout /\ Accepts(s) /\ ~Cause(s)

LEMMA TermsOfShapes ==
    ASSUME NEW c, NEW m, NEW n, NEW k, Terms(c, m, n, k)
    PROVE  /\ m \in Nat /\ n \in Nat /\ k \in Nat /\ m > 0 /\ n > 0 /\ k > 0
           /\ c.a.shape[1] = m /\ c.a.shape[2] = k /\ c.b.shape[1] = n /\ c.b.shape[2] = k
           /\ c.a.dtype = "fp8" /\ c.b.dtype = "fp8" /\ c.b_scale.dtype = "f32"
           /\ c.b_scale.shape = <<CeilDiv(n, 128), CeilDiv(k, 128)>>
                \/ (arch = "sm100" /\ c.b_scale.shape = <<n, CeilDiv(k, 128)>>)
<1>1. m \in Counts /\ n \in Counts /\ k \in Counts
  BY Zenon DEF Terms
<1>2. Is(c.a, "fp8", <<m, k>>) /\ Is(c.b, "fp8", <<n, k>>)
  BY Zenon DEF Terms, Is
<1>3. /\ c.a.dtype = "fp8" /\ c.a.shape = <<m, k>>
      /\ c.b.dtype = "fp8" /\ c.b.shape = <<n, k>>
  BY <1>2, DenseIs, Zenon
<1>4. \/ Is(c.b_scale, "f32", <<CeilDiv(n, 128), CeilDiv(k, 128)>>)
      \/ arch = "sm100" /\ Is(c.b_scale, "f32", <<n, CeilDiv(k, 128)>>)
  BY Zenon DEF Terms
<1>5. /\ c.b_scale.dtype = "f32"
      /\ c.b_scale.shape = <<CeilDiv(n, 128), CeilDiv(k, 128)>>
           \/ (arch = "sm100" /\ c.b_scale.shape = <<n, CeilDiv(k, 128)>>)
  BY <1>4, DenseIs
<1>6. m \in Nat /\ n \in Nat /\ k \in Nat /\ m > 0 /\ n > 0 /\ k > 0
  BY <1>1 DEF Counts
<1>7. QED BY <1>3, <1>5, <1>6

LEMMA ScaleOfAIsGood ==
    ASSUME arch \in Families, NEW c \in AnyRaw("raw_gemm"), NEW m, NEW n, NEW k, Terms(c, m, n, k)
    PROVE  Good(ScaleOfA(c)) /\ AcceptsRawA(c)
<1>1. /\ m \in Nat /\ k \in Nat
      /\ c.a.shape[1] = m /\ c.a.shape[2] = k /\ c.b.shape[2] = k
      /\ c.a.dtype = "fp8" /\ c.b.dtype = "fp8" /\ c.b_scale.dtype = "f32"
  BY TermsOfShapes
<1>2. Is(c.a_scale, "f32", <<m, CeilDiv(k, 128)>>)
  BY Zenon DEF Terms
<1>3. m \in Counts /\ k \in Counts /\ k <= 512 * 128 /\ FitsI32(TmaAligned(m, 4))
  BY Zenon DEF Terms
<1>4. PICK s, dtype : s = ScaleCall(c.a_scale, m, k, 1, dtype) /\ dtype = PreparedDType
  OBVIOUS
<1>5. s = ScaleOfA(c)
  BY <1>1, <1>4, Zenon DEF ScaleOfA
<1>6. CeilDiv(m, 1) = m
  BY <1>1 DEF CeilDiv
<1>7. c.a_scale \in Tensors(2) /\ dtype \in ScaleDTypes /\ 1 \in Grans
  BY <1>4 DEF AnyRaw, PreparedDType, ScaleDTypes, Grans
<1>8. s \in AnyScale /\ s.op = "scale" /\ s.out = FromLayout /\ Accepts(s) /\ ~Cause(s)
  BY <1>2, <1>3, <1>4, <1>6, <1>7, TransformIsGood
<1>9. s \in Pending /\ s.op \in Ops
  BY <1>8 DEF Pending, AnyCall, Ops
<1>10. AcceptsRawA(c)
  BY <1>1, <1>2 DEF AcceptsRawA, RawScale
<1>11. QED BY <1>5, <1>8, <1>9, <1>10, Zenon DEF Good

LEMMA ScaleOfBIsGood ==
    ASSUME arch = "sm100", NEW c \in AnyRaw("raw_gemm"), NEW m, NEW n, NEW k, Terms(c, m, n, k)
    PROVE  Good(ScaleOfB(c))
<1>1. /\ n \in Nat /\ k \in Nat /\ n > 0
      /\ c.b.shape[1] = n /\ c.b.shape[2] = k
  BY TermsOfShapes
<1>2. \/ Is(c.b_scale, "f32", <<CeilDiv(n, 128), CeilDiv(k, 128)>>)
      \/ Is(c.b_scale, "f32", <<n, CeilDiv(k, 128)>>)
  BY Zenon DEF Terms
<1>3. n \in Counts /\ k \in Counts /\ k <= 512 * 128 /\ FitsI32(TmaAligned(n, 4))
  BY Zenon DEF Terms
<1>4. PICK s, gran : s = ScaleCall(c.b_scale, n, k, gran, "ue8m0") /\ gran = Granularity(c)
  OBVIOUS
<1>5. s = ScaleOfB(c)
  BY <1>1, <1>4, Zenon DEF ScaleOfB
<1>6. CeilDiv(n, 1) = n
  BY <1>1 DEF CeilDiv
<1>7. gran \in Grans /\ (gran = IF c.b_scale.shape[1] = n THEN 1 ELSE 128)
  BY <1>1, <1>4 DEF Granularity, Grans
<1>8. Is(c.b_scale, "f32", <<CeilDiv(n, gran), CeilDiv(k, 128)>>)
  <2>1. CASE c.b_scale.shape[1] = n
    <3>1. \/ c.b_scale.shape = <<CeilDiv(n, 128), CeilDiv(k, 128)>> /\ Is(c.b_scale, "f32", <<CeilDiv(n, 128), CeilDiv(k, 128)>>)
          \/ Is(c.b_scale, "f32", <<n, CeilDiv(k, 128)>>)
      BY <1>2, DenseIs
    <3>2. Is(c.b_scale, "f32", <<n, CeilDiv(k, 128)>>)
      BY <2>1, <3>1
    <3>3. gran = 1
      BY <1>7, <2>1
    <3>4. QED BY <1>6, <3>2, <3>3
  <2>2. CASE c.b_scale.shape[1] # n
    <3>1. Is(c.b_scale, "f32", <<n, CeilDiv(k, 128)>>) => c.b_scale.shape = <<n, CeilDiv(k, 128)>>
      BY DenseIs
    <3>2. Is(c.b_scale, "f32", <<CeilDiv(n, 128), CeilDiv(k, 128)>>)
      BY <1>2, <2>2, <3>1
    <3>3. gran = 128
      BY <1>7, <2>2
    <3>4. QED BY <3>2, <3>3
  <2>3. QED BY <2>1, <2>2
<1>9. c.b_scale \in Tensors(2) /\ "ue8m0" \in ScaleDTypes
  BY DEF AnyRaw, ScaleDTypes
<1>10. s \in AnyScale /\ s.op = "scale" /\ s.out = FromLayout /\ Accepts(s) /\ ~Cause(s)
  BY <1>3, <1>4, <1>7, <1>8, <1>9, TransformIsGood
<1>11. s \in Pending /\ s.op \in Ops
  BY <1>10 DEF Pending, AnyCall, Ops
<1>12. QED BY <1>5, <1>10, <1>11, Zenon DEF Good

LEMMA RestIsAccepted ==
    ASSUME NEW c \in AnyRaw("raw_gemm"), NEW m, NEW n, NEW k, Terms(c, m, n, k)
    PROVE  /\ RestOf(c).op = "raw_b" /\ AcceptsRawB(RestOf(c))
           /\ RestOf(c).a = c.a /\ RestOf(c).b = c.b /\ RestOf(c).b_scale = c.b_scale
           /\ RestOf(c).sms = c.sms /\ RestOf(c).unaligned = c.unaligned /\ RestOf(c) \in Pending
<1>1. /\ RestOf(c).op = "raw_b" /\ RestOf(c).a = c.a /\ RestOf(c).b = c.b
      /\ RestOf(c).b_scale = c.b_scale /\ RestOf(c).sms = c.sms /\ RestOf(c) \in AnyRaw("raw_b")
      /\ RestOf(c).unaligned = c.unaligned
  BY DEF AnyRaw, RestOf
<1>2. c.b.shape[1] = n /\ c.b.shape[2] = k
  BY TermsOfShapes
<1>3. \/ Is(c.b_scale, "f32", <<CeilDiv(n, 128), CeilDiv(k, 128)>>)
      \/ arch = "sm100" /\ Is(c.b_scale, "f32", <<n, CeilDiv(k, 128)>>)
  BY Zenon DEF Terms
<1>4. \E rows \in {CeilDiv(n, 128)} \cup (IF arch = "sm100" THEN {n} ELSE {}) : RawScale(c.b_scale, k, rows)
  BY <1>3 DEF RawScale
<1>5. AcceptsRawB(RestOf(c))
  BY <1>1, <1>2, <1>4 DEF AcceptsRawB
<1>6. QED BY <1>1, <1>5 DEF Pending

LEMMA GemmOfIsGood ==
    ASSUME 512 * 128 <= I32Max, arch \in Families, NEW c \in AnyRaw("raw_gemm"),
           NEW m, NEW n, NEW k, Terms(c, m, n, k),
           Given(Returned(1)) = LogicalSpec(ScaleLayout(m, k, 128, PreparedDType)),
           arch = "sm100" => Given(Returned(2)) = LogicalSpec(ScaleLayout(n, k, 128, PreparedDType)),
           done[1].call.out = FromLayout, arch = "sm100" => done[2].call.out = FromLayout
    PROVE  /\ Good(GemmOf(c))
           /\ LayoutOf(GemmOf(c)) = GemmOutputLayout(m, n) /\ GemmOf(c).op = "gemm"
<1>1. PICK g, bScale : g = GemmOf(c) /\ bScale = IF arch = "sm90" THEN c.b_scale ELSE Returned(2)
  OBVIOUS
<1>2. g = GemmCall(c, Returned(1), bScale)
  BY <1>1, Zenon DEF GemmOf
<1>3. /\ g.op = "gemm" /\ g.a = c.a /\ g.b = c.b /\ g.a_scale = Returned(1) /\ g.b_scale = bScale
      /\ g.out = FromLayout /\ g.unaligned = c.unaligned
  BY <1>2 DEF GemmCall
<1>4. g \in AnyGemm
  <2>1. Returned(1) \in Results /\ Returned(2) \in Results
    BY ReturnedIsResult
  <2>2. bScale \in Tensors(2) \cup Results
    BY <1>1, <2>1 DEF AnyRaw
  <2>3. QED BY <1>2, <2>1, <2>2, GemmCallIsGemm
<1>5. /\ m \in Nat /\ n \in Nat /\ k \in Nat /\ m > 0 /\ n > 0 /\ k > 0
      /\ c.a.shape[1] = m /\ c.a.shape[2] = k /\ c.b.shape[1] = n /\ c.b.shape[2] = k
  BY TermsOfShapes
<1>6. /\ Is(c.a, "fp8", <<m, k>>) /\ Is(c.b, "fp8", <<n, k>>)
      /\ n % 8 = 0 /\ k % 16 = 0 /\ k <= 512 * 128
      /\ FitsI32(TmaAligned(m, 4)) /\ FitsI32(TmaAligned(n, 4))
  BY Zenon DEF Terms, Is
<1>7. arch = "sm90" =>
         /\ Given(g.a_scale) = LogicalSpec(ScaleLayout(m, k, 128, "f32"))
         /\ Is(g.b_scale, "f32", <<CeilDiv(n, 128), CeilDiv(k, 128)>>)
  <2>1. arch = "sm90" => arch # "sm100"
    OBVIOUS
  <2>2. arch = "sm90" => PreparedDType = "f32" /\ bScale = c.b_scale
    BY <1>1, Zenon DEF PreparedDType
  <2>3. arch = "sm90" => Is(c.b_scale, "f32", <<CeilDiv(n, 128), CeilDiv(k, 128)>>)
    BY <2>1, Zenon DEF Terms
  <2>4. QED BY <1>3, <2>2, <2>3, Zenon
<1>8. arch # "sm90" =>
         /\ Given(g.a_scale) = LogicalSpec(ScaleLayout(m, k, 128, "ue8m0"))
         /\ Given(g.b_scale) = LogicalSpec(ScaleLayout(n, k, 128, "ue8m0"))
  <2>1. arch # "sm90" => arch = "sm100"
    BY DEF Families
  <2>2. arch # "sm90" => PreparedDType = "ue8m0" /\ bScale = Returned(2)
    BY <1>1, Zenon DEF PreparedDType
  <2>3. QED BY <1>3, <2>1, <2>2, Zenon
<1>9. AcceptsGemm(g)
  <2>1. g.a.shape[1] = m /\ g.a.shape[2] = k /\ g.b.shape[1] = n
    BY <1>3, <1>5
  <2>2. Is(g.a, "fp8", <<m, k>>) /\ Is(g.b, "fp8", <<n, k>>)
    BY <1>3, <1>6, Zenon
  <2>3. CASE arch = "sm90"
    BY <1>5, <1>6, <1>7, <2>1, <2>2, <2>3, Zenon DEF AcceptsGemm
  <2>4. CASE arch # "sm90"
    BY <1>5, <1>6, <1>8, <2>1, <2>2, <2>4, Zenon DEF AcceptsGemm
  <2>5. QED BY <2>3, <2>4
<1>10. \A y \in Sizes(g) : FitsI32(y)
  <2>1. Sizes(g) = {TmaAligned(m, 4), TmaAligned(n, 4), k}
    BY <1>3, <1>5 DEF Sizes
  <2>2. FitsI32(k)
    BY <1>5, <1>6, ContractsAssumption DEF FitsI32
  <2>3. QED BY <1>6, <2>1, <2>2
<1>11. ~Wraps(g)
  BY <1>3 DEF Wraps, Products
<1>12. ~(k > DeepestK(m))
  BY <1>5, <1>6, DeepestIsDeep
<1>13. g.a.shape[1] = m /\ g.a.shape[2] = k
  BY <1>3, <1>5
<1>14. AllAligned(g)
  <2>1. "a" \notin g.unaligned /\ "b" \notin g.unaligned
    BY <1>3, Zenon DEF Terms
  <2>2. IsAligned(g, "a") /\ IsAligned(g, "b") /\ IsAligned(g, "out") /\ IsAligned(g, "a_scale")
    BY <1>3, <2>1 DEF IsAligned, AlignedOut, Returned
  <2>3. arch # "sm90" => IsAligned(g, "b_scale")
    <3>1. arch # "sm90" => arch = "sm100" /\ g.b_scale = Returned(2)
      BY <1>1, <1>3 DEF Families
    <3>2. QED BY <3>1 DEF IsAligned, AlignedOut, Returned
  <2>4. Described(g) = {"a", "b", "a_scale", "out"} \cup (IF arch = "sm90" THEN {} ELSE {"b_scale"})
    BY <1>3 DEF Described
  <2>5. QED BY <2>2, <2>3, <2>4 DEF AllAligned
<1>15. ~Cause(g)
  BY <1>3, <1>6, <1>10, <1>11, <1>12, <1>13, <1>14 DEF Cause
<1>16. LayoutOf(g) = GemmOutputLayout(m, n)
  BY <1>3, <1>5 DEF LayoutOf
<1>17. g \in Pending /\ g.op \in Ops /\ Accepts(g)
  BY <1>3, <1>4, <1>9 DEF Pending, AnyCall, Ops, Accepts
<1>18. QED BY <1>1, <1>3, <1>15, <1>16, <1>17, Zenon DEF Good

Ended == {"refused", "rejected"}

LEMMA SameProcess ==
    ASSUME [Next]_vars
    PROVE  arch' = arch /\ session' = session
<1>1. CASE Next
  BY <1>1, Zenon DEF Next, MqaLogits, PagedPlan, PagedMqaLogits, PrepareScale, GemmPrepared,
     Layout, GemmRaw, GemmRawB, Refuse, RefuseRaw, RefuseOutput, Reject, GiveUp, Allocate, Launch,
     Finish, Finished, vars
<1>2. CASE UNCHANGED vars
  BY <1>2 DEF vars
<1>3. QED BY <1>1, <1>2

\* A good call is not refused nor rejected: it is launched when its time comes.
LEMMA GoodCall ==
    ASSUME SessionInv, AcceptedInv, todo # <<>>, result \notin Ended, Good(Call), [Next]_vars
    PROVE  \/ Launch
           \/ todo' = todo /\ done' = done /\ result' \notin Ended
<1>1. PICK c : c = Call
  OBVIOUS
<1>2. c \in Pending /\ c.op \in Ops /\ c.out = FromLayout /\ Accepts(c) /\ ~Cause(c)
  BY <1>1, Zenon DEF Good
<1>3. c.op \notin {"raw_gemm", "raw_b"}
  BY <1>2 DEF Ops
<1>4. arch \in Families
  BY Zenon DEF SessionInv, TypesInv
<1>5. CASE MqaLogits \/ PagedPlan \/ PagedMqaLogits \/ PrepareScale \/ GemmPrepared \/ Allocate
  <2>1. todo' = todo /\ done' = done /\ result' = result
    BY <1>5, Zenon DEF MqaLogits, PagedPlan, PagedMqaLogits, PrepareScale, GemmPrepared, Layout,
       Allocate
  <2>2. QED BY <2>1
<1>6. CASE GemmRaw \/ GemmRawB \/ RefuseRaw
  <2>1. Call.op = "raw_gemm" \/ Call.op = "raw_b"
    BY <1>6, Zenon DEF GemmRaw, GemmRawB, RefuseRaw, Calling
  <2>2. QED BY <1>1, <1>3, <2>1
<1>7. CASE Refuse
  <2>1. ~Accepts(Call)
    BY <1>7, Zenon DEF Refuse
  <2>2. QED BY <1>1, <1>2, <2>1, Zenon
<1>8. CASE RefuseOutput
  <2>1. OutSpec # LogicalSpec(layout)
    BY <1>8, Zenon DEF RefuseOutput
  <2>2. OutSpec = LogicalSpec(layout)
    BY <1>1, <1>2, Zenon DEF OutSpec
  <2>3. QED BY <2>1, <2>2, Zenon
<1>9. CASE Reject
  <2>1. /\ view # NoTensor
        /\ OutSpec = LogicalSpec(layout)
        /\ ~(LauncherAccepts(Call, OutSpec) /\ DriverAccepts(Call)) \/ Wraps(Call)
    BY <1>9, Zenon DEF Reject, Allocated
  <2>2. layout # NoLayout
    BY <2>1, Zenon DEF SessionInv, CurrentInv
  <2>3. layout = LayoutOf(c)
    BY <1>1, <2>2, Zenon DEF SessionInv, CurrentInv, Call
  <2>4. LauncherAccepts(c, LogicalSpec(LayoutOf(c))) /\ DriverAccepts(c)
    BY <1>2, <1>4, CallWithoutCauseIsTaken, Zenon
  <2>5. ~Wraps(c)
    BY <1>2, Zenon DEF Cause
  <2>6. QED BY <1>1, <2>1, <2>3, <2>4, <2>5, Zenon
<1>10. CASE Finish
  <2>1. todo = <<>>
    BY <1>10, Zenon DEF Finish
  <2>2. QED BY <2>1, Zenon
<1>11. CASE Finished \/ UNCHANGED vars
  <2>1. todo' = todo /\ done' = done /\ result' = result
    BY <1>11 DEF Finished, vars
  <2>2. QED BY <2>1
<1>12. QED BY <1>5, <1>6, <1>7, <1>8, <1>9, <1>10, <1>11, Zenon DEF Next

\* A binding's launch returns what its call was to return.
LEMMA GoodLaunch ==
    ASSUME SessionInv, Launch, NEW c, c = Call, c.out = FromLayout
    PROVE  /\ todo # <<>> /\ layout' = NoLayout /\ result' = result /\ todo' = Tail(todo)
           /\ done \in Seq(Launches) /\ Len(done) \in Nat /\ Len(done') = Len(done) + 1
           /\ \A i \in 1..Len(done) : done'[i] = done[i]
           /\ done'[Len(done) + 1].view = ViewOf(c, LayoutOf(c))
           /\ done'[Len(done) + 1].call.out = FromLayout
<1>1. MayLaunch /\ done' = Append(done, Launched) /\ todo' = Tail(todo) /\ layout' = NoLayout
      /\ result' = result
  BY Zenon DEF Launch
<1>2. todo # <<>>
  BY <1>1, Zenon DEF MayLaunch, Allocated, Running
<1>3. PICK d : d = Launched
  OBVIOUS
<1>4. d \in Launches /\ d.call = c /\ Made(arch, d)
  BY <1>1, <1>3, LaunchedIsMade, Zenon DEF Launched
<1>5. d.view = ViewOf(c, LayoutOf(c))
  BY <1>4, Zenon DEF Made
<1>6. done \in Seq(Launches)
  BY Zenon DEF SessionInv, TypesInv
<1>7. /\ Len(done') = Len(done) + 1 /\ Len(done) \in Nat
      /\ \A i \in 1..Len(done) : done'[i] = done[i]
      /\ done'[Len(done) + 1] = d
  BY <1>1, <1>3, <1>4, <1>6
<1>8. QED BY <1>1, <1>2, <1>4, <1>5, <1>6, <1>7

\* A raw GEMM, or the rest of it, is replaced by other calls, or waits.
LEMMA RawCall ==
    ASSUME SessionInv, todo # <<>>, result \notin Ended,
           \/ Call.op = "raw_gemm" /\ AcceptsRawA(Call)
           \/ Call.op = "raw_b" /\ AcceptsRawB(Call),
           [Next]_vars
    PROVE  \/ GemmRaw \/ GemmRawB
           \/ todo' = todo /\ layout' = layout /\ done' = done /\ result' \notin Ended
<1>1. PICK c : c = Call
  OBVIOUS
<1>2. /\ c.op \notin Ops /\ c.op \in {"raw_gemm", "raw_b"}
      /\ c.op = "raw_gemm" => AcceptsRawA(c)
      /\ c.op = "raw_b" => AcceptsRawB(c)
  BY <1>1 DEF Ops
<1>3. layout = NoLayout /\ view = NoTensor
  <2>1. layout # NoLayout => Ready(Head(todo))
    BY Zenon DEF SessionInv, CurrentInv
  <2>2. layout = NoLayout
    BY <1>1, <1>2, <2>1, Zenon DEF Ready, Call
  <2>3. QED BY <2>2, Zenon DEF SessionInv, CurrentInv
<1>4. CASE MqaLogits \/ PagedPlan \/ PagedMqaLogits \/ PrepareScale \/ GemmPrepared
  <2>1. c.op = "mqa" \/ c.op = "plan" \/ c.op = "paged" \/ c.op = "scale" \/ c.op = "gemm"
    BY <1>1, <1>4, Zenon DEF MqaLogits, PagedPlan, PagedMqaLogits, PrepareScale, GemmPrepared,
       Layout, Calling
  <2>2. QED BY <1>2, <2>1 DEF Ops
<1>5. CASE Refuse
  <2>1. c.op \notin {"raw_gemm", "raw_b"}
    BY <1>1, <1>5, Zenon DEF Refuse
  <2>2. QED BY <1>2, <2>1
<1>6. CASE RefuseRaw
  <2>1. \/ c.op = "raw_gemm" /\ ~AcceptsRawA(c)
        \/ c.op = "raw_b" /\ ~AcceptsRawB(c)
    BY <1>1, <1>6, Zenon DEF RefuseRaw, Calling
  <2>2. QED BY <1>2, <2>1, Zenon
<1>7. CASE RefuseOutput \/ Reject \/ Launch \/ Allocate
  <2>1. view # NoTensor \/ layout # NoLayout
    BY <1>7, Zenon DEF RefuseOutput, Reject, Launch, MayLaunch, Allocated, Allocate
  <2>2. QED BY <1>3, <2>1, Zenon
<1>8. CASE Finish
  <2>1. todo = <<>>
    BY <1>8, Zenon DEF Finish
  <2>2. QED BY <2>1, Zenon
<1>9. CASE Finished \/ UNCHANGED vars
  <2>1. todo' = todo /\ layout' = layout /\ done' = done /\ result' = result
    BY <1>9 DEF Finished, vars
  <2>2. QED BY <2>1
<1>10. QED BY <1>4, <1>5, <1>6, <1>7, <1>8, <1>9, Zenon DEF Next

\* When no call is left, the session only finishes.
LEMMA NoCall ==
    ASSUME todo = <<>>, result \notin Ended, [Next]_vars
    PROVE  todo' = todo /\ layout' = layout /\ done' = done /\ result' \notin Ended
<1>1. CASE Finish
  <2>1. todo' = todo /\ layout' = layout /\ done' = done /\ result' = "ok"
    BY <1>1, Zenon DEF Finish, GiveUp
  <2>2. QED BY <2>1 DEF Ended
<1>2. CASE Finished \/ UNCHANGED vars
  <2>1. todo' = todo /\ layout' = layout /\ done' = done /\ result' = result
    BY <1>2 DEF Finished, vars
  <2>2. QED BY <2>1
<1>3. CASE Next /\ ~Finish /\ ~Finished
  <2>1. todo # <<>>
    BY <1>3, Zenon DEF Next, MqaLogits, PagedPlan, PagedMqaLogits, PrepareScale, GemmPrepared,
       Layout, GemmRaw, GemmRawB, Refuse, RefuseRaw, RefuseOutput, Reject, Allocate, Launch,
       MayLaunch, Allocated, Calling, Running
  <2>2. QED BY <2>1, Zenon
<1>4. QED BY <1>1, <1>2, <1>3, Zenon

\* What has been launched of a raw GEMM, and what is left of it.
IsPrepared(i, rows, k) ==
    /\ done[i].view = LogicalSpec(ScaleLayout(rows, k, 128, PreparedDType))
    /\ done[i].call.out = FromLayout
AtStart(c) == todo = <<c>> /\ done = <<>>
AtScaleOfA(c) == todo = <<ScaleOfA(c), RestOf(c)>> /\ done = <<>>
AtRest(c) ==
    /\ todo = <<RestOf(c)>>
    /\ Len(done) = 1 /\ IsPrepared(1, c.a.shape[1], c.a.shape[2])
AtScaleOfB(c) ==
    /\ arch = "sm100" /\ todo = <<ScaleOfB(c), GemmOf(c)>>
    /\ Len(done) = 1 /\ IsPrepared(1, c.a.shape[1], c.a.shape[2])
AtGemm(c) ==
    /\ todo = <<GemmOf(c)>>
    /\ Len(done) = (IF arch = "sm90" THEN 1 ELSE 2)
    /\ IsPrepared(1, c.a.shape[1], c.a.shape[2])
    /\ arch = "sm100" => IsPrepared(2, c.b.shape[1], c.b.shape[2])
AtEnd(c) ==
    /\ todo = <<>>
    /\ done[Len(done)].view = Contiguous("bf16", <<c.a.shape[1], c.b.shape[1]>>)

Progress(c) ==
    /\ result \notin Ended
    /\ AtStart(c) \/ AtScaleOfA(c) \/ AtRest(c) \/ AtScaleOfB(c) \/ AtGemm(c) \/ AtEnd(c)
RawInv ==
    \A c \in AnyRaw("raw_gemm") : session = <<c>> /\ Contract(c) => Progress(c)

LEMMA OneOrTwo ==
    /\ \A x : <<x>> # <<>> /\ Head(<<x>>) = x /\ Tail(<<x>>) = <<>>
    /\ \A x, y : <<x, y>> # <<>> /\ Head(<<x, y>>) = x /\ Tail(<<x, y>>) = <<y>>
    /\ \A x, y : <<x, y>> \o <<>> = <<x, y>>
    /\ \A x : <<x>> \o <<>> = <<x>>
  OBVIOUS

\* The calls of a raw GEMM are known from it and from the GPU.
LEMMA CallsStay ==
    ASSUME arch' = arch, NEW c
    PROVE  /\ PreparedDType' = PreparedDType
           /\ ScaleOfA(c)' = ScaleOfA(c) /\ GemmOf(c)' = GemmOf(c)
  BY DEF PreparedDType, ScaleOfA, GemmOf

\* A stage whose calls wait stays.
LEMMA ProgressWaits ==
    ASSUME arch' = arch, todo' = todo, done' = done, result' \notin Ended, NEW c, Progress(c)
    PROVE  Progress(c)'
<1>1. /\ PreparedDType' = PreparedDType /\ ScaleOfA(c)' = ScaleOfA(c) /\ GemmOf(c)' = GemmOf(c)
  BY CallsStay
<1>2. \A i, rows, k : IsPrepared(i, rows, k) => IsPrepared(i, rows, k)'
  BY <1>1 DEF IsPrepared
<1>3. /\ AtStart(c) => AtStart(c)'
      /\ AtScaleOfA(c) => AtScaleOfA(c)'
      /\ AtRest(c) => AtRest(c)'
      /\ AtScaleOfB(c) => AtScaleOfB(c)'
      /\ AtGemm(c) => AtGemm(c)'
      /\ AtEnd(c) => AtEnd(c)'
  BY <1>1, <1>2 DEF AtStart, AtScaleOfA, AtRest, AtScaleOfB, AtGemm, AtEnd
<1>4. AtStart(c) \/ AtScaleOfA(c) \/ AtRest(c) \/ AtScaleOfB(c) \/ AtGemm(c) \/ AtEnd(c)
  BY Zenon DEF Progress
<1>5. QED BY <1>3, <1>4, Zenon DEF Progress

LEMMA StartStep ==
    ASSUME SessionInv, NEW c \in AnyRaw("raw_gemm"), NEW m, NEW n, NEW k, Terms(c, m, n, k),
           AtStart(c), Progress(c), [Next]_vars
    PROVE  Progress(c)'
<1>1. c.op = "raw_gemm" /\ AcceptsRawA(c)
  <2>1. arch \in Families
    BY Zenon DEF SessionInv, TypesInv
  <2>2. QED BY <2>1, ScaleOfAIsGood, OpsOfCalls, Zenon
<1>2. todo # <<>> /\ Call = c /\ Tail(todo) = <<>> /\ done = <<>> /\ result \notin Ended
  BY OneOrTwo, Zenon DEF AtStart, Call, Progress
<1>3. arch' = arch
  BY SameProcess
<1>4. CASE GemmRaw
  <2>1. PICK x, y : x = ScaleOfA(c) /\ y = RestOf(c)
    OBVIOUS
  <2>2. /\ todo' = <<x, y>> \o Tail(todo)
        /\ done' = done /\ result' = result
    BY <1>2, <1>4, <2>1, Zenon DEF GemmRaw, ScaleOfA, RestOf, PreparedDType
  <2>3. todo' = <<x, y>>
    BY <1>2, <2>2, OneOrTwo, Zenon
  <2>4. ScaleOfA(c)' = x
    BY <1>3, <2>1, CallsStay, Zenon
  <2>5. AtScaleOfA(c)'
    BY <1>2, <2>1, <2>2, <2>3, <2>4, Zenon DEF AtScaleOfA, RestOf
  <2>6. QED BY <1>2, <2>2, <2>5, Zenon DEF Progress
<1>5. CASE GemmRawB
  <2>1. Call.op = "raw_b"
    BY <1>5, Zenon DEF GemmRawB, Calling
  <2>2. QED BY <1>1, <1>2, <2>1
<1>6. CASE todo' = todo /\ done' = done /\ result' \notin Ended
  BY <1>3, <1>6, ProgressWaits
<1>7. GemmRaw \/ GemmRawB \/ (todo' = todo /\ done' = done /\ result' \notin Ended)
  BY <1>1, <1>2, RawCall, Zenon
<1>8. QED BY <1>4, <1>5, <1>6, <1>7

\* What a transform returns is what the GEMM takes.
LEMMA TransformReturns ==
    ASSUME NEW x, NEW mn, NEW k, NEW gran, NEW dtype, NEW s, s = ScaleCall(x, mn, k, gran, dtype),
           Good(s)
    PROVE  ViewOf(s, LayoutOf(s)) = LogicalSpec(ScaleLayout(mn, k, 128, dtype))
<1>1. /\ s.op = "scale" /\ s.mn = mn /\ s.k = k /\ s.gran_k = 128 /\ s.dtype = dtype
  BY DEF ScaleCall
<1>2. s \in AnyScale /\ Ready(s)
  BY <1>1, CallsByOp, AcceptedIsReady, Zenon DEF Good
<1>3. LayoutOf(s) = ScaleLayout(mn, k, 128, dtype)
  BY <1>1 DEF LayoutOf
<1>4. ViewOf(s, LayoutOf(s)) = LogicalSpec(LayoutOf(s))
  BY <1>2, ScaleFits, Zenon
<1>5. QED BY <1>3, <1>4, Zenon

LEMMA ScaleOfAStep ==
    ASSUME SessionInv, AcceptedInv, NEW c \in AnyRaw("raw_gemm"), NEW m, NEW n, NEW k,
           Terms(c, m, n, k), AtScaleOfA(c), Progress(c), [Next]_vars
    PROVE  Progress(c)'
<1>1. PICK x, y : x = ScaleOfA(c) /\ y = RestOf(c)
  OBVIOUS
<1>2. Good(x)
  <2>1. arch \in Families
    BY Zenon DEF SessionInv, TypesInv
  <2>2. QED BY <1>1, <2>1, ScaleOfAIsGood, Zenon
<1>3. todo # <<>> /\ Call = x /\ Tail(todo) = <<y>> /\ done = <<>> /\ result \notin Ended
  BY <1>1, OneOrTwo, Zenon DEF AtScaleOfA, Call, Progress
<1>4. arch' = arch
  BY SameProcess
<1>5. CASE Launch
  <2>1. x.out = FromLayout
    BY <1>2, Zenon DEF Good
  <2>2. /\ todo' = <<y>> /\ result' = result
        /\ Len(done') = 1 /\ done'[1].view = ViewOf(x, LayoutOf(x)) /\ done'[1].call.out = FromLayout
    <3>1. /\ todo' = Tail(todo) /\ result' = result
          /\ Len(done') = Len(done) + 1 /\ done'[Len(done) + 1].view = ViewOf(x, LayoutOf(x))
          /\ done'[Len(done) + 1].call.out = FromLayout
      BY <1>3, <1>5, <2>1, GoodLaunch, Zenon
    <3>2. Len(done) + 1 = 1
      BY <1>3
    <3>3. QED BY <1>3, <3>1, <3>2, Zenon
  <2>3. ViewOf(x, LayoutOf(x)) = LogicalSpec(ScaleLayout(c.a.shape[1], c.a.shape[2], 128, PreparedDType))
    <3>1. PICK mn, cols, dtype : mn = c.a.shape[1] /\ cols = c.a.shape[2] /\ dtype = PreparedDType
      OBVIOUS
    <3>2. x = ScaleCall(c.a_scale, mn, cols, 1, dtype)
      BY <1>1, <3>1, Zenon DEF ScaleOfA
    <3>3. ViewOf(x, LayoutOf(x)) = LogicalSpec(ScaleLayout(mn, cols, 128, dtype))
      BY <1>2, <3>2, TransformReturns
    <3>4. QED BY <3>1, <3>3, Zenon
  <2>4. IsPrepared(1, c.a.shape[1], c.a.shape[2])'
    BY <1>4, <2>2, <2>3, CallsStay, Zenon DEF IsPrepared
  <2>5. AtRest(c)'
    BY <1>1, <2>2, <2>4, Zenon DEF AtRest, RestOf
  <2>6. QED BY <1>3, <2>2, <2>5, Zenon DEF Progress
<1>6. CASE todo' = todo /\ done' = done /\ result' \notin Ended
  BY <1>4, <1>6, ProgressWaits
<1>7. QED BY <1>2, <1>3, <1>5, <1>6, GoodCall, Zenon

LEMMA RestStep ==
    ASSUME SessionInv, NEW c \in AnyRaw("raw_gemm"), NEW m, NEW n, NEW k, Terms(c, m, n, k),
           AtRest(c), Progress(c), [Next]_vars
    PROVE  Progress(c)'
<1>1. PICK y : y = RestOf(c)
  OBVIOUS
<1>2. /\ y.op = "raw_b" /\ AcceptsRawB(y) /\ y.a = c.a /\ y.b = c.b /\ y.b_scale = c.b_scale
      /\ y.sms = c.sms /\ y.unaligned = c.unaligned
  BY <1>1, RestIsAccepted, Zenon
<1>3. /\ todo # <<>> /\ Call = y /\ Tail(todo) = <<>> /\ Len(done) = 1 /\ result \notin Ended
      /\ IsPrepared(1, c.a.shape[1], c.a.shape[2])
  BY <1>1, OneOrTwo, Zenon DEF AtRest, Call, Progress
<1>4. arch' = arch /\ arch \in Families
  BY SameProcess, Zenon DEF SessionInv, TypesInv
<1>5. CASE GemmRawB
  <2>1. /\ done' = done /\ result' = result
        /\ todo' = (IF arch = "sm90"
                    THEN <<GemmCall(y, Returned(Len(done)), y.b_scale)>>
                    ELSE <<ScaleCall(y.b_scale, y.b.shape[1], y.b.shape[2], Granularity(y), "ue8m0"),
                           GemmCall(y, Returned(Len(done)), Returned(Len(done) + 1))>>) \o Tail(todo)
    BY <1>3, <1>5, Zenon DEF GemmRawB
  <2>2. Len(done) + 1 = 2
    BY <1>3
  <2>3. \A a, b : GemmCall(y, a, b) = GemmCall(c, a, b)
    BY <1>2, Zenon DEF GemmCall
  <2>4. Granularity(y) = Granularity(c)
    BY <1>2 DEF Granularity
  <2>5. IsPrepared(1, c.a.shape[1], c.a.shape[2])'
    BY <1>3, <1>4, <2>1, CallsStay, Zenon DEF IsPrepared
  <2>6. CASE arch = "sm90"
    <3>1. PICK g : g = GemmOf(c)
      OBVIOUS
    <3>2. g = GemmCall(c, Returned(1), c.b_scale)
      BY <2>6, <3>1, Zenon DEF GemmOf
    <3>3. todo' = <<g>> \o Tail(todo)
      BY <1>2, <1>3, <2>1, <2>3, <2>6, <3>2, Zenon
    <3>4. todo' = <<g>>
      BY <1>3, <3>3, OneOrTwo, Zenon
    <3>5. GemmOf(c)' = g
      BY <1>4, <3>1, CallsStay, Zenon
    <3>6. arch' = "sm90" /\ Len(done') = 1
      BY <1>3, <1>4, <2>1, <2>6, Zenon
    <3>7. AtGemm(c)'
      BY <2>5, <3>4, <3>5, <3>6 DEF AtGemm
    <3>8. QED BY <1>3, <2>1, <3>7, Zenon DEF Progress
  <2>7. CASE arch # "sm90"
    <3>1. PICK g, x : g = GemmOf(c) /\ x = ScaleOfB(c)
      OBVIOUS
    <3>2. g = GemmCall(c, Returned(1), Returned(2))
      BY <2>7, <3>1, Zenon DEF GemmOf
    <3>3. x = ScaleCall(y.b_scale, y.b.shape[1], y.b.shape[2], Granularity(y), "ue8m0")
      BY <1>2, <2>4, <3>1, Zenon DEF ScaleOfB
    <3>4. todo' = <<x, g>> \o Tail(todo)
      BY <1>3, <2>1, <2>2, <2>3, <2>7, <3>2, <3>3, Zenon
    <3>5. todo' = <<x, g>>
      BY <1>3, <3>4, OneOrTwo, Zenon
    <3>6. GemmOf(c)' = g
      BY <1>4, <3>1, CallsStay, Zenon
    <3>7. arch' = "sm100" /\ Len(done') = 1
      BY <1>3, <1>4, <2>1, <2>7 DEF Families
    <3>8. ScaleOfB(c)' = x
      BY <3>1 DEF ScaleOfB, Granularity
    <3>9. AtScaleOfB(c)'
      BY <2>5, <3>5, <3>6, <3>7, <3>8, Zenon DEF AtScaleOfB
    <3>10. QED BY <1>3, <2>1, <3>9, Zenon DEF Progress
  <2>8. QED BY <2>6, <2>7
<1>6. CASE GemmRaw
  <2>1. Call.op = "raw_gemm"
    BY <1>6, Zenon DEF GemmRaw, Calling
  <2>2. QED BY <1>2, <1>3, <2>1
<1>7. CASE todo' = todo /\ done' = done /\ result' \notin Ended
  BY <1>4, <1>7, ProgressWaits
<1>8. GemmRaw \/ GemmRawB \/ (todo' = todo /\ done' = done /\ result' \notin Ended)
  BY <1>2, <1>3, RawCall, Zenon
<1>9. QED BY <1>5, <1>6, <1>7, <1>8

LEMMA ScaleOfBStep ==
    ASSUME SessionInv, AcceptedInv, NEW c \in AnyRaw("raw_gemm"), NEW m, NEW n, NEW k,
           Terms(c, m, n, k), AtScaleOfB(c), Progress(c), [Next]_vars
    PROVE  Progress(c)'
<1>1. PICK x, g : x = ScaleOfB(c) /\ g = GemmOf(c)
  OBVIOUS
<1>2. arch = "sm100" /\ IsPrepared(1, c.a.shape[1], c.a.shape[2]) /\ Len(done) = 1
  BY Zenon DEF AtScaleOfB
<1>3. Good(x)
  BY <1>1, <1>2, ScaleOfBIsGood, Zenon
<1>4. todo # <<>> /\ Call = x /\ Tail(todo) = <<g>> /\ result \notin Ended
  BY <1>1, OneOrTwo, Zenon DEF AtScaleOfB, Call, Progress
<1>5. arch' = arch
  BY SameProcess
<1>6. CASE Launch
  <2>1. x.out = FromLayout
    BY <1>3, Zenon DEF Good
  <2>2. /\ todo' = <<g>> /\ result' = result /\ Len(done') = 2
        /\ done'[1] = done[1] /\ done'[2].view = ViewOf(x, LayoutOf(x)) /\ done'[2].call.out = FromLayout
    <3>1. /\ todo' = Tail(todo) /\ result' = result
          /\ Len(done') = Len(done) + 1 /\ done'[Len(done) + 1].view = ViewOf(x, LayoutOf(x))
          /\ done'[Len(done) + 1].call.out = FromLayout
          /\ \A i \in 1..Len(done) : done'[i] = done[i]
      BY <1>4, <1>6, <2>1, GoodLaunch, Zenon
    <3>2. Len(done) + 1 = 2 /\ 1 \in 1..Len(done)
      BY <1>2
    <3>3. QED BY <1>4, <3>1, <3>2, Zenon
  <2>3. ViewOf(x, LayoutOf(x)) = LogicalSpec(ScaleLayout(c.b.shape[1], c.b.shape[2], 128, PreparedDType))
    <3>1. PICK mn, cols, gran : mn = c.b.shape[1] /\ cols = c.b.shape[2] /\ gran = Granularity(c)
      OBVIOUS
    <3>2. x = ScaleCall(c.b_scale, mn, cols, gran, "ue8m0")
      BY <1>1, <3>1, Zenon DEF ScaleOfB
    <3>3. ViewOf(x, LayoutOf(x)) = LogicalSpec(ScaleLayout(mn, cols, 128, "ue8m0"))
      BY <1>3, <3>2, TransformReturns
    <3>4. PreparedDType = "ue8m0"
      BY <1>2 DEF PreparedDType
    <3>5. QED BY <3>1, <3>3, <3>4, Zenon
  <2>4. /\ IsPrepared(1, c.a.shape[1], c.a.shape[2])'
        /\ IsPrepared(2, c.b.shape[1], c.b.shape[2])'
    BY <1>2, <1>5, <2>2, <2>3, CallsStay, Zenon DEF IsPrepared
  <2>5. GemmOf(c)' = g
    BY <1>1, <1>5, CallsStay, Zenon
  <2>6. AtGemm(c)'
    BY <1>2, <1>5, <2>2, <2>4, <2>5 DEF AtGemm
  <2>7. QED BY <1>4, <2>2, <2>6, Zenon DEF Progress
<1>7. CASE todo' = todo /\ done' = done /\ result' \notin Ended
  BY <1>5, <1>7, ProgressWaits
<1>8. QED BY <1>3, <1>4, <1>6, <1>7, GoodCall, Zenon

LEMMA GemmStep ==
    ASSUME 512 * 128 <= I32Max, SessionInv, AcceptedInv, NEW c \in AnyRaw("raw_gemm"),
           NEW m, NEW n, NEW k, Terms(c, m, n, k), AtGemm(c), Progress(c), [Next]_vars
    PROVE  Progress(c)'
<1>1. PICK g : g = GemmOf(c)
  OBVIOUS
<1>2. /\ m \in Nat /\ n \in Nat
      /\ c.a.shape[1] = m /\ c.a.shape[2] = k /\ c.b.shape[1] = n /\ c.b.shape[2] = k
  BY TermsOfShapes
<1>3. Good(g) /\ LayoutOf(g) = GemmOutputLayout(m, n) /\ g.op = "gemm"
  <2>1. arch \in Families
    BY Zenon DEF SessionInv, TypesInv
  <2>2. Given(Returned(1)) = done[1].view /\ Given(Returned(2)) = done[2].view
    BY DEF Given, Returned
  <2>3. done[1].view = LogicalSpec(ScaleLayout(m, k, 128, PreparedDType)) /\ done[1].call.out = FromLayout
    BY <1>2, Zenon DEF AtGemm, IsPrepared
  <2>4. arch = "sm100" =>
           /\ done[2].view = LogicalSpec(ScaleLayout(n, k, 128, PreparedDType))
           /\ done[2].call.out = FromLayout
    BY <1>2, Zenon DEF AtGemm, IsPrepared
  <2>5. QED BY <1>1, <2>1, <2>2, <2>3, <2>4, GemmOfIsGood
<1>4. todo # <<>> /\ Call = g /\ Tail(todo) = <<>> /\ result \notin Ended
  BY <1>1, OneOrTwo, Zenon DEF AtGemm, Call, Progress
<1>5. arch' = arch
  BY SameProcess
<1>6. CASE Launch
  <2>1. g.out = FromLayout
    BY <1>3, Zenon DEF Good
  <2>2. /\ todo' = <<>> /\ result' = result /\ done'[Len(done')].view = ViewOf(g, LayoutOf(g))
    BY <1>4, <1>6, <2>1, GoodLaunch, Zenon
  <2>3. ViewOf(g, LayoutOf(g)) = Contiguous("bf16", <<m, n>>)
    <3>1. PICK l : l = GemmOutputLayout(m, n)
      OBVIOUS
    <3>2. l.dtype = "bf16" /\ l.allocation = <<m, n>>
      BY <3>1, Zenon DEF GemmOutputLayout, Fill2D, Layout2D
    <3>3. g.op \notin {"mqa", "paged"} /\ g.op # "scale"
      BY <1>3
    <3>4. ViewOf(g, l) = Contiguous(l.dtype, l.allocation)
      BY <3>3, Zenon DEF ViewOf
    <3>5. QED BY <1>3, <3>1, <3>2, <3>4, Zenon
  <2>4. AtEnd(c)'
    BY <1>2, <2>2, <2>3, Zenon DEF AtEnd
  <2>5. QED BY <1>4, <2>2, <2>4, Zenon DEF Progress
<1>7. CASE todo' = todo /\ done' = done /\ result' \notin Ended
  BY <1>5, <1>7, ProgressWaits
<1>8. QED BY <1>3, <1>4, <1>6, <1>7, GoodCall, Zenon

LEMMA ProgressStep ==
    ASSUME 512 * 128 <= I32Max, SessionInv, AcceptedInv, NEW c \in AnyRaw("raw_gemm"),
           Contract(c), Progress(c), [Next]_vars
    PROVE  Progress(c)'
<1>1. PICK m, n, k : Terms(c, m, n, k)
  BY ContractTerms, Zenon
<1>2. CASE AtStart(c)
  BY <1>1, <1>2, StartStep
<1>3. CASE AtScaleOfA(c)
  BY <1>1, <1>3, ScaleOfAStep
<1>4. CASE AtRest(c)
  BY <1>1, <1>4, RestStep
<1>5. CASE AtScaleOfB(c)
  BY <1>1, <1>5, ScaleOfBStep
<1>6. CASE AtGemm(c)
  BY <1>1, <1>6, GemmStep
<1>7. CASE AtEnd(c)
  <2>1. todo = <<>> /\ result \notin Ended
    BY <1>7, Zenon DEF AtEnd, Progress
  <2>2. todo' = todo /\ done' = done /\ result' \notin Ended
    BY <2>1, NoCall
  <2>3. arch' = arch
    BY SameProcess
  <2>4. QED BY <2>2, <2>3, ProgressWaits
<1>8. AtStart(c) \/ AtScaleOfA(c) \/ AtRest(c) \/ AtScaleOfB(c) \/ AtGemm(c) \/ AtEnd(c)
  BY Zenon DEF Progress
<1>9. QED BY <1>2, <1>3, <1>4, <1>5, <1>6, <1>7, <1>8, Zenon

LEMMA RawStep ==
    ASSUME 512 * 128 <= I32Max, SessionInv, AcceptedInv, RawInv, [Next]_vars
    PROVE  RawInv'
<1>1. arch' = arch /\ session' = session
  BY SameProcess
<1>2. ASSUME NEW c \in AnyRaw("raw_gemm"), session' = <<c>>, Contract(c)'
      PROVE  Progress(c)'
  <2>1. Contract(c)
    BY <1>1, <1>2, Zenon DEF Contract, Documented, WithinLimits
  <2>2. Progress(c)
    BY <1>1, <1>2, <2>1, Zenon DEF RawInv
  <2>3. QED BY <2>1, <2>2, ProgressStep
<1>3. QED BY <1>2, Zenon DEF RawInv

LEMMA RawInit == Init => RawInv
<1>1. SUFFICES ASSUME Init, NEW c \in AnyRaw("raw_gemm"), session = <<c>> PROVE Progress(c)
  BY Zenon DEF RawInv
<1>2. AtStart(c)
  BY <1>1 DEF Init, AtStart
<1>3. result \notin Ended
  BY <1>1 DEF Init, Ended
<1>4. QED BY <1>2, <1>3, Zenon DEF Progress

LEMMA RawHolds ==
    ASSUME SessionInv, RawInv
    PROVE  RawGemmIsLaunched
<1>1. SUFFICES ASSUME NEW c \in {session[i] : i \in DOMAIN session}, Len(session) = 1,
                      c.op = "raw_gemm", Documented(c), WithinLimits(c)
               PROVE  /\ result \notin {"refused", "rejected"}
                      /\ result = "ok" =>
                            done[Len(done)].view = Contiguous("bf16", <<c.a.shape[1], c.b.shape[1]>>)
  BY DEF RawGemmIsLaunched
<1>2. session \in Seq(AnyCall)
  BY Zenon DEF SessionInv, TypesInv
<1>3. session = <<c>> /\ c \in AnyCall
  BY <1>1, <1>2
<1>4. c \in AnyRaw("raw_gemm")
  <2>1. c \in Pending
    BY <1>3 DEF Pending
  <2>2. QED BY <1>1, <2>1, CallsByOp, Zenon
<1>5. Progress(c)
  BY <1>1, <1>3, <1>4, Zenon DEF RawInv, Contract
<1>6. result \notin {"refused", "rejected"}
  BY <1>5 DEF Progress, Ended
<1>7. ASSUME result = "ok"
      PROVE  AtEnd(c)
  <2>1. todo = <<>>
    BY <1>7, Zenon DEF SessionInv, TypesInv
  <2>2. ~AtStart(c) /\ ~AtScaleOfA(c) /\ ~AtRest(c) /\ ~AtScaleOfB(c) /\ ~AtGemm(c)
    BY <2>1, OneOrTwo, Zenon DEF AtStart, AtScaleOfA, AtRest, AtScaleOfB, AtGemm
  <2>3. QED BY <1>5, <2>2, Zenon DEF Progress
<1>8. QED BY <1>6, <1>7, Zenon DEF AtEnd

\* fp8_gemm_nt of the bindings is three calls in one (candle-deepgemm gemm.rs:36).  Whatever the
\* sizes, when it keeps to its contract and to WithinLimits none of the three is refused by Rust, by a launcher or by
\* the driver after others were launched, and what it returns is BF16 [m, n].  The code's integers
\* have 32 bits, and hold the longest row there may be.
THEOREM RawGemmsAreLaunched ==
    ASSUME 512 * 128 <= I32Max
    PROVE  Spec => []RawGemmIsLaunched
<1>1. Init => AcceptedInv /\ RawInv
  BY RawInit DEF Init, AcceptedInv
<1>2. SessionInv /\ AcceptedInv /\ RawInv /\ [Next]_vars => AcceptedInv' /\ RawInv'
  BY AcceptedStep, RawStep
<1>3. QED BY <1>1, <1>2, RawHolds, SessionInvariant, PTL DEF Spec
==================================================================================
