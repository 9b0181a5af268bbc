--------------------------- MODULE GemmConfig_proofs ---------------------------
(***************************************************************************)
(* What the choice of a kernel guarantees for every shape and number of SMs:   *)
(* the comparisons that the scans rest on are orders, every candidate fits and  *)
(* has a pipeline, a candidate exists, and the template arguments of a kernel   *)
(* determine how it is launched.                                              *)
(***************************************************************************)
EXTENDS GemmConfig, TLAPS

-----------------------------------------------------------------------------
(* The comparisons *)

Sm90Infos == [tile : TileSet, finite : BOOLEAN, cycles : Nat]
Sm100Infos == [tile : TileSet, waves : Nat \ {0}, last : Nat]

\* The numbers that decide on SM100.
Size(x) == ClusterSize(x.tile)
Extent(x) == x.tile.block_m + x.tile.block_n
Area(x) == x.tile.block_m * x.tile.block_n

LEMMA Sm100Numbers ==
    ASSUME NEW x \in Sm100Infos
    PROVE  /\ x.waves \in Nat \ {0} /\ x.last \in Nat
           /\ Size(x) \in Nat /\ Extent(x) \in Nat /\ Area(x) \in Nat
<1>1. /\ x.waves \in Nat \ {0} /\ x.last \in Nat
      /\ x.tile.block_m \in Nat /\ x.tile.block_n \in Nat
      /\ x.tile.cluster_m \in Nat /\ x.tile.cluster_n \in Nat
  BY DEF Sm100Infos, TileSet
<1>2. \A i, j \in Nat : i + j \in Nat /\ i * j \in Nat
  OBVIOUS
<1>3. QED BY <1>1, <1>2 DEF Size, Extent, Area, ClusterSize

\* The ladder of criteria, of ten numbers.
Ladder(w, s, l, e, r, w1, s1, l1, e1, r1) ==
    IF (w = 1 \/ w1 = 1) /\ w # w1 THEN w < w1
    ELSE IF s # s1 THEN s > s1
    ELSE IF w # w1 THEN w < w1
    ELSE IF l # l1 THEN l > l1
    ELSE IF e # e1 THEN e < e1
    ELSE r < r1

LEMMA Sm100Ladder ==
    ASSUME NEW a, NEW b
    PROVE  Sm100IsBetter(a, b) <=>
              Ladder(a.waves, Size(a), a.last, Extent(a), Area(a),
                     b.waves, Size(b), b.last, Extent(b), Area(b))
  BY Zenon DEF Sm100IsBetter, Ladder, Size, Extent, Area

\* sm100_layout_is_better (deepgemm_raw_gemm.cc:622) is a strict weak order, although its
\* first criterion applies only when one of the two takes one wave: no layout is better
\* than itself, better is transitive, and so is neither better nor worse.
THEOREM Sm100BetterIsOrder ==
    ASSUME NEW a \in Sm100Infos, NEW b \in Sm100Infos, NEW c \in Sm100Infos
    PROVE  /\ ~Sm100IsBetter(a, a)
           /\ Sm100IsBetter(a, b) /\ Sm100IsBetter(b, c) => Sm100IsBetter(a, c)
           /\ Sm100IsBetter(a, c) => Sm100IsBetter(a, b) \/ Sm100IsBetter(b, c)
<1>1. /\ a.waves \in Nat \ {0} /\ a.last \in Nat /\ Size(a) \in Nat /\ Extent(a) \in Nat /\ Area(a) \in Nat
      /\ b.waves \in Nat \ {0} /\ b.last \in Nat /\ Size(b) \in Nat /\ Extent(b) \in Nat /\ Area(b) \in Nat
      /\ c.waves \in Nat \ {0} /\ c.last \in Nat /\ Size(c) \in Nat /\ Extent(c) \in Nat /\ Area(c) \in Nat
  BY Sm100Numbers
<1>2. DEFINE L(x, y) == Ladder(x.waves, Size(x), x.last, Extent(x), Area(x),
                               y.waves, Size(y), y.last, Extent(y), Area(y))
<1>3. ~L(a, a) /\ (L(a, b) /\ L(b, c) => L(a, c)) /\ (L(a, c) => L(a, b) \/ L(b, c))
  BY <1>1, SMT DEF Ladder
<1>4. QED BY <1>3, Sm100Ladder, Zenon

\* So is the comparison of cycles on SM90 (deepgemm_raw_gemm.cc:551), with infinity.
THEOREM Sm90BetterIsOrder ==
    ASSUME NEW a \in Sm90Infos, NEW b \in Sm90Infos, NEW c \in Sm90Infos
    PROVE  /\ ~Sm90IsBetter(a, a)
           /\ Sm90IsBetter(a, b) /\ Sm90IsBetter(b, c) => Sm90IsBetter(a, c)
           /\ Sm90IsBetter(a, c) => Sm90IsBetter(a, b) \/ Sm90IsBetter(b, c)
  BY DEF Sm90Infos, Sm90IsBetter

-----------------------------------------------------------------------------
(* Shared memory *)

\* As many stages as fit do fit.
LEMMA PipelineFits ==
    ASSUME NEW once \in Int, NEW stage \in Nat \ {0}, NEW most \in Nat
    PROVE  /\ Pipeline(once, stage, most).stages \in Int
           /\ Pipeline(once, stage, most).smem <= Capacity
           /\ \A d \in Nat : d <= most /\ once + d * stage <= Capacity
                 => Pipeline(once, stage, most).stages >= d
<1> DEFINE q == (Capacity - once) \div stage
           s == Lesser(q, most)
<1>1. q \in Int /\ q * stage <= Capacity - once
  BY DEF Capacity
<1>2. s \in Int /\ s <= q
  BY <1>1 DEF Lesser
<1>3. s * stage <= q * stage
  BY <1>1, <1>2
<1>4. s * stage \in Int /\ once + s * stage <= Capacity
  BY <1>1, <1>2, <1>3 DEF Capacity
<1>5. ASSUME NEW d \in Nat, d <= most, once + d * stage <= Capacity
      PROVE  s >= d
  <2>1. d <= q
    BY <1>5 DEF Capacity
  <2>2. QED BY <1>1, <1>5, <2>1 DEF Lesser
<1>6. QED BY <1>2, <1>4, <1>5 DEF Pipeline

LEMMA AlignUpBounds ==
    ASSUME NEW x \in Nat, NEW a \in Nat \ {0}
    PROVE  AlignUp(x, a) \in Nat /\ AlignUp(x, a) >= x /\ AlignUp(x, a) < x + a
  BY DEF AlignUp

LEMMA CeilDivBounds ==
    ASSUME NEW x \in Nat, NEW y \in Nat \ {0}
    PROVE  CeilDiv(x, y) \in Nat /\ (x # 0 => CeilDiv(x, y) \in Nat \ {0})
  BY DEF CeilDiv

LEMMA Swizzles ==
    ASSUME NEW bytes \in Nat, bytes % 16 = 0
    PROVE  SwizzleMode(bytes) \in {16, 32, 64, 128}
<1> DEFINE S == {mode \in {16, 32, 64, 128} : bytes % mode = 0}
<1>1. 16 \in S /\ S \subseteq {16, 32, 64, 128}
  OBVIOUS
<1>2. \E x \in S : \A y \in S : x >= y
  <2>1. CASE 128 \in S BY <1>1, <2>1
  <2>2. CASE 128 \notin S /\ 64 \in S BY <1>1, <2>2
  <2>3. CASE 128 \notin S /\ 64 \notin S /\ 32 \in S BY <1>1, <2>3
  <2>4. CASE 128 \notin S /\ 64 \notin S /\ 32 \notin S BY <1>1, <2>4
  <2>5. QED BY <2>1, <2>2, <2>3, <2>4
<1>3. Max(S) \in S
  BY <1>2 DEF Max
<1>4. QED BY <1>1, <1>3 DEF SwizzleMode

-----------------------------------------------------------------------------
(* Layouts of one wave or more are what the comparison is an order on *)

LEMMA BlocksArePositive ==
    ASSUME NEW m \in Nat \ {0}, NEW n \in Nat \ {0}, NEW t \in TileSet,
           t.block_m > 0, t.block_n > 0
    PROVE  Blocks(m, n, t) \in Nat \ {0}
<1>1. t.block_m \in Nat \ {0} /\ t.block_n \in Nat \ {0}
  BY DEF TileSet
<1>2. CeilDiv(m, t.block_m) \in Nat \ {0} /\ CeilDiv(n, t.block_n) \in Nat \ {0}
  BY <1>1, CeilDivBounds, Zenon
<1>3. \A i, j \in Nat \ {0} : i * j \in Nat \ {0}
  OBVIOUS
<1>4. QED BY <1>2, <1>3 DEF Blocks

LEMMA Sm100InfoIsInfo ==
    ASSUME NEW m \in Nat \ {0}, NEW n \in Nat \ {0}, NEW sms \in Nat \ {0}, NEW t \in Sm100TileSet
    PROVE  Sm100Info(m, n, sms, t) \in Sm100Infos
<1>1. t \in TileSet /\ t.block_m > 0 /\ t.block_n > 0
  BY DEF Sm100TileSet
<1>2. Blocks(m, n, t) \in Nat \ {0}
  BY <1>1, BlocksArePositive
<1>3. Waves(m, n, sms, t) \in Nat \ {0}
  BY <1>2, CeilDivBounds DEF Waves
<1>4. LastWave(m, n, sms, t) \in Nat
  BY <1>2 DEF LastWave
<1>5. QED BY <1>1, <1>3, <1>4 DEF Sm100Info, Sm100Infos

-----------------------------------------------------------------------------
(* Every tile that is considered has a pipeline that fits *)

\* On SM90, where large products leave fewer stages, the tiles with too few are refused:
\* the ones that are left have three at least, and need no more shared memory than there is
\* (deepgemm_raw_gemm.cc:426, 525).
THEOREM Sm90CandidatesFit ==
    ASSUME NEW k \in Nat, NEW sms \in Nat \ {0}, NEW t \in Sm90TileSet, Sm90IsCandidate(k, sms, t)
    PROVE  Sm90Pipeline(k, t).stages >= 3 /\ Sm90Pipeline(k, t).smem <= Capacity
<1>1. /\ t.block_m \in Nat \ {0} /\ t.block_n \in Nat \ {0}
  BY DEF Sm90TileSet, TileSet
<1>2. t.block_m * t.block_n * 2 \in Nat /\ t.block_m * 4 \in Nat /\ t.block_m + t.block_n \in Nat \ {0}
  BY <1>1
<1>3. /\ AlignUp(t.block_m * t.block_n * 2, 1024) \in Nat
      /\ AlignUp(t.block_m * 4, 128) \in Nat
  <2>1. \A x \in Nat : AlignUp(x, 1024) \in Nat
    BY DEF AlignUp
  <2>2. \A x \in Nat : AlignUp(x, 128) \in Nat
    BY DEF AlignUp
  <2>3. QED BY <1>2, <2>1, <2>2
<1>4. CeilDiv(k, BlockK) \in Nat
  BY CeilDivBounds DEF BlockK
<1>5. AlignUp(CeilDiv(k, BlockK) * 4 * (IF BlockK % t.block_n = 0 THEN 1 ELSE 2), 8) \in Nat
  <2>1. CeilDiv(k, BlockK) * 4 * (IF BlockK % t.block_n = 0 THEN 1 ELSE 2) \in Nat
    BY <1>4
  <2>2. QED BY <2>1, AlignUpBounds
<1>6. Sm90Once(k, t) \in Nat
  BY <1>3, <1>5 DEF Sm90Once
<1>7. Sm90Stage(t) \in Nat \ {0}
  BY <1>2, <1>3 DEF Sm90Stage, BlockK
<1>8. Sm90Pipeline(k, t).smem <= Capacity
  <2>1. Sm90Once(k, t) \in Int /\ 16 \in Nat
    BY <1>6
  <2>2. QED BY <2>1, <1>7, PipelineFits, Zenon DEF Sm90Pipeline
<1>9. QED BY <1>8 DEF Sm90IsCandidate

\* On SM100 nothing asks for the number of stages: there are three for every tile
\* (deepgemm_raw_gemm.cc:582).
LEMMA Sm100StageIsSmall ==
    ASSUME NEW t \in Sm100TileSet
    PROVE  Sm100Stage(t) \in Nat \ {0} /\ Sm100Stage(t) <= 51200
<1>1. /\ t.block_m \in 1..256 /\ t.block_n \in 1..256
      /\ t.block_m + t.block_n <= 384
      /\ t.cluster_m \in 1..2 /\ t.cluster_n \in 1..2
  BY DEF Sm100TileSet
<1>2. /\ AlignUp(t.block_m, 128) \in {128, 256} /\ AlignUp(t.block_n, 128) \in {128, 256}
      /\ AlignUp(t.block_m, 128) + AlignUp(t.block_n, 128) <= 384
  BY DEF Sm100TileSet, AlignUp
<1>3. /\ t.block_m \div t.cluster_n \in 0..t.block_m
      /\ t.block_n \div t.cluster_m \in 0..t.block_n
  <2>1. \A x \in Nat, d \in 1..2 : x \div d \in 0..x
    OBVIOUS
  <2>2. t.block_m \in Nat /\ t.block_n \in Nat
    BY <1>1
  <2>3. QED BY <1>1, <2>1, <2>2, Zenon
<1>4. Sm100Storage(t).load_m + Sm100Storage(t).load_n \in 0..384
  <2>1. /\ Sm100Storage(t).load_m = t.block_m \div t.cluster_n
        /\ Sm100Storage(t).load_n = t.block_n \div t.cluster_m
    BY DEF Sm100Storage
  <2>2. PICK x \in Nat, y \in Nat :
            /\ x = Sm100Storage(t).load_m /\ y = Sm100Storage(t).load_n
            /\ x <= t.block_m /\ y <= t.block_n
    BY <1>1, <1>3, <2>1
  <2>3. \A i, j \in 1..256 : i + j <= 384 /\ x <= i /\ y <= j => x + y \in 0..384
    OBVIOUS
  <2>4. x + y \in 0..384
    BY <1>1, <2>2, <2>3, Zenon
  <2>5. QED BY <2>2, <2>4
<1>5. QED BY <1>2, <1>4 DEF Sm100Stage, BlockK

LEMMA Sm100OnceIsSmall ==
    ASSUME NEW t \in Sm100TileSet
    PROVE  Sm100Once(t) \in Nat /\ Sm100Once(t) <= 34000
<1>1. t.block_n * 2 \in Nat /\ t.block_n * 2 % 16 = 0
  BY DEF Sm100TileSet
<1>2. SwizzleMode(t.block_n * 2) \in {16, 32, 64, 128}
  BY <1>1, Swizzles
<1>3. CASE t.swap_ab
  <2>1. t.block_n = 128
    BY <1>3 DEF Sm100TileSet
  <2>2. QED BY <1>3, <2>1 DEF Sm100Once, Sm100Storage
<1>4. CASE ~t.swap_ab
  <2>1. t.block_m \in {32, 64, 128}
    BY <1>4 DEF Sm100TileSet
  <2>2. Sm100Once(t) = Lesser(128, t.block_m) * SwizzleMode(t.block_n * 2) * 2
                          + (32 * 8 * 3 + 2 * 8 * 2 + 8) + 4
    BY <1>4 DEF Sm100Once, Sm100Storage
  <2>3. PICK x \in {32, 64, 128} : x = Lesser(128, t.block_m)
    BY <2>1 DEF Lesser
  <2>4. PICK y \in {16, 32, 64, 128} : y = SwizzleMode(t.block_n * 2)
    BY <1>2
  <2>5. Sm100Once(t) = x * y * 2 + (32 * 8 * 3 + 2 * 8 * 2 + 8) + 4
    BY <2>2, <2>3, <2>4, Zenon
  <2>6. x * y * 2 \in Nat /\ x * y * 2 <= 32768
    <3>1. CASE x = 32 BY <3>1, SMT
    <3>2. CASE x = 64 BY <3>2, SMT
    <3>3. CASE x = 128 BY <3>3, SMT
    <3>4. QED BY <3>1, <3>2, <3>3
  <2>7. QED BY <2>5, <2>6
<1>5. QED BY <1>3, <1>4

THEOREM Sm100TilesFit ==
    ASSUME NEW t \in Sm100TileSet
    PROVE  Sm100Pipeline(t).stages >= 3 /\ Sm100Pipeline(t).smem <= Capacity
<1>1. /\ Sm100Stage(t) \in Nat \ {0} /\ Sm100Stage(t) <= 51200
      /\ Sm100Once(t) \in Nat /\ Sm100Once(t) <= 34000
  BY Sm100StageIsSmall, Sm100OnceIsSmall
<1>2. Sm100Once(t) + 3 * Sm100Stage(t) <= Capacity
  BY <1>1 DEF Capacity
<1>3. Sm100Pipeline(t) = Pipeline(Sm100Once(t), Sm100Stage(t), 32)
  BY DEF Sm100Pipeline
<1> HIDE DEF Sm100Pipeline
<1>4. PICK once \in Nat, stage \in Nat \ {0} :
          /\ once + 3 * stage <= Capacity
          /\ Sm100Pipeline(t) = Pipeline(once, stage, 32)
  BY <1>1, <1>2, <1>3
<1>5. once \in Int /\ 32 \in Nat /\ 3 \in Nat /\ 3 <= 32
  OBVIOUS
<1>6. QED BY <1>4, <1>5, PipelineFits

-----------------------------------------------------------------------------
(* There is a candidate *)

LongestK == 6021120

\* On SM100 the first tile that the loops reach is a candidate for every shape and every
\* number of SMs: "no SM100 FP8 GEMM heuristic candidates" is never reported
\* (deepgemm_raw_gemm.cc:643, 725).
THEOREM Sm100HasCandidate ==
    ASSUME NEW m \in Nat \ {0}, NEW n \in Nat \ {0}, NEW sms \in Nat \ {0},
           NEW t \in Sm100TileSet, ~t.swap_ab, t.block_m = Sm100BlockM(m), t.block_n = 16,
           t.cluster_m = 1, t.cluster_n = 1
    PROVE  Sm100IsCandidate(m, n, sms, t)
<1>1. Sm100BlockM(m) \in {32, 64, 128}
  BY DEF Sm100BlockM
<1>2. AlignUp(Sm100BlockM(m), 128) = 128 /\ AlignUp(16, 128) = 128
  BY <1>1 DEF AlignUp
<1>3. CeilDiv(m, Sm100BlockM(m)) \in Nat /\ CeilDiv(n, 16) \in Nat
  <2>1. Sm100BlockM(m) \in Nat \ {0} /\ m \in Nat
    BY <1>1
  <2>2. CeilDiv(m, Sm100BlockM(m)) \in Nat
    BY <2>1, CeilDivBounds, Zenon
  <2>3. QED BY <2>2, SMT DEF CeilDiv
<1>4. sms % ClusterSize(t) = 0
  BY DEF ClusterSize
<1>5. (t.block_m \div t.cluster_n) % 8 = 0 /\ (t.block_n \div t.cluster_m) % 8 = 0
  BY <1>1
<1>6. CeilDiv(m, t.block_m) % t.cluster_m = 0 /\ CeilDiv(n, t.block_n) % t.cluster_n = 0
  BY <1>3
<1>7. 2 * (IF t.swap_ab THEN t.block_m ELSE t.block_n)
          + AlignUp(t.block_m, 128) \div 32 + AlignUp(t.block_n, 128) \div 32 <= 512
  BY <1>2
<1>8. QED BY <1>4, <1>5, <1>6, <1>7 DEF Sm100IsCandidate

\* On SM90 the smallest of the tiles that every m has is a candidate for every number of
\* SMs as long as the scales of b leave room for four stages, which is up to k = LongestK:
\* "no SM90 FP8 GEMM heuristic candidates" is reported for longer rows only
\* (deepgemm_raw_gemm.cc:527, 543).
THEOREM Sm90HasCandidate ==
    ASSUME NEW k \in Nat, k <= LongestK, NEW sms \in Nat \ {0},
           NEW t \in Sm90TileSet, t.block_m = 64, t.block_n = 16, t.cluster_m = 1, t.cluster_n = 1
    PROVE  Sm90IsCandidate(k, sms, t)
<1>1. ClusterSize(t) = 1
  BY DEF ClusterSize
<1>2. Sm90Stage(t) = 10496
  BY SMT DEF Sm90Stage, BlockK, AlignUp
<1>3. CeilDiv(k, BlockK) \in Nat /\ CeilDiv(k, BlockK) <= 47040
  BY SMT DEF CeilDiv, BlockK, LongestK
<1>4. /\ AlignUp(CeilDiv(k, BlockK) * 4, 8) \in Nat
      /\ AlignUp(CeilDiv(k, BlockK) * 4, 8) <= 188160
  <2>1. \A c \in Nat : c <= 47040 => AlignUp(c * 4, 8) \in Nat /\ AlignUp(c * 4, 8) <= 188160
    BY SMT DEF AlignUp
  <2>2. QED BY <1>3, <2>1, SMT
<1>5. Sm90Once(k, t) = 2048 + 16 * 8 * 2 + AlignUp(CeilDiv(k, BlockK) * 4, 8)
  <2>1. AlignUp(64 * 16 * 2, 1024) = 2048
    BY SMT DEF AlignUp
  <2>2. BlockK % t.block_n = 0
    BY SMT DEF BlockK
  <2>3. CeilDiv(k, BlockK) * 4 * 1 = CeilDiv(k, BlockK) * 4
    BY <1>3, SMT
  <2>4. QED BY <2>1, <2>2, <2>3, SMT DEF Sm90Once
<1>6. PICK once \in Nat : once = Sm90Once(k, t) /\ once <= 190464
  BY <1>4, <1>5, SMT
<1>7. Sm90Pipeline(k, t) = Pipeline(once, 10496, 16)
  BY <1>2, <1>6, SMT DEF Sm90Pipeline
<1>8. Pipeline(once, 10496, 16).stages \in Int /\ Pipeline(once, 10496, 16).stages >= 4
  BY <1>6, SMT DEF Pipeline, Capacity, Lesser
<1>9. QED BY <1>1, <1>7, <1>8, SMT DEF Sm90IsCandidate, BlockK

-----------------------------------------------------------------------------
(* What is launched *)

\* The code of a kernel determines its launch: two launches whose template arguments are
\* equal, and which therefore run one kernel, have the same tile and pipeline, and so the
\* same shared memory, threads, cluster and boxes (deepgemm_raw_gemm.cc:748, 898).
THEOREM CodeDeterminesLaunch ==
    ASSUME NEW family \in {"sm90", "sm100"},
           NEW t1 \in TilesOf(family), NEW t2 \in TilesOf(family),
           NEW n1, NEW k1, NEW sms1, NEW n2, NEW k2, NEW sms2,
           Code(family, n1, k1, sms1, Configured(family, k1, t1))
               = Code(family, n2, k2, sms2, Configured(family, k2, t2))
    PROVE  Configured(family, k1, t1) = Configured(family, k2, t2)
<1> DEFINE c1 == Configured(family, k1, t1)
           c2 == Configured(family, k2, t2)
<1>1. c1.tile = t1 /\ c2.tile = t2
  BY DEF Configured
<1>2. /\ k1 = k2
      /\ c1.tile.block_m = c2.tile.block_m /\ c1.tile.block_n = c2.tile.block_n
      /\ ClusterSize(c1.tile) = ClusterSize(c2.tile)
      /\ (c1.tile.cluster_n > 1) = (c2.tile.cluster_n > 1)
      /\ c1.tile.swap_ab = c2.tile.swap_ab
  BY DEF Code
<1>3. /\ t1 \in TileSet /\ t2 \in TileSet
      /\ t1.cluster_m \in 1..2 /\ t1.cluster_n \in 1..2 /\ (t1.cluster_m = 1 \/ t1.cluster_n = 1)
      /\ t2.cluster_m \in 1..2 /\ t2.cluster_n \in 1..2 /\ (t2.cluster_m = 1 \/ t2.cluster_n = 1)
  BY DEF TilesOf, Sm90TileSet, Sm100TileSet
<1>4. t1.cluster_m = t2.cluster_m /\ t1.cluster_n = t2.cluster_n
  BY <1>1, <1>2, <1>3 DEF ClusterSize
<1>5. t1 = t2
  BY <1>1, <1>2, <1>3, <1>4 DEF TileSet
<1>6. QED BY <1>2, <1>5

\* Every box in which TMA moves a tile has sides that a descriptor can have, 1 to 256
\* (deepgemm_raw_gemm.cc:859, 948).
THEOREM BoxesAreDescribable ==
    ASSUME NEW family \in {"sm90", "sm100"}, NEW t \in TilesOf(family), NEW k \in Nat
    PROVE  \A box \in Boxes(family, Configured(family, k, t)) : box[1] \in 1..256 /\ box[2] \in 1..256
<1>1. /\ t.block_m \in {16, 32, 48, 64, 80, 96, 112, 128, 144, 160, 176, 192, 208, 224, 240, 256}
      /\ t.block_n \in {16, 32, 48, 64, 80, 96, 112, 128, 144, 160, 176, 192, 224, 256}
      /\ t.cluster_m \in 1..2 /\ t.cluster_n \in 1..2
  BY DEF TilesOf, Sm90TileSet, Sm100TileSet
<1>2. SwizzleMode(t.block_n * 2) \div 2 \in 1..256
  <2>1. t.block_n * 2 \in Nat /\ t.block_n * 2 % 16 = 0
    BY <1>1
  <2>2. SwizzleMode(t.block_n * 2) \in {16, 32, 64, 128}
    BY <2>1, Swizzles
  <2>3. QED BY <2>2
<1>3. /\ t.block_m \in 1..256 /\ t.block_n \in 1..256
      /\ t.block_m \div t.cluster_n \in 1..256 /\ t.block_n \div t.cluster_m \in 1..256
  BY <1>1
<1>4. Lesser(128, t.block_m) \in 1..256
  BY <1>1 DEF Lesser
<1>5. BlockK \in 1..256 /\ 1 \in 1..256 /\ 16 \in 1..256
  BY DEF BlockK
<1> DEFINE c == Configured(family, k, t)
           boxes == Boxes(family, c)
<1>6. CASE family = "sm90"
  <2>1. boxes = {<<BlockK, t.block_m>>, <<BlockK, t.block_n>>,
                 <<SwizzleMode(t.block_n * 2) \div 2, t.block_m>>, <<t.block_m, 1>>}
    BY <1>6 DEF Boxes, Configured, Sm90Storage
  <2>2. QED BY <1>2, <1>3, <1>5, <2>1
<1>7. CASE family = "sm100"
  <2> DEFINE s == IF t.swap_ab THEN 16 ELSE Lesser(128, t.block_m)
  <2>1. boxes = {<<BlockK, t.block_m \div t.cluster_n>>, <<BlockK, t.block_n \div t.cluster_m>>,
                 <<SwizzleMode(t.block_n * 2) \div 2, s>>, <<t.block_m, 1>>, <<t.block_n, 1>>}
    BY <1>7 DEF Boxes, Configured, Sm100Storage
  <2>2. s \in 1..256
    BY <1>4, <1>5
  <2>3. QED BY <1>2, <1>3, <1>5, <2>1, <2>2
<1>8. QED BY <1>6, <1>7

=============================================================================
