------------------------------ MODULE GemmConfig ------------------------------
(***************************************************************************)
(* How fp8_gemm_nt chooses a kernel (deepgemm_raw_gemm.cc): which tiles are     *)
(* candidates for an [m, n, k] product on a number of SMs, how many stages of   *)
(* the pipeline fit next to a tile in shared memory, which candidate is taken,   *)
(* and what of the choice is written into the source of the kernel.             *)
(*                                                                         *)
(* Integers are unbounded.  The cycles that SM90 compares are computed in        *)
(* doubles there and exactly here.                                             *)
(***************************************************************************)
EXTENDS Layouts, FiniteSetsExt

BlockK == 128
Capacity == 232448

Tile(swapAB, blockM, blockN, clusterM, clusterN) ==
    [swap_ab |-> swapAB, block_m |-> blockM, block_n |-> blockN,
     cluster_m |-> clusterM, cluster_n |-> clusterN]
ClusterSize(t) == t.cluster_m * t.cluster_n

Lesser(x, y) == IF x <= y THEN x ELSE y
Greater(x, y) == IF x <= y THEN y ELSE x

\* The widest TMA swizzle that divides a row of so many bytes.
SwizzleMode(bytes) == Max({mode \in {16, 32, 64, 128} : bytes % mode = 0})

-----------------------------------------------------------------------------
(* Shared memory: what a tile needs once, and what it needs for each stage *)

Pipeline(once, stage, most) ==
    LET stages == Lesser((Capacity - once) \div stage, most)
    IN [stages |-> stages, smem |-> once + stages * stage]

Sm90Storage(t) ==
    [load_m |-> t.block_m, load_n |-> t.block_n, store_m |-> t.block_m, store_n |-> t.block_n,
     swizzle_cd |-> SwizzleMode(t.block_n * 2)]

\* The scales of b for all of k stay in shared memory.
Sm90Once(k, t) ==
    LET rows == IF BlockK % t.block_n = 0 THEN 1 ELSE 2
    IN AlignUp(t.block_m * t.block_n * 2, 1024) + 16 * 8 * 2
        + AlignUp(CeilDiv(k, BlockK) * 4 * rows, 8)
Sm90Stage(t) == (t.block_m + t.block_n) * BlockK + AlignUp(t.block_m * 4, 128)
Sm90Pipeline(k, t) == Pipeline(Sm90Once(k, t), Sm90Stage(t), 16)

Sm100Storage(t) ==
    [load_m |-> t.block_m \div t.cluster_n, load_n |-> t.block_n \div t.cluster_m,
     store_m |-> IF t.swap_ab THEN 16 ELSE Lesser(128, t.block_m), store_n |-> t.block_n,
     swizzle_cd |-> SwizzleMode(t.block_n * 2)]

Sm100Once(t) ==
    LET s == Sm100Storage(t)
    IN (IF t.swap_ab THEN s.store_m * s.store_n * 2 * 2 ELSE s.store_m * s.swizzle_cd * 2)
        + (32 * 8 * 3 + 2 * 8 * 2 + 8) + 4
Sm100Stage(t) ==
    LET s == Sm100Storage(t)
    IN (s.load_m + s.load_n) * BlockK + (AlignUp(t.block_m, 128) + AlignUp(t.block_n, 128)) * 4
Sm100Pipeline(t) == Pipeline(Sm100Once(t), Sm100Stage(t), 32)

-----------------------------------------------------------------------------
(* The tiles, in the order in which the loops of the heuristics reach them *)

Clusters == <<<<1, 1>>, <<1, 2>>, <<2, 1>>>>

Sm90BlockMs(m) ==
    IF m <= 16 THEN <<64, 128, 16, 32, 256>>
    ELSE IF m <= 32 THEN <<64, 128, 32, 256>>
    ELSE <<64, 128, 256>>
Sm90Tiles(m) ==
    LET blockMs == Sm90BlockMs(m)  inner == 12 * Len(blockMs)
    IN [i \in 1..3 * inner |->
           LET c == Clusters[(i - 1) \div inner + 1]
           IN Tile(FALSE, blockMs[((i - 1) % inner) \div 12 + 1], 16 * (((i - 1) % 12) + 1), c[1], c[2])]

\* (mutant: any depth of the pipeline will do)
Sm90AnyDepth(k, sms, t) ==
    /\ sms % ClusterSize(t) = 0
    /\ t.block_n > BlockK =>
          t.block_n % (t.block_n - BlockK) = 0 \/ BlockK % (t.block_n - BlockK) = 0
    /\ ~(t.block_m > 128 /\ t.block_n > 128)
Sm90IsCandidate(k, sms, t) ==
    LET stages == Sm90Pipeline(k, t).stages
    IN  /\ sms % ClusterSize(t) = 0
        /\ t.block_n > BlockK =>
              t.block_n % (t.block_n - BlockK) = 0 \/ BlockK % (t.block_n - BlockK) = 0
        /\ ~(t.block_m > 128 /\ t.block_n > 128)
        /\ stages >= 3
        /\ t.block_m * t.block_n < 128 * 192 => stages >= 4

\* Swapped tiles are 128 columns wide and share the other operand in a cluster.
Sm100BlockM(m) == IF m <= 32 THEN 32 ELSE IF m <= 64 THEN 64 ELSE 128
Sm100BlockNs(k) == <<16>> \o [j \in 1..(IF k <= 256 THEN 4 ELSE 8) |-> 32 * j]
Sm100Tiles(m, k) ==
    LET sizes == Sm100BlockNs(k)
        Unswapped(clusterM) ==
            [j \in DOMAIN sizes |-> Tile(FALSE, Sm100BlockM(m), sizes[j], clusterM, 1)]
        Swapped(clusterN) == [j \in 1..16 |-> Tile(TRUE, 16 * j, 128, 1, clusterN)]
    IN Unswapped(1) \o Unswapped(2) \o Swapped(1) \o Swapped(2)

\* Tensor memory holds two accumulators and the scales.
Sm100IsCandidate(m, n, sms, t) ==
    /\ sms % ClusterSize(t) = 0
    /\ (t.block_m \div t.cluster_n) % 8 = 0 /\ (t.block_n \div t.cluster_m) % 8 = 0
    /\ CeilDiv(m, t.block_m) % t.cluster_m = 0 /\ CeilDiv(n, t.block_n) % t.cluster_n = 0
    /\ 2 * (IF t.swap_ab THEN t.block_m ELSE t.block_n)
          + AlignUp(t.block_m, 128) \div 32 + AlignUp(t.block_n, 128) \div 32 <= 512

\* What the loops range over, whatever m and k are.
TileSet == [swap_ab : BOOLEAN, block_m : Nat, block_n : Nat, cluster_m : Nat, cluster_n : Nat]
Sm90TileSet ==
    {t \in TileSet : /\ ~t.swap_ab
                     /\ t.block_m \in {16, 32, 64, 128, 256}
                     /\ t.block_n \in {16, 32, 48, 64, 80, 96, 112, 128, 144, 160, 176, 192}
                     /\ t.cluster_m \in 1..2 /\ t.cluster_n \in 1..2
                     /\ t.cluster_m = 1 \/ t.cluster_n = 1}
Sm100TileSet ==
    {t \in TileSet : \/ /\ ~t.swap_ab
                        /\ t.block_m \in {32, 64, 128}
                        /\ t.block_n \in {16, 32, 64, 96, 128, 160, 192, 224, 256}
                        /\ t.cluster_m \in 1..2 /\ t.cluster_n = 1
                     \/ /\ t.swap_ab
                        /\ t.block_m \in {16, 32, 48, 64, 80, 96, 112, 128,
                                         144, 160, 176, 192, 208, 224, 240, 256}
                        /\ t.block_n = 128
                        /\ t.cluster_m = 1 /\ t.cluster_n \in 1..2}
TilesOf(family) == IF family = "sm90" THEN Sm90TileSet ELSE Sm100TileSet

\* The tiles that no loop skips, each at its place in the order.
Candidates(family, m, n, k, sms) ==
    IF family = "sm90"
    THEN RestrictValues(Sm90Tiles(m), LAMBDA t : Sm90IsCandidate(k, sms, t))
    ELSE RestrictValues(Sm100Tiles(m, k), LAMBDA t : Sm100IsCandidate(m, n, sms, t))

-----------------------------------------------------------------------------
(* The choice: a scan that keeps a tile until it meets a better one, and goes on from *)
(* there with that one. *)

Blocks(m, n, t) == CeilDiv(m, t.block_m) * CeilDiv(n, t.block_n)
Waves(m, n, sms, t) == CeilDiv(Blocks(m, n, t), sms)
LastWave(m, n, sms, t) ==
    LET rest == Blocks(m, n, t) % sms IN IF rest = 0 THEN sms ELSE rest

\* num_cycles, but for a factor that is the same for all tiles: sums of bytes are
\* multiples of 8, blocks and SMs cancel out against the wave efficiency, and L2 has
\* 64 bytes a cycle for each SM and no more than 80000 / 13 for all.
Cycles(m, n, k, sms, t) ==
    LET cd == (t.block_m * t.block_n) \div 4
        l2 == k * ((t.block_m \div t.cluster_n + t.block_n \div t.cluster_m) \div 8) + cd
        l1 == k * ((t.block_m + t.block_n + Greater(64, t.block_m) + t.block_n) \div 8) + 2 * cd
    IN Waves(m, n, sms, t)
        * (IF 64 * sms * 13 <= 80000 THEN Greater(l1, 2 * l2) ELSE Greater(625 * l1, 13 * sms * l2))

\* A cluster that has only one wave costs "infinity".
Sm90Info(m, n, k, sms, t) ==
    LET waves == Waves(m, n, sms, t)
    IN [tile |-> t, finite |-> ~(ClusterSize(t) > 1 /\ waves <= 1),
        cycles |-> Cycles(m, n, k, sms, t)]
Sm90IsBetter(a, b) == a.finite /\ (b.finite => a.cycles < b.cycles)

Sm100Info(m, n, sms, t) ==
    [tile |-> t, waves |-> Waves(m, n, sms, t), last |-> LastWave(m, n, sms, t)]

\* (mutant: one wave is compared with one wave, and the rest is not)
Sm100FirstWave(a, b) ==
    IF a.waves = 1 \/ b.waves = 1 THEN a.waves < b.waves
    ELSE ClusterSize(a.tile) > ClusterSize(b.tile)
Sm100IsBetter(a, b) ==
    LET Extent(x) == x.tile.block_m + x.tile.block_n
        Area(x) == x.tile.block_m * x.tile.block_n
    IN  IF (a.waves = 1 \/ b.waves = 1) /\ a.waves # b.waves THEN a.waves < b.waves
        ELSE IF ClusterSize(a.tile) # ClusterSize(b.tile)
        THEN ClusterSize(a.tile) > ClusterSize(b.tile)
        ELSE IF a.waves # b.waves THEN a.waves < b.waves
        ELSE IF a.last # b.last THEN a.last > b.last
        ELSE IF Extent(a) # Extent(b) THEN Extent(a) < Extent(b)
        ELSE Area(a) < Area(b)

IsBetter(family, a, b) ==
    IF family = "sm90" THEN Sm90IsBetter(a, b) ELSE Sm100IsBetter(a, b)
Best(family, infos) ==
    LET kept[i \in DOMAIN infos] ==
            LET better == {j \in DOMAIN infos : j > i /\ IsBetter(family, infos[j], infos[i])}
            IN IF better = {} THEN infos[i].tile ELSE kept[Min(better)]
    IN kept[Min(DOMAIN infos)]

BestTile(family, m, n, k, sms, tiles) ==
    Best(family, [i \in DOMAIN tiles |->
        IF family = "sm90" THEN Sm90Info(m, n, k, sms, tiles[i])
        ELSE Sm100Info(m, n, sms, tiles[i])])

-----------------------------------------------------------------------------
(* What is launched *)

NoConfig == [tile |-> "none"]

\* Threads: one producer warpgroup and one or two for the math, or two in all.
Configured(family, k, t) ==
    IF family = "sm90"
    THEN [tile |-> t, storage |-> Sm90Storage(t), pipeline |-> Sm90Pipeline(k, t),
          threads |-> 128 + IF t.block_m <= 64 THEN 128 ELSE 256]
    ELSE [tile |-> t, storage |-> Sm100Storage(t), pipeline |-> Sm100Pipeline(t),
          threads |-> 256]

BestConfig(family, m, n, k, sms) ==
    LET tiles == Candidates(family, m, n, k, sms)
    IN IF DOMAIN tiles = {} THEN NoConfig
       ELSE Configured(family, k, BestTile(family, m, n, k, sms, tiles))

\* The arguments of the kernel's template.
\* (mutant: k is left to the arguments of the launch, as m is)
CodeOfAnyK(family, n, k, sms, c) ==
    [family |-> family, n |-> n, block_m |-> c.tile.block_m, block_n |-> c.tile.block_n,
     swizzle_cd |-> c.storage.swizzle_cd, stages |-> c.pipeline.stages, threads |-> c.threads,
     cluster |-> ClusterSize(c.tile), multicast_a |-> c.tile.cluster_n > 1, sms |-> sms,
     swap_ab |-> c.tile.swap_ab]
Code(family, n, k, sms, c) ==
    [family |-> family, n |-> n, k |-> k, block_m |-> c.tile.block_m, block_n |-> c.tile.block_n,
     swizzle_cd |-> c.storage.swizzle_cd, stages |-> c.pipeline.stages, threads |-> c.threads,
     cluster |-> ClusterSize(c.tile), multicast_a |-> c.tile.cluster_n > 1, sms |-> sms,
     swap_ab |-> c.tile.swap_ab]

\* What the launch says of itself: shared memory, threads and cluster, and the boxes in
\* which TMA moves the two operands, their scales and the output.
Attributes(c) ==
    [smem |-> c.pipeline.smem, threads |-> c.threads, cluster |-> ClusterSize(c.tile)]
Boxes(family, c) ==
    {<<BlockK, c.storage.load_m>>, <<BlockK, c.storage.load_n>>,
     <<c.storage.swizzle_cd \div 2, c.storage.store_m>>, <<c.tile.block_m, 1>>}
    \cup (IF family = "sm100" THEN {<<c.tile.block_n, 1>>} ELSE {})
=============================================================================
