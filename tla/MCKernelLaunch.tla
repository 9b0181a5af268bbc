---------------------------- MODULE MCKernelLaunch ----------------------------
(* Small instances of KernelLaunch for TLC: up to three streams on two GPUs. *)
EXTENDS KernelLaunch, TLC
CONSTANTS t1, t2, a, b, s1, s2, s3

\* Threads are alike, and so are the two streams of GPU a.
Alike == Permutations(Thread) \cup Permutations({s1, s2})

\* Two Candle devices on GPU a, one on GPU b, or one on each.
StreamGpu == [s \in Stream |-> IF s = s3 THEN b ELSE a]

Uniform == [g \in Gpu |-> 2]
Unequal == [g \in Gpu |-> IF g = a THEN 2 ELSE 1]

Blackwells == [g \in Gpu |-> 10]
HopperAndBlackwell == [g \in Gpu |-> IF g = a THEN 9 ELSE 10]
=============================================================================
