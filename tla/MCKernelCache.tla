---------------------------- MODULE MCKernelCache ----------------------------
(* Small instances of KernelCache for TLC. *)
EXTENDS KernelCacheInv, TLC

CONSTANTS t1, t2, t3, p1, p2, p3, q1, c1, c2

\* The hash: one directory per cache key.
MCDirOf == [k \in Key |-> k]
MCDir == Key

\* Processes of one thread each; the last one uses other compiler flags.
OwnProc == t1 :> p1 @@ t2 :> p2
OwnProc3 == OwnProc @@ t3 :> p3
ThreeConfigs == p1 :> c1 @@ p2 :> c1 @@ p3 :> c2
SameConfig == p1 :> c1 @@ p2 :> c1

\* Two threads of one process.
SharedProc == t1 :> p1 @@ t2 :> p1
OneConfig == p1 :> c1
=============================================================================
