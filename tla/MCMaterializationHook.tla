------------------------ MODULE MCMaterializationHook ------------------------
(* Small instances of MaterializationHook for TLC. *)
EXTENDS MaterializationHook, TLC
CONSTANTS t1, t2, h1, h2
=============================================================================
