-------------------------- MODULE MCCompilerConfig --------------------------
(* Small instances of CompilerConfig for TLC. *)
EXTENDS CompilerConfig, TLC

CONSTANTS t1, t2, t3, r1, r2, r3, g1, g2, g3

\* Two Blackwell devices of one family and a Hopper; a Hopper and a Blackwell.
Family == g1 :> "10.0" @@ g2 :> "10.3" @@ g3 :> "9.0"
Mixed == g1 :> "9.0" @@ g2 :> "10.0"

\* The headers of r3 are missing.
Toolkits == r1 :> ">= 12.9" @@ r2 :> ">= 12.3" @@ r3 :> "< 12.3"
=============================================================================
