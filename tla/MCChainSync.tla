---------------------------- MODULE MCChainSync ----------------------------
(***************************************************************************)
(* Small block trees for ChainSync: a chain of two, and a block with two   *)
(* competing successors.                                                   *)
(***************************************************************************)
EXTENDS ChainSync, TLC

CONSTANTS g, a, b

LinePrev  == (g :> Zero) @@ (a :> g)
ForkPrev  == (g :> Zero) @@ (a :> g) @@ (b :> g)
=============================================================================
