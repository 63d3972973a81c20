------------------------------ MODULE MCVotes ------------------------------
(***************************************************************************)
(* A network for Votes: a loop of three nodes, in which votes come by two  *)
(* routes, and a peer in the hall that knows one of them only, so that the *)
(* votes of the others have to be relayed to it.                           *)
(***************************************************************************)
EXTENDS Votes

CONSTANTS n1, n2, n3, h1

Kite == {{n1, n2}, {n2, n3}, {n3, n1}, {n3, h1}}
=============================================================================
