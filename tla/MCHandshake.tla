----------------------------- MODULE MCHandshake -----------------------------
(* Two nodes that dial each other, one that cannot sign, and the sysop who    *)
(* connects to a node with its own key.                                       *)
EXTENDS Handshake

MCNode == {"a", "b", "x"}
MCConn == 1..4
MCDialler == <<"a", "b", "x", "a">>
MCDialled == <<"b", "a", "a", "a">>
MCBroken == {"x"}
=============================================================================
