--------------------------- MODULE MCLocalDeltas ---------------------------
(***************************************************************************)
(* Datagrams for LocalDeltas: two of one peer, one of another, and one of  *)
(* the node's own deltas coming back.                                      *)
(***************************************************************************)
EXTENDS LocalDeltas

CONSTANTS p, q, p1, p2, q1, e1

PubOf == [d \in Dgrams |-> CASE d \in {p1, p2} -> p
                             [] d = q1 -> q
                             [] OTHER -> Self]
=============================================================================
