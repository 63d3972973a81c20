----------------------------- MODULE MCAuthApp -----------------------------
(***************************************************************************)
(* Peers for AuthApp: two nodes, one in the hall that is not connected,    *)
(* and one that wants to join and reaches the nodes from two addresses.    *)
(* One of the nodes connects, to the other and (its sysop) to itself.      *)
(***************************************************************************)
EXTENDS AuthApp

CONSTANTS n1, n2, w, p

ByHalf == {-50}

Addresses == [n \in Nodes |-> [k \in Pubkeys |->
    CASE k = p -> IF n = n1 THEN {1} ELSE {2}
      [] k = n1 -> {3}
      [] OTHER -> {}]]
=============================================================================
