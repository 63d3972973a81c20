------------------------------ MODULE MCWallet ------------------------------
(***************************************************************************)
(* Two devices, two workers, the node's key and two more, all with a       *)
(* balance, and a home directory that is new or has both devices paired.   *)
(* A payment of 2 and the fee empties the node's key, takes two inputs     *)
(* with k1, and is refused with k2.                                        *)
(***************************************************************************)
EXTENDS Wallet

CONSTANTS gov, k1, k2, x, y, w1, w2

MCKey == {gov, k1, k2}
MCDevice == {x, y}
MCWorker == {w1, w2}
WorkersAlike == Permutations(MCWorker)
MCPurse == (gov :> 3) @@ (k1 :> 1) @@ (k2 :> 4)
MCAmount == {2}
MCName == {"phone", "empty"}
MCPaired == {[d \in {} |-> "empty"], [d \in MCDevice |-> "phone"]}
MCSigCodes == {<<"all", "all">>, <<"this", "none">>}

=============================================================================
