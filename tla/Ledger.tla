------------------------------- MODULE Ledger -------------------------------
(***************************************************************************)
(* What the engine promises about its ledger: the databases of the apps    *)
(* are the result of a chain of blocks, which grows at its end by a block  *)
(* that names the current end as its predecessor, and is otherwise only    *)
(* ever thrown away as a whole (daemon::clear, a restart) to be rebuilt.   *)
(***************************************************************************)
EXTENDS Sequences, Naturals

CONSTANTS Blocks, Zero, Prev

VARIABLE chain

Tip == IF chain = <<>> THEN Zero ELSE chain[Len(chain)]

Init == chain = <<>>

Extend(b) == Prev[b] = Tip /\ chain' = Append(chain, b)

Discard == chain' = <<>>

Next == (\E b \in Blocks : Extend(b)) \/ Discard

Spec == Init /\ [][Next]_chain
=============================================================================
