----------------------------- MODULE MCExchange -----------------------------
(***************************************************************************)
(* Two clients in one market, with rates 1.5 and 2 (encoded with One = 2), *)
(* a ruler that may lose the rate 2, and amounts small enough for every    *)
(* division to leave a rest.                                               *)
(***************************************************************************)
EXTENDS Exchange

CONSTANTS a, b

MCAccount == {a, b}
MCRate == {3, 4}
MCSample == [min |-> 3, max |-> 4]
MCRulers == {[min |-> 2, max |-> 3]}
MCAmount == {0, 1, 4}
MCCredit == {6}
MCDist == <<50>>

Symmetry == Permutations(MCAccount)

=============================================================================
