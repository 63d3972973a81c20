------------------------------- MODULE MCCash -------------------------------
(***************************************************************************)
(* Txs for Cash, in the order of their timestamps: m, a worker, pays a and *)
(* leaves a fee; m spends from its account twice in one tx and pays two    *)
(* accounts, one of them under a program of its own, the other changed     *)
(* after the tx was signed, which its signatures do not cover; a spends,   *)
(* perhaps before it has anything, a tx that was changed in a part that    *)
(* was signed; an amount of zero; too many outputs.                        *)
(***************************************************************************)
EXTENDS Cash

CONSTANTS m, a, b

All == <<"all", "all">>
In(addr, amount, codes) == [addr |-> addr, amount |-> amount, by |-> addr, codes |-> codes, msg |-> 0]
Out(addr, amount, program) == [addr |-> addr, amount |-> amount, program |-> program]
Tx(ts, ins, outs) == [ts |-> ts, inputs |-> ins, outputs |-> outs]

Signed(t) == [t EXCEPT !.inputs = [k \in DOMAIN t.inputs |->
    [t.inputs[k] EXCEPT !.msg = SigMsg(t, k, t.inputs[k].codes)]]]

SomeTxs == {
    Signed(Tx(1, <<In(m, 3, All)>>, <<Out(a, 2, 1)>>)),
    [Signed(Tx(2, <<In(m, 1, <<"all", "none">>), In(m, 2, <<"this", "this">>)>>, <<Out(m, 1, 1), Out(b, 1, 9)>>)) EXCEPT !.outputs[1].addr = a],
    [Signed(Tx(3, <<In(a, 2, All)>>, <<Out(a, 1, 1)>>)) EXCEPT !.outputs[1].addr = m],
    Signed(Tx(4, <<In(m, 2, All)>>, <<Out(a, 0, 1)>>)),
    Signed(Tx(5, <<In(m, 4, All)>>, <<Out(a, 1, 1), Out(b, 1, 1), Out(m, 1, 1)>>))}
=============================================================================
