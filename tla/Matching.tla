------------------------------ MODULE Matching ------------------------------
(***************************************************************************)
(* How the exchange (tex/cex) matches a request against the orders that    *)
(* wait in a front: order.cpp, waiting_queue.cpp and front.cpp.            *)
(*                                                                         *)
(* A market has two fronts, called after the currency their orders pay     *)
(* with.  A rate is weak currency per strong currency.  Amounts and rates  *)
(* are encoded: integers of 1/One units (efp).  encode(decode_dbl(x) op    *)
(* decode_dbl(y)) is the exact quotient rounded down; the last digit that  *)
(* the doubles of the code may lose is left out.                           *)
(***************************************************************************)
EXTENDS Integers, Sequences, SequencesExt

CONSTANTS Weak, Strong,   \* the two currencies of the market
          One             \* efp::one

ASSUME OneAssumption == One \in Nat \ {0}
ASSUME CurAssumption == Weak # Strong

Cur == {Weak, Strong}

Other(c) == IF c = Weak THEN Strong ELSE Weak

Times(a, r) == (a * r) \div One
Over(a, r) == (a * One) \div r

\* What the amount a, in the currency that front f asks for, is worth in f,
\* and the other way round.
ToFront(f, a, r) == IF f = Weak THEN Times(a, r) ELSE Over(a, r)
FromFront(f, v, r) == IF f = Weak THEN Over(v, r) ELSE Times(v, r)

Least(x, y) == IF x < y THEN x ELSE y

-----------------------------------------------------------------------------

\* order::could_match_provided_big_ordervalue.  It calls itself with what the
\* wallet affords, and from then on always with the same amount: when that
\* one looks too expensive again, it never returns ("hang").
CouldMatch(avail, r, amount, f, buy) ==
    LET Value(a) == IF buy THEN a ELSE ToFront(f, a, r)
        CostOf(a) == IF buy THEN a ELSE Over(Value(a), r)
        Nothing(a) == Value(a) = 0 \/ CostOf(a) = 0
        afford == IF buy THEN ToFront(f, avail, r) ELSE avail
    IN  IF Nothing(amount) THEN "no"
        ELSE IF CostOf(amount) <= avail THEN "yes"
        ELSE IF Nothing(afford) THEN "no"
        ELSE IF CostOf(afford) <= avail THEN "yes" ELSE "hang"

\* order::could_match_provided_big_amount: whether what is left of an order
\* is worth anything to a request of this kind.
WorthKeeping(r, value, f, buy) ==
    (IF buy THEN value ELSE FromFront(f, value, r)) # 0

\* order::match: what the request gets from one order and what it pays; when
\* the wallet cannot pay it tries again with all that is in the wallet.
MatchOrder(value, avail, r, amount, f, buy) ==
    LET Value(a) == IF buy THEN a ELSE ToFront(f, a, r)
        Gets(a) == Least(Value(a), value)
        Costs(a) == IF buy \/ Value(a) > value THEN FromFront(f, Gets(a), r) ELSE a
        Fill(a) == IF Value(a) = 0 \/ Costs(a) = 0
                   THEN [ok |-> FALSE, cost |-> 0, received |-> 0, left |-> a]
                   ELSE [ok |-> TRUE, cost |-> Costs(a), received |-> Gets(a),
                         left |-> a - IF buy THEN Gets(a) ELSE Costs(a)]
    IN  IF Value(amount) # 0 /\ avail < Costs(amount)
        THEN Fill(IF buy THEN ToFront(f, avail, r) ELSE avail)
        ELSE Fill(amount)

\* matchitem: the order that was met, what the request paid and received; the
\* order paid and received the opposite.
MatchItem(id, t) == [id |-> id, cost |-> t.cost, received |-> t.received]

\* A request before it meets the first order.
Begin(avail, amount) ==
    [avail |-> avail, left |-> amount, fills |-> <<>>, expired |-> {},
     stopped |-> FALSE, hung |-> FALSE]

\* The request after order o has been matched with it, t.  An order that keeps
\* some value ends the request: the loop sees it again, with nothing left to
\* match.  If there is something left, the order could not be matched and will
\* not be the next time either.
Meet(m, o, t, f, buy) ==
    LET keep == WorthKeeping(o.rate, o.value - t.received, f, buy)
    IN  [avail   |-> m.avail - t.cost,
         left    |-> t.left,
         fills   |-> IF t.ok THEN Append(m.fills, MatchItem(o.id, t)) ELSE m.fills,
         expired |-> IF keep THEN m.expired ELSE m.expired \cup {o.id},
         stopped |-> keep,
         hung    |-> keep /\ CouldMatch(m.avail - t.cost, o.rate, t.left, f, buy) # "no"]

\* One turn of the loop of waiting_queue::match, with the order at the head
\* of the queue.
Turn(m, o, f, buy) ==
    LET could == CouldMatch(m.avail, o.rate, m.left, f, buy)
    IN  IF m.stopped \/ m.hung THEN m
        ELSE IF could = "no" THEN [m EXCEPT !.stopped = TRUE]
        ELSE IF could = "hang" THEN [m EXCEPT !.hung = TRUE]
        ELSE Meet(m, o, MatchOrder(o.value, m.avail, o.rate, m.left, f, buy), f, buy)

\* Mutant: the orders of a front are met in the order they came.
Mut_Match(waiting, avail, amount, f, buy) ==
    FoldLeft(LAMBDA m, o : Turn(m, o, f, buy), Begin(avail, amount),
             SetToSortSeq(ToSet(waiting), LAMBDA x, y : x.id < y.id))

\* front::match over the orders that wait, best first.
Match(waiting, avail, amount, f, buy) ==
    FoldLeft(LAMBDA m, o : Turn(m, o, f, buy), Begin(avail, amount), waiting)

=============================================================================
