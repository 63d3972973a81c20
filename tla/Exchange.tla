------------------------------ MODULE Exchange ------------------------------
(***************************************************************************)
(* The exchange engine (tex/cex): accounts and their wallets, one market   *)
(* with its two fronts, the orders that wait in them, and the files the    *)
(* engine is loaded from when it starts again.  One action per request of  *)
(* the api (cexapi/main.cpp), whose manager serves them one at a time; a   *)
(* request runs to its end before the process may be stopped.              *)
(*                                                                         *)
(* A request is a function of the engine's state, a record, so that one    *)
(* request can use another (update cancels and trades again) and each      *)
(* write of a file happens where the code has it.                          *)
(***************************************************************************)
EXTENDS Matching, FiniteSets, FiniteSetsExt, Functions, TLC

CONSTANTS
    Account,        \* client accounts that may be created
    Sys,            \* the system account, which earns the commissions
    Rate,           \* encoded rates that clients ask for
    Sample,         \* [min, max] of the ruler the engine starts with
    RefRate,        \* the rate around which the sample orders are placed
    FrontBudget,    \* what they are worth, in each currency
    Dist,           \* the shares of it, in percent, from the best rate on
    Rulers,         \* rulers that set_ruler may install
    Increment,      \* efp::rate_multiples
    Amount,         \* encoded amounts that clients ask for
    Credit,         \* encoded amounts that clients deposit
    CommDen,        \* the commission is 1/CommDen of what is received
    CommMin,        \* 100: a commission up to this one gets no rounding rest
    AutoMatchFree,  \* no commission when an account meets its own order
    MaxOrder,       \* bound: orders ever made
    MaxDeposit,     \* bound: deposits ever made
    MaxBoot,        \* bound: restarts
    MaxRequest      \* bound: requests other than new_account and deposit

ASSUME RateAssumption == Rate \subseteq Nat \ {0} /\ Increment \in Nat \ {0}
ASSUME AmountAssumption == Amount \subseteq Nat /\ Credit \subseteq Nat
ASSUME CommAssumption == CommDen \in Nat \ {0} /\ CommMin \in Nat /\ AutoMatchFree \in BOOLEAN
ASSUME SysAssumption == Sys \notin Account
ASSUME SampleAssumption == RefRate \in Nat /\ FrontBudget \in Nat /\ Dist \in Seq(Nat)

Holder == Account \cup {Sys}
Pri == {"high", "low"}

VARIABLES
    eng,      \* the engine in memory, see Fresh
    disk,     \* its files: wallets, and queues as sequences of orders
    status,   \* "new" (has served nothing yet), "up", "hung" (in a request
              \* that never returns) or "aborted"
    discount, \* accounts that pay no commission
    ruler,    \* the rates that a new queue may have
    boots,    \* restarts so far
    \* history
    books,    \* per account and currency: deposits, less withdrawals, plus
              \* what the trades registered for it say
    given,    \* deposits so far
    asked,    \* other requests so far
    flaws     \* the ways in which a request has broken the books

vars == <<eng, disk, status, discount, ruler, boots, books, given, asked, flaws>>

\* waiting_queue: the ids that wait, first come first, and the cached value.
NewQueue == [ids |-> <<>>, value |-> 0]

\* waiting_queues: one queue for each priority.
NewQueues == [p \in Pri |-> NewQueue]

\* account::account: a client starts with no money; wallets are made for it.
NewWallets == [c \in Cur |-> 0]

\* What the constructor makes of an empty home directory: the system account,
\* with a wallet for each currency.
Fresh ==
    [wallets |-> [a \in {Sys} |-> NewWallets],
     orders  |-> <<>>,              \* id -> [id, acc, front, rate, value, buy]
     queue   |-> [f \in Cur |-> [r \in Rate |-> NewQueues]],
     queues  |-> [f \in Cur |-> {}],\* rates of the queues that exist
     byorder |-> [f \in Cur |-> <<>>], \* _queues_by_order: id -> rate
     low     |-> {},                \* _hash_low of all queues
     cache   |-> {},                \* _orders
     tracked |-> [a \in Holder |-> {}],   \* account::_orders
     nextid  |-> 1]

\* An empty home directory, with the files that the constructors write.
NoFiles ==
    [wallets |-> [a \in {Sys} |-> {<<c, 0>> : c \in Cur}], nextid |-> 1,
     files |-> [f \in Cur |-> [r \in Rate |-> [p \in Pri |-> <<>>]]]]

\* ruler_def::update and generate_rates
RulerRates(def) ==
    LET Snap(x) == x - (x % Increment)
        least == IF Snap(def.min) < Increment THEN Increment ELSE Snap(def.min)
        most == IF Snap(def.max) < least THEN least ELSE Snap(def.max)
    IN  {r \in least..most : (r - least) % Increment = 0}

\* engine::add_sample_rulers: what every start installs.
AddSampleRulers == RulerRates(Sample)

\* The whole state that a request works on.
State == [eng |-> eng, disk |-> disk, status |-> "up", books |-> books, flaws |-> flaws]

Becomes(s) ==
    /\ eng' = s.eng /\ disk' = s.disk /\ status' = s.status
    /\ books' = s.books /\ flaws' = s.flaws

Init ==
    /\ eng = Fresh
    /\ disk = NoFiles
    /\ status = "new"
    /\ discount = {} /\ ruler = AddSampleRulers /\ boots = 0
    /\ books = [a \in Holder |-> [c \in Cur |-> 0]]
    /\ given = 0 /\ asked = 0 /\ flaws = {}

-----------------------------------------------------------------------------
(***************************************************************************)
(* Files, wallets and queues.                                              *)
(***************************************************************************)

\* Mutant: nothing is written.
Mut_SaveWallets(s, a) == s

\* account::_save_wallets: a line for each wallet.
SaveWallets(s, a) ==
    LET lines == {<<c, s.eng.wallets[a][c]>> : c \in DOMAIN s.eng.wallets[a]}
    IN  [s EXCEPT !.disk.wallets = (a :> lines) @@ @]

\* account::_load_wallets: the first line of a currency counts.
LoadWallets(lines) ==
    [c \in {l[1] : l \in lines} |-> (CHOOSE l \in lines : l[1] = c)[2]]

\* order::write: the line of an order in the file of its queue, which
\* order::order(line) reads back.
Line(s, id) == s.eng.orders[id]

\* waiting_queue::_save: the orders of the queue, or no file.
SaveQueue(s, f, r, p) ==
    LET ids == s.eng.queue[f][r][p].ids
    IN  [s EXCEPT !.disk.files[f][r][p] = [i \in DOMAIN ids |-> Line(s, ids[i])]]

\* waiting_queues::save, the end of waiting_queue::match
SaveQueues(s, f, r) == SaveQueue(SaveQueue(s, f, r, "high"), f, r, "low")

\* account::_new_wallet
AddWallet(s, a, c) ==
    IF c \in DOMAIN s.eng.wallets[a] THEN s
    ELSE SaveWallets([s EXCEPT !.eng.wallets[a] = (c :> 0) @@ @], a)

\* account::deposit, which makes the wallet when there is none.
DepositTo(s, a, c, amount) ==
    SaveWallets([AddWallet(s, a, c) EXCEPT !.eng.wallets[a][c] = @ + amount], a)

Available(s, a, c) == IF c \in DOMAIN s.eng.wallets[a] THEN s.eng.wallets[a][c] ELSE 0

\* account::delete_wallet: an empty one.
EraseWallet(s, a, c) ==
    IF Available(s, a, c) # 0 THEN s
    ELSE SaveWallets([s EXCEPT !.eng.wallets[a] = Restrict(@, DOMAIN @ \ {c})], a)

\* account::delete_all_wallets: those that are empty.
EraseAllWallets(s, a) ==
    SaveWallets([s EXCEPT !.eng.wallets[a] = Restrict(@, {c \in DOMAIN @ : @[c] > 0})], a)

\* wallet::withdraw: what the wallet has when it has less.
Withdrawn(s, a, c, amount) == Least(amount, Available(s, a, c))

\* account::withdraw
WithdrawFrom(s, a, c, amount) ==
    IF c \notin DOMAIN s.eng.wallets[a] THEN s
    ELSE SaveWallets([s EXCEPT !.eng.wallets[a][c] = @ - Withdrawn(s, a, c, amount)], a)

\* env::nid::get: the next id is in its file before the id is used.
TakeId(s) == [s EXCEPT !.eng.nextid = @ + 1, !.disk.nextid = s.eng.nextid + 1]

\* History: what the trades of an account, and its deposits, add to its books.
Enter(s, a, c, amount) == [s EXCEPT !.books[a][c] = @ + amount]

\* compa and waiting_queue::compare: q is at least as good as r in front f.
AsGood(f, q, r) == IF f = Weak THEN q >= r ELSE q <= r

\* waiting_queues::get_value and has_value: the cached values.
GetValue(s, f, r) == s.eng.queue[f][r].high.value + s.eng.queue[f][r].low.value

HasValue(s, f, r) == s.eng.queue[f][r].high.value # 0 \/ s.eng.queue[f][r].low.value # 0

\* waiting_queues::get_orders
GetOrders(s, f, r) == s.eng.queue[f][r].high.ids \o s.eng.queue[f][r].low.ids

\* B::top()
Top(s, f) == CHOOSE q \in s.eng.queues[f] : \A r \in s.eng.queues[f] : AsGood(f, q, r)

\* front::trim drops queues from the top until one has value.
Trim(s, f) ==
    LET kept == {r \in s.eng.queues[f] : \E q \in s.eng.queues[f] : HasValue(s, f, q) /\ AsGood(f, q, r)}
    IN  [s EXCEPT !.eng.queues[f] = kept,
                  !.eng.queue[f] = [r \in Rate |-> IF r \in kept THEN @[r] ELSE NewQueues]]

\* The orders a request with this limit may meet, best first.
Waiting(s, f, limit) ==
    LET rates == SetToSortSeq({r \in s.eng.queues[f] : AsGood(f, r, limit)},
                              LAMBDA q, r : q # r /\ AsGood(f, q, r))
        ids == FlattenSeq([i \in DOMAIN rates |-> GetOrders(s, f, rates[i])])
    IN  [i \in DOMAIN ids |-> s.eng.orders[ids[i]]]

\* Mutant: a low priority request never finds a match.
Mut_TestMatch(s, f, limit) == FALSE

\* front::test_match, for requests of low priority.
TestMatch(s, f, limit) ==
    /\ s.eng.queues[f] # {}
    /\ AsGood(f, Top(s, f), limit)
    /\ HasValue(s, f, Top(s, f))

\* An order that has been made, in the indexes of engine and account.
Index(s, o) ==
    [s EXCEPT !.eng.cache = @ \cup {o.id}, !.eng.tracked[o.acc] = @ \cup {o.id}]

\* ~order after erase and untrack_order
Forget(s, a, id) ==
    [s EXCEPT !.eng.cache = @ \ {id}, !.eng.tracked[a] = @ \ {id}, !.eng.orders = Restrict(@, DOMAIN @ \ {id})]

\* Mutant: the cached value is not increased.
Mut_Enqueue(s, o, p) ==
    [TakeId(s) EXCEPT !.eng.orders = (o.id :> o) @@ @,
                      !.eng.queue[o.front][o.rate][p].ids = Append(@, o.id)]

\* waiting_queue::new_order: a new id, the end of the queue, its value.
Enqueue(s, o, p) ==
    [TakeId(s) EXCEPT !.eng.orders = (o.id :> o) @@ @,
                      !.eng.queue[o.front][o.rate][p] =
                          [ids |-> Append(@.ids, o.id), value |-> @.value + o.value]]

\* waiting_queue::_cancel_order
Dequeue(s, f, r, p, id) ==
    [s EXCEPT !.eng.queue[f][r][p] = [ids   |-> SelectSeq(@.ids, LAMBDA x : x # id),
                                      value |-> @.value - s.eng.orders[id].value]]

\* front::get_queue_rate: a queue that exists, or a new one if the ruler has
\* the rate (E28 if not).
OnRuler(s, f, r) == r \in s.eng.queues[f] \cup ruler

GetQueueRate(s, f, r) ==
    IF OnRuler(s, f, r) THEN [s EXCEPT !.eng.queues[f] = @ \cup {r}] ELSE s

\* waiting_queues::new_order, new_order_low and the front's: the order is in
\* the index of its front, and in _hash_low.
PlaceOrder(s, o, p) ==
    [Enqueue(s, o, p) EXCEPT !.eng.low = IF p = "low" THEN @ \cup {o.id} ELSE @,
                             !.eng.byorder[o.front] = (o.id :> o.rate) @@ @]

-----------------------------------------------------------------------------
(***************************************************************************)
(* Trading.                                                                *)
(***************************************************************************)

\* The commission of engine::pay, with the rest of encode(net, comm, tot):
\* net and commission are rounded down and the rest goes to one of the two.
Commission(a, amount) ==
    LET comm == IF a \in discount THEN 0 ELSE amount \div CommDen
        net == amount - IF a \in discount THEN 0 ELSE (amount + CommDen - 1) \div CommDen
    IN  IF comm > CommMin THEN amount - net ELSE comm

\* account::tradedata: what one account paid and received in one match.
TradeData(paid_cur, paid, received, commission) ==
    [paid_cur |-> paid_cur, paid_amount |-> paid, received_cur |-> Other(paid_cur),
     received_amount |-> received, commission_amount |-> commission]

\* account::register_trade, as the account's history shows it (list_trades).
RegisterTrade(s, a, td) ==
    Enter(Enter(s, a, td.received_cur, td.received_amount - td.commission_amount),
          a, td.paid_cur, -td.paid_amount)

\* engine::pay0, and the commission in the books of the system.
Pay0(s, a, c, net, comm) == Enter(DepositTo(DepositTo(s, Sys, c, comm), a, c, net), Sys, c, comm)

\* engine::pay, and the trade that is registered for the account.
Pay(s, a, c, amount, comm, paid) ==
    RegisterTrade(Pay0(s, a, c, amount - comm, comm), a, TradeData(Other(c), paid, amount, comm))

\* Mutant: the maker is paid in the currency it has sold.
Mut_Settle(s, a, fill, f) ==
    LET lay == s.eng.orders[fill.id].acc
    IN  Pay(Pay(s, lay, f, fill.cost, 0, fill.received), a, f, fill.received, 0, fill.cost)

\* One match of engine::process(account, matches): the maker, then the taker.
Settle(s, a, fill, f) ==
    LET lay == s.eng.orders[fill.id].acc
        Comm(x, amount) == IF a = lay /\ AutoMatchFree THEN 0 ELSE Commission(x, amount)
    IN  Pay(Pay(s, lay, Other(f), fill.cost, Comm(lay, fill.cost), fill.received),
            a, f, fill.received, Comm(a, fill.received), fill.cost)

\* The orders that are too small to go on are given back to their accounts.
Expire(s, id) ==
    LET o == s.eng.orders[id]
    IN  Forget(DepositTo(s, o.acc, o.front, o.value), o.acc, id)

\* front::match and what it leaves in queues, orders and wallet; the files of
\* the queues it went through are written.
ApplyMatch(s, a, f, limit, m) ==
    LET fills(id) == {i \in DOMAIN m.fills : m.fills[i].id = id}
        taken == [id \in DOMAIN s.eng.orders |-> SumFunction([i \in fills(id) |-> m.fills[i].received])]
        s1 == [s EXCEPT !.eng.orders = [id \in DOMAIN @ |-> [@[id] EXCEPT !.value = @ - taken[id]]],
                        !.eng.queue[f] = [r \in Rate |-> [p \in Pri |->
                            [@[r][p] EXCEPT !.value = @ - SumFunctionOnSet(taken, ToSet(s.eng.queue[f][r][p].ids))]]],
                        !.eng.wallets[a][Other(f)] = m.avail]
        lane(id) == IF \E r \in Rate : id \in ToSet(s.eng.queue[f][r].low.ids) THEN "low" ELSE "high"
        s2 == FoldSet(LAMBDA id, x : Dequeue(x, f, s.eng.orders[id].rate, lane(id), id), s1, m.expired)
        touched == {s.eng.orders[id].rate : id \in m.expired \cup {m.fills[i].id : i \in DOMAIN m.fills}}
        s3 == FoldSet(LAMBDA r, x : SaveQueues(x, f, r), s2, touched)
        Trimmed(x) == IF s.eng.queues[f] # {} /\ AsGood(f, Top(s, f), limit) THEN Trim(x, f) ELSE x
    IN  Trimmed([s3 EXCEPT !.eng.byorder[f] = Restrict(@, DOMAIN @ \ m.expired)])

\* The error path of engine::_sell (E28, E29): nothing that was matched is
\* settled, and the amount asked is deposited.
Refund(s, a, cid, amount) ==
    [DepositTo(s, a, cid, amount) EXCEPT !.flaws = @ \cup {"refund"}]

\* engine::process(account, result): the new order if there is one, what was
\* matched, what has expired, the wallets.
Process(s, a, f, m, placed, p) ==
    LET s1 == IF placed = <<>> THEN s
              ELSE Index(SaveQueue(s, placed[1].front, placed[1].rate, p), placed[1])
        s2 == FoldLeft(LAMBDA x, fill : Settle(x, a, fill, f), s1, m.fills)
        s3 == FoldSet(LAMBDA id, x : Expire(x, id), s2, m.expired)
    IN  SaveWallets(s3, a)

\* The value of the order that is made of what is left; buy: the amount is in
\* the currency that is bought.
Rest(m, pays, limit, buy) ==
    Least(m.avail, IF buy THEN FromFront(Other(pays), m.left, limit) ELSE m.left)

\* market::result: the matches, the order that was placed if any, the error.
TradeResult(s, m, placed, ends) == [s |-> s, matches |-> m, placed |-> placed, ends |-> ends]

\* The order that is made of what request m has left needs a queue
\* (front::get_queue_rate: E28) and a value (waiting_queue::new_order: E29).
PlaceRest(s, a, pays, limit, buy, p, m) ==
    LET could == IF m.left = 0 THEN "no" ELSE CouldMatch(m.avail, limit, m.left, pays, buy)
        rest == Rest(m, pays, limit, buy)
        o == [id |-> s.eng.nextid, acc |-> a, front |-> pays, rate |-> limit, value |-> rest, buy |-> buy]
        Queue == GetQueueRate(s, pays, limit)
    IN  CASE could = "hang" -> TradeResult(s, m, <<>>, "hung")
          [] could = "no"   -> TradeResult(s, m, <<>>, "ok")
          [] could = "yes" /\ (~OnRuler(s, pays, limit) \/ rest < 1) -> TradeResult(Queue, m, <<>>, "error")
          [] OTHER          ->
               TradeResult(PlaceOrder([Queue EXCEPT !.eng.wallets[a][pays] = @ - rest], o, p), m, <<o>>, "ok")

\* A request of high priority, after request m went through the front it meets.
AfterMatch(s, a, pays, limit, buy, m) ==
    IF m.hung THEN TradeResult(s, m, <<>>, "hung")
    ELSE PlaceRest(ApplyMatch(s, a, Other(pays), limit, m), a, pays, limit, buy, "high", m)

\* market::trade, trade_weak and trade_strong: account a buys or sells amount
\* of currency cid; pays is the currency it pays with, f the front it meets.
\* A request of low priority never trades: it waits, unless it could trade.
MarketTrade(s, a, pays, limit, amount, buy, p) ==
    LET f == Other(pays)
        start == Begin(Available(s, a, pays), amount)
    IN  IF p = "high"
        THEN AfterMatch(s, a, pays, limit, buy, Match(Waiting(s, f, limit), start.avail, amount, f, buy))
        ELSE IF TestMatch(s, f, limit) THEN TradeResult(s, start, <<>>, "ok")
        ELSE PlaceRest(s, a, pays, limit, buy, "low", start)

\* engine::_sell, once the market has answered t.
Answer(s, a, cid, amount, pays, p, t) ==
    CASE t.ends = "hung"  -> [s EXCEPT !.status = "hung"]
      [] t.ends = "error" -> Refund(t.s, a, cid, amount)
      [] OTHER            -> Process(t.s, a, Other(pays), t.matches, t.placed, p)

\* engine::_sell
Sell(s, a, cid, limit, amount, buy, p) ==
    LET pays == IF buy THEN Other(cid) ELSE cid
    IN  IF pays \notin DOMAIN s.eng.wallets[a] THEN s                         \* E101
        ELSE Answer(s, a, cid, amount, pays, p, MarketTrade(s, a, pays, limit, amount, buy, p))

-----------------------------------------------------------------------------
(***************************************************************************)
(* Changing orders.                                                        *)
(***************************************************************************)

\* front::has_order: the weak front if the order is there, otherwise the strong
\* one.
FrontOf(s, id) == IF id \in DOMAIN s.eng.byorder[Weak] THEN Weak ELSE Strong

\* waiting_queues::cancel_order: the queue that is searched for an order.
Lane(s, id) == IF id \in s.eng.low THEN "low" ELSE "high"

\* front::get_queue_id and the hash of the queue: E30, E32 if not there.
Found(s, id) ==
    LET f == FrontOf(s, id)
    IN  /\ id \in DOMAIN s.eng.byorder[f]
        /\ id \in ToSet(s.eng.queue[f][s.eng.byorder[f][id]][Lane(s, id)].ids)

\* front::cancel_order, for an order that is found.
FrontCancel(s, f, id) ==
    LET r == s.eng.byorder[f][id]
        p == Lane(s, id)
        s1 == SaveQueue(Dequeue(s, f, r, p, id), f, r, p)
    IN  Trim([s1 EXCEPT !.eng.low = @ \ {id}, !.eng.byorder[f] = Restrict(@, DOMAIN @ \ {id})], f)

\* market::cancel_order
MarketCancel(s, id) == FrontCancel(s, FrontOf(s, id), id)

\* engine::_cancel_order; an order that is not found stays (error 555).
Cancel(s, a, id) ==
    LET o == s.eng.orders[id]
    IN  IF Found(s, id)
        THEN Forget(DepositTo(MarketCancel(s, id), a, o.front, o.value), a, id)
        ELSE s

\* order::budget_for_update
Budget(o, amount) == amount - o.value

\* order::update: less value, or a second order with the rest.
Shrink(s, f, r, p, id, amount) ==
    [s EXCEPT !.eng.orders[id].value = amount,
              !.eng.queue[f][r][p].value = @ + Budget(s.eng.orders[id], amount)]

\* waiting_queue::update_order, for an order that is found.
QueueUpdate(s, f, r, id, amount) ==
    LET o == s.eng.orders[id]
        p == Lane(s, id)
        more == [o EXCEPT !.id = s.eng.nextid, !.value = Budget(o, amount)]
        s1 == IF Budget(o, amount) > 0 THEN Index(PlaceOrder(s, more, p), more)
              ELSE Shrink(s, f, r, p, id, amount)
    IN  SaveQueue(s1, f, r, p)

\* front::update_order: in the queue of the order.
FrontUpdate(s, f, id, amount) == QueueUpdate(s, f, s.eng.byorder[f][id], id, amount)

\* market::update_order
MarketUpdate(s, id, amount) == FrontUpdate(s, FrontOf(s, id), id, amount)

\* What check_withdrawn lets pass: less than the order was made bigger by; and
\* the funds of an order that is then not found.
UpdateFlaws(s, id, budget, withdrawn) ==
    (IF budget > 0 /\ withdrawn < budget THEN {"short"} ELSE {}) \cup
    (IF budget # 0 /\ ~Found(s, id) THEN {"unfound"} ELSE {})

\* engine::_update_order: the funds move first, then the order is looked for.
Resize(s, a, id, amount) ==
    LET o == s.eng.orders[id]
        budget == Budget(o, amount)
        withdrawn == Withdrawn(s, a, o.front, budget)
        s1 == IF budget > 0 THEN WithdrawFrom(s, a, o.front, budget)
              ELSE DepositTo(s, a, o.front, -budget)
        s2 == IF Found(s, id) THEN MarketUpdate(s1, id, amount) ELSE s1
    IN  IF budget > 0 /\ withdrawn = 0 THEN s                                 \* E301
        ELSE [s2 EXCEPT !.flaws = @ \cup UpdateFlaws(s, id, budget, withdrawn)]

-----------------------------------------------------------------------------
(***************************************************************************)
(* The requests.  auth() admits only accounts that exist and only clients. *)
(***************************************************************************)

Client == DOMAIN eng.wallets \ {Sys}

\* A request can be served.  The bounds: not too many, and no more once the
\* books are broken.
Up == status \in {"new", "up"} /\ flaws = {}

Asks == Up /\ asked < MaxRequest /\ asked' = asked + 1

CanOrder == eng.nextid <= MaxOrder

Still == UNCHANGED <<discount, ruler, boots, given>>

NewAccount(a) ==
    /\ Up /\ a \in Account \ Client
    /\ Becomes(SaveWallets([State EXCEPT !.eng.wallets = (a :> NewWallets) @@ @], a))
    /\ Still /\ UNCHANGED asked

NewWallet(a, c) ==
    /\ Asks /\ a \in Client /\ c \notin DOMAIN eng.wallets[a]
    /\ Becomes(AddWallet(State, a, c))
    /\ Still

DeleteWallet(a, c) ==
    /\ Asks /\ a \in Client /\ c \in DOMAIN eng.wallets[a]
    /\ Becomes(EraseWallet(State, a, c))
    /\ Still

DeleteAllWallets(a) ==
    /\ Asks /\ a \in Client
    /\ Becomes(EraseAllWallets(State, a))
    /\ Still

Deposit(a, c, amount) ==
    /\ Up /\ a \in Client /\ given < MaxDeposit /\ amount > 0
    /\ Becomes(Enter(DepositTo(State, a, c, amount), a, c, amount))
    /\ given' = given + 1
    /\ UNCHANGED <<discount, ruler, boots, asked>>

\* What the wallet has when it has less than the amount asked.
Withdraw(a, c, amount) ==
    /\ Asks /\ a \in Client /\ c \in DOMAIN eng.wallets[a] /\ amount > 0
    /\ Becomes(Enter(WithdrawFrom(State, a, c, amount), a, c, -Withdrawn(State, a, c, amount)))
    /\ Still

\* trade and trade_low
Trade(a, cid, limit, amount, buy, p) ==
    /\ Asks /\ a \in Client /\ amount > 0 /\ CanOrder
    /\ Becomes(Sell(State, a, cid, limit, amount, buy, p))
    /\ Still

CancelOrder(a, id) ==
    /\ Asks /\ a \in Client /\ id \in eng.cache /\ eng.orders[id].acc = a
    /\ Becomes(Cancel(State, a, id))
    /\ Still

\* The orders of the account in the order the hash table has them; one that
\* is not found ends the process (abort).
CancelAll(a) ==
    /\ Asks /\ a \in Client
    /\ LET lost == {id \in eng.tracked[a] : ~Found(State, id)}
       IN  \E done \in SUBSET (eng.tracked[a] \ lost) :
             /\ lost = {} => done = eng.tracked[a]
             /\ LET s == FoldSet(LAMBDA id, x : Cancel(x, a, id), State, done)
                IN  Becomes(IF lost = {} THEN s ELSE [s EXCEPT !.status = "aborted"])
    /\ Still

\* update_order(acid, pwd, order_id, amount)
UpdateOrder(a, id, amount) ==
    /\ Asks /\ a \in Client /\ CanOrder
    /\ id \in eng.cache /\ eng.orders[id].acc = a
    /\ Becomes(IF amount < 1 THEN Cancel(State, a, id) ELSE Resize(State, a, id, amount))
    /\ Still

\* update(acid, pwd, input): a new rate makes a new order of the old one.  Any
\* order will do: its owner is not compared with the account, as cancel_order
\* and update_order(acid, ...) do.  With the order of another the account's
\* lists and money and the owner's go apart, the flaw "foreign".  ord._buy is
\* read after delete, from memory that nothing has been allocated in since: it
\* still holds the value.
Update(a, id, amount, rate) ==
    /\ Asks /\ a \in Client /\ CanOrder
    /\ id \in eng.cache
    /\ LET o == eng.orders[id]
           cid == IF o.buy THEN Other(o.front) ELSE o.front
           s == IF amount < 1 THEN Cancel(State, a, id)
                ELSE IF rate # o.rate THEN Sell(Cancel(State, a, id), a, cid, rate, amount, o.buy, "high")
                ELSE Resize(State, a, id, amount)
       IN  Becomes(IF o.acc = a \/ s.eng.orders = eng.orders THEN s
                   ELSE [s EXCEPT !.flaws = @ \cup {"foreign"}])
    /\ Still

\* set_commission_discount is not written to a file.
SetCommissionDiscount(a) ==
    /\ Asks /\ a \in Client
    /\ discount' = discount \cup {a}
    /\ status' = "up"
    /\ UNCHANGED <<eng, disk, ruler, boots, books, given, flaws>>

\* market::set_ruler: orders that wait at other rates stay
\* (cancel_orders_not_in is empty).
MarketSetRuler(def) == ruler' = RulerRates(def)

SetRuler(def) ==
    /\ Asks
    /\ MarketSetRuler(def)
    /\ status' = "up"
    /\ UNCHANGED <<eng, disk, discount, boots, books, given, flaws>>

\* front::load: a queue for each file in the directory of the front, which are
\* the files of the high priority queues.
Load(files) ==
    [f \in Cur |-> [r \in Rate |-> [p \in Pri |-> IF files[f][r].high = <<>> THEN <<>> ELSE files[f][r][p]]]]

\* waiting_queue::load: the orders in their order, and their value.
LoadQueue(lines) ==
    [ids |-> [i \in DOMAIN lines |-> lines[i].id], value |-> SumFunction([i \in DOMAIN lines |-> lines[i].value])]

\* engine::track_orders: every order in the cache and with its account.
Track(e, recs) ==
    [e EXCEPT !.cache = {o.id : o \in recs},
              !.tracked = [a \in Holder |-> {o.id : o \in {x \in recs : x.acc = a}}]]

\* engine::add_sample_liquidity2: account a deposits the budget and sells its
\* shares at the rates next to the reference, away from the other front.  The
\* rulers of the code have more rates below the reference than Dist has shares.
Offer(s, a, c) ==
    LET spots == SetToSortSeq(ruler, <)
        below == Cardinality({r \in ruler : r < RefRate})
        spot(i) == IF c = Weak THEN below + 1 - i ELSE below + 1 + i
        SellAt(x, i) == Sell(x, a, c, spots[spot(i)], (Dist[i] * FrontBudget) \div 100, FALSE, "high")
    IN  FoldLeft(LAMBDA x, i : IF spot(i) \in DOMAIN spots THEN SellAt(x, i) ELSE x,
                 Enter(DepositTo(s, a, c, FrontBudget), a, c, FrontBudget),
                 [i \in DOMAIN Dist |-> i])

\* The main function of the server, before it serves: a new account with
\* orders in both fronts.  The programs that test the engine set the rulers
\* only.  The bounds take it for two deposits and a request.
AddSampleLiquidity(a) ==
    /\ status = "new" /\ a \in Account \ Client
    /\ CanOrder /\ given + 2 <= MaxDeposit /\ asked < MaxRequest
    /\ LET s == SaveWallets([State EXCEPT !.eng.wallets = (a :> NewWallets) @@ @], a)
       IN  Becomes(FoldLeft(LAMBDA x, c : Offer(x, a, c), s, <<Weak, Strong>>))
    /\ given' = given + 2 /\ asked' = asked + 1
    /\ UNCHANGED <<discount, ruler, boots>>

\* A new process, after one that has served: engine::engine with the files of
\* the old one.
Restart ==
    /\ status # "new" /\ boots < MaxBoot /\ flaws = {}
    /\ LET loaded == Load(disk.files)
           InFront(f) == UNION {ToSet(loaded[f][r][p]) : <<r, p>> \in Rate \X Pri}
           recs == InFront(Weak) \cup InFront(Strong)
           Rec(id) == CHOOSE o \in recs : o.id = id
           missed == \E f \in Cur, r \in Rate : disk.files[f][r].high = <<>> /\ disk.files[f][r].low # <<>>
       IN  /\ eng' = Track([Fresh EXCEPT
                        !.wallets = [a \in DOMAIN disk.wallets |-> LoadWallets(disk.wallets[a])],
                        !.orders  = [id \in {o.id : o \in recs} |-> Rec(id)],
                        !.queue   = [f \in Cur |-> [r \in Rate |-> [p \in Pri |-> LoadQueue(loaded[f][r][p])]]],
                        !.queues  = [f \in Cur |-> {r \in Rate : loaded[f][r].high # <<>>}],
                        !.byorder = [f \in Cur |-> [id \in {o.id : o \in InFront(f)} |-> Rec(id).rate]],
                        !.nextid  = disk.nextid], recs)
           /\ flaws' = IF missed THEN flaws \cup {"missed"} ELSE flaws
    /\ status' = "new" /\ discount' = {} /\ ruler' = AddSampleRulers /\ boots' = boots + 1
    /\ UNCHANGED <<disk, books, given, asked>>

Next ==
    \/ \E a \in Account : NewAccount(a)
    \/ \E a \in Account, c \in Cur : NewWallet(a, c)
    \/ \E a \in Account, c \in Cur : DeleteWallet(a, c)
    \/ \E a \in Account : DeleteAllWallets(a)
    \/ \E a \in Account, c \in Cur, x \in Credit : Deposit(a, c, x)
    \/ \E a \in Account, c \in Cur, x \in Amount : Withdraw(a, c, x)
    \/ \E a \in Account, c \in Cur, r \in Rate, x \in Amount, buy \in BOOLEAN, p \in Pri : Trade(a, c, r, x, buy, p)
    \/ \E a \in Account, id \in eng.cache : CancelOrder(a, id)
    \/ \E a \in Account : CancelAll(a)
    \/ \E a \in Account, id \in eng.cache, x \in Amount : UpdateOrder(a, id, x)
    \/ \E a \in Account, id \in eng.cache, x \in Amount, r \in Rate : Update(a, id, x, r)
    \/ \E a \in Account : SetCommissionDiscount(a)
    \/ \E def \in Rulers : SetRuler(def)
    \/ Restart
    \/ \E a \in Account : AddSampleLiquidity(a)

Spec == Init /\ [][Next]_vars

-----------------------------------------------------------------------------
(***************************************************************************)
(* Properties.                                                             *)
(***************************************************************************)

\* Class order: who pays what at which rate; the market is the only one.
Order == [id : 1..MaxOrder+1, acc : Account, front : Cur, rate : Rate, value : Nat, buy : BOOLEAN]

\* Class account: a map from currency to wallet.
AccountType(ws) == \A c \in DOMAIN ws : c \in Cur /\ ws[c] \in Nat

\* Class front: queues by rate, with an index of the queues by order.
FrontType(f) ==
    /\ eng.queues[f] \subseteq Rate
    /\ \A id \in DOMAIN eng.byorder[f] : id \in DOMAIN eng.orders /\ eng.byorder[f][id] = eng.orders[id].rate
    /\ \A r \in Rate : HasValue(State, f, r) => r \in eng.queues[f]

\* Class engine: accounts, the cache of orders, the ids.
EngineType ==
    /\ \A a \in DOMAIN eng.wallets : a \in Holder /\ AccountType(eng.wallets[a])
    /\ \A id \in DOMAIN eng.orders : eng.orders[id] \in Order /\ eng.orders[id].id = id
    /\ eng.cache \subseteq DOMAIN eng.orders /\ eng.nextid \in Nat

\* The state has its type, and a queue that holds value is one that requests
\* can find.
TypeOK ==
    /\ EngineType
    /\ \A f \in Cur : FrontType(f)
    /\ status \in {"new", "up", "hung", "aborted"}

\* market::get_orders
Queued == UNION {ToSet(GetOrders(State, f, r)) : <<f, r>> \in Cur \X Rate}

Value(ids) == SumFunction([id \in ids |-> eng.orders[id].value])

InOrders(a, c) == Value({x \in Queued : eng.orders[x].acc = a /\ eng.orders[x].front = c})

\* What an account has in its wallets and in the orders that wait is what it
\* deposited and did not withdraw, changed by exactly what the trades that
\* were registered for it say, after any requests (as long as none has taken
\* one of the paths listed as flaws).  No request makes or loses money, and
\* the trade history of every account is the truth (engine::process, pay).
Reconciles ==
    flaws = {} => \A a \in DOMAIN eng.wallets, c \in Cur : Available(State, a, c) + InOrders(a, c) = books[a][c]

\* engine::check_integrity: the orders of the markets are those in the cache;
\* the accounts track the same.
CheckIntegrity ==
    /\ eng.cache = Queued
    /\ \A a \in Holder : eng.tracked[a] = {id \in Queued : eng.orders[id].acc = a}
    /\ \A f \in Cur : DOMAIN eng.byorder[f] = {id \in Queued : eng.orders[id].front = f}

\* engine::total_money: what the orders of currency c are worth, counted in
\* the engine's cache, in the accounts and by the cached values of queues.
GoCache(c) == Value({id \in eng.cache : eng.orders[id].front = c})

GoAccounts(c) == SumFunction([a \in Holder |-> Value({id \in eng.tracked[a] : eng.orders[id].front = c})])

GoQueues(c) == SumFunction([r \in eng.queues[c] |-> GetValue(State, c, r)])

\* What engine::total_money takes for granted and asserts: every order in an
\* account's list is still there to be read, and the sums agree (go1==go2,
\* go3==go2).  After the flaw "foreign" it does not hold: the order of another
\* account is cancelled and left in the list of its owner.
TotalMoneyAgrees ==
    /\ \A a \in Holder : eng.tracked[a] \subseteq DOMAIN eng.orders
    /\ \A c \in Cur : GoCache(c) = GoAccounts(c) /\ GoQueues(c) = GoAccounts(c)

\* The same where no request took a path listed as a flaw, and what the log of
\* check_integrity looks for: however orders were matched, resized, expired
\* and cancelled, every index has the same orders, every account lists its
\* own and no others, the values that queues keep in step with their orders
\* are right, and no order of no value waits.
IndexesAgree ==
    /\ TypeOK
    /\ flaws = {} => /\ CheckIntegrity
                     /\ TotalMoneyAgrees
                     /\ \A id \in Queued : eng.orders[id].value > 0

\* The files show what the engine has in memory: no request ends with a wallet,
\* a queue or a next id that is not written, and a process that is started
\* again between two requests has every wallet and every order in its place
\* (unless a low priority queue has no high priority queue beside it, which
\* front::load misses: the flaw "missed").
FilesAreCurrent ==
    (status \in {"new", "up"} /\ flaws = {}) =>
        /\ disk.nextid = eng.nextid /\ DOMAIN disk.wallets = DOMAIN eng.wallets
        /\ \A a \in DOMAIN eng.wallets : LoadWallets(disk.wallets[a]) = eng.wallets[a]
        /\ \A f \in Cur, r \in Rate, p \in Pri :
             disk.files[f][r][p] = [i \in DOMAIN eng.queue[f][r][p].ids |-> Line(State, eng.queue[f][r][p].ids[i])]

\* Order x is served before order y.
Before(x, y) ==
    LET ox == eng.orders[x]  oy == eng.orders[y]
        pos(id, p) == eng.queue[eng.orders[id].front][eng.orders[id].rate][p].ids
    IN  /\ ox.front = oy.front
        /\ \/ ox.rate # oy.rate /\ AsGood(ox.front, ox.rate, oy.rate)
           \/ /\ ox.rate = oy.rate
              /\ x \in ToSet(pos(x, "high")) /\ y \in ToSet(pos(y, "low"))
           \/ /\ ox.rate = oy.rate
              /\ \E p \in Pri : \E i, j \in DOMAIN pos(x, p) : i < j /\ pos(x, p)[i] = x /\ pos(x, p)[j] = y

\* A step has taken from order x, all or a part.
Taken(x) == x \notin DOMAIN eng'.orders \/ eng'.orders[x].value < eng.orders[x].value

\* The order that update cancels and trades again: it goes, and orders of the
\* other front are met.
Moved(y) == \E z \in Queued : eng.orders[z].front # eng.orders[y].front /\ Taken(z)

\* Price, then priority, then time: a trade that takes from an order leaves
\* nothing of the orders before it (front::match, waiting_queues::match; the
\* test tradelow asks for it).  A step that changes books and orders is one
\* in which orders were matched.
ServedInOrder ==
    [][(books' # books /\ eng'.orders # eng.orders) =>
          \A x, y \in Queued :
             (Before(x, y) /\ Taken(y) /\ ~Moved(y)) => x \notin DOMAIN eng'.orders]_vars

\* One of the two orders is too small to be matched with the other.
Dust(x, y) ==
    \/ CouldMatch(y.value, x.rate, y.value, x.front, FALSE) = "no"
    \/ ~WorthKeeping(x.rate, x.value, x.front, FALSE)

\* The account had an order at this rate: update_order, which does not match,
\* may have made the new one.
Grows(y) == \E o \in Range(eng.orders) : o.acc = y.acc /\ o.front = y.front /\ o.rate = y.rate

\* An order that a trade of either priority leaves waiting could not have met
\* any order of the other front (front::match, test_match): the market is
\* crossed, its gap negative (market::info::gap_encoded), only by amounts too
\* small to exchange.
TradesMeet ==
    [][(flaws' = {} /\ boots' = boots) =>
          \A m \in eng'.cache, n \in eng'.cache \ eng.cache :
             LET x == eng'.orders[m]  y == eng'.orders[n]
             IN  (x.front # y.front /\ AsGood(x.front, x.rate, y.rate) /\ ~Grows(y)) => Dust(x, y)]_vars

=============================================================================
