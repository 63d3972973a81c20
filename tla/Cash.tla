-------------------------------- MODULE Cash --------------------------------
(***************************************************************************)
(* The cash app of a node (gov/cash): accounts, the mempool, and what a    *)
(* block does to them.                                                     *)
(*   - workers check txs that arrive and schedule them (parse_evidence);   *)
(*   - evidence_processor applies them one by one to the pool (process),   *)
(*     without a lock of the pool;                                         *)
(*   - the main loop turns the pool into the local delta of the cycle      *)
(*     (create_local_delta, in stage3) and imports it as a block in stage2 *)
(*     of the next cycle (import), or resets the database (clear) and      *)
(*     imports the chain again.                                            *)
(*                                                                         *)
(* The block is the delta that most nodes made (majority_merger), with the *)
(* average of what their operators vote for; the other nodes have seen all *)
(* the txs of this one, or none.  The proof of work of a block is the set  *)
(* of nodes whose deltas it merges: merge() returns 0 in every app, so     *)
(* each has done work 0.  An input of a tx carries a signature: whose key  *)
(* made it, over which parts of the tx, and what they were.  Balances may  *)
(* be negative: process does not test that an account holds what it        *)
(* spends.                                                                 *)
(***************************************************************************)
EXTENDS Integers, FiniteSets, Sequences, Functions

CONSTANTS
    Addrs,      \* addresses
    Txs,        \* [ts, inputs : seq of [addr, amount, by, codes, msg],
                \*      outputs : seq of [addr, amount, program]]
    MaxItems,   \* bound of tx::read on inputs, and on outputs
    Self,       \* this node
    Workers,    \* sets of nodes whose deltas a block may merge, and reward
    Supply,     \* supply_left at genesis
    Reward,     \* block_reward at genesis
    MinFees,    \* what the operator may set minimum_fee to
    OtherFees,  \* what the other operators vote for
    MaxBlocks,  \* bound: length of the chain
    MaxClears   \* bound: resets of the database

SigCodes == {"all", "none", "this"}

\* input_t: an amount of an address, and in locking_program_input whose key
\* signed which parts of which tx.
IsInput(i) ==
    /\ DOMAIN i = {"addr", "amount", "by", "codes", "msg"}
    /\ i.addr \in Addrs /\ i.amount \in Int /\ i.by \in Addrs /\ i.codes \in SigCodes \X SigCodes

\* output_t
IsOutput(o) == o \in [addr : Addrs, amount : Int, program : Nat]

\* tx
IsTx(t) ==
    /\ t = [ts |-> t.ts, inputs |-> t.inputs, outputs |-> t.outputs] /\ t.ts \in Nat
    /\ t.inputs \in Seq(Range(t.inputs)) /\ t.outputs \in Seq(Range(t.outputs))
    /\ \A k \in DOMAIN t.inputs : IsInput(t.inputs[k])
    /\ \A k \in DOMAIN t.outputs : IsOutput(t.outputs[k])

ASSUME TxsAssumption == \A t \in Txs : IsTx(t)
ASSUME SupplyAssumption == Supply \in Nat /\ Reward \in Nat
ASSUME MaxAssumption == MaxItems \in Nat /\ MaxBlocks \in Nat /\ MaxClears \in Nat
ASSUME MinFeesAssumption == MinFees \subseteq Nat /\ OtherFees \subseteq Nat
ASSUME WorkersAssumption == \A ws \in Workers : Self \in ws /\ ws \subseteq Addrs /\ IsFiniteSet(ws)

VARIABLES
    \* db
    accounts,      \* db.delta.accounts: address -> [program, box]
    supply_left,
    block_reward,
    policies,      \* minimum_fee agreed by the network
    policies_local,\* minimum_fee this operator votes for
    \* the mempool and the threads that use it
    pool,          \* [accounts, fees, min_fee] and history txs: what it was made of
    calendar,      \* txs scheduled
    seen,          \* txs that have been scheduled: none is handed over again
    last_ts,       \* timestamp of the last tx processed
    job,           \* the tx in process: [tx, at, batch], at: the next item
    \* the chain
    chain,         \* blocks made so far: the file, and who is paid the remainder
    height,        \* how many of them are imported
    clears,        \* bound: resets so far
    \* history
    straddled      \* a tx began on accounts that a block not imported yet
                   \* changes, or was in process at stage3 or at a reset

vars == <<accounts, supply_left, block_reward, policies, policies_local, pool,
          calendar, seen, last_ts, job, chain, height, clears, straddled>>

db == <<accounts, supply_left, block_reward, policies>>

NoAccounts == [a \in {} |-> 0]

\* Entries of f, and of g where f has none.
Over(f, g) == [x \in DOMAIN f \cup DOMAIN g |-> IF x \in DOMAIN f THEN f[x] ELSE g[x]]

Single(x, v) == [y \in {x} |-> v]

\* local_delta::local_delta
EmptyPool == [accounts |-> NoAccounts, fees |-> 0, min_fee |-> 0, txs |-> {}]

NoTx == [ts |-> 0, inputs |-> <<>>, outputs |-> <<>>]
Idle == [tx |-> NoTx, at |-> 0, batch |-> NoAccounts]

\* policies_t::temp_load and clear
TempLoad == 1
NoPolicies == 0

\* db_t::clear
Genesis == accounts = NoAccounts /\ supply_left = Supply /\ block_reward = Reward

Init ==
    /\ Genesis
    /\ policies = TempLoad /\ policies_local = TempLoad
    /\ pool = EmptyPool
    /\ calendar = {} /\ seen = {} /\ last_ts = 0
    /\ job = Idle
    /\ chain = <<>> /\ height = 0 /\ clears = 0
    /\ straddled = FALSE

\* accounts_t::get_balance
Total(accs) == SumFunction([a \in DOMAIN accs |-> accs[a].box])

SumOf(items) == SumFunction([i \in DOMAIN items |-> items[i].amount])

-----------------------------------------------------------------------------
(***************************************************************************)
(* Txs on their way to the pool.                                           *)
(***************************************************************************)

\* tx::check: the fee, or -1 when some amount is not positive.
Check(t) ==
    IF \E i \in DOMAIN t.inputs : t.inputs[i].amount <= 0 THEN -1
    ELSE IF \E i \in DOMAIN t.outputs : t.outputs[i].amount <= 0 THEN -1
    ELSE SumOf(t.inputs) - SumOf(t.outputs)

BasicCheck(t) == policies >= 0 /\ Check(t) >= policies

\* inputs_t::write, outputs_t::write: how many, and each of them.
WriteItems(items) == <<Len(items)>> \o items

\* tx::write: the words of a tx.
Write(t) == WriteItems(t.inputs) \o WriteItems(t.outputs) \o <<t.ts>>

\* A datagram carries the words of a tx, or only the first of them.
Payloads(t) == {SubSeq(Write(t), 1, n) : n \in 0..Len(Write(t))}

\* input_t::read, output_t::read: the stream is good when the word was there.
Good(w, i) == i \in DOMAIN w

\* inputs_t::read, outputs_t::read, from the i-th word on.  A number that is
\* not there is any number, and then something after it is missing too.
ReadItems(w, i) ==
    IF /\ Good(w, i) /\ w[i] <= MaxItems
       /\ \A k \in 1..w[i] : Good(w, i + k)
    THEN [err |-> FALSE, items |-> SubSeq(w, i + 1, i + w[i])]
    ELSE [err |-> TRUE]

ReadInputs(w) == ReadItems(w, 1)

ReadOutputs(w, inputs) == ReadItems(w, Len(inputs) + 2)

\* tx::read, from_b58
Read(w) ==
    LET ins  == ReadInputs(w)
        outs == ReadOutputs(w, ins.items)
        at   == Len(ins.items) + Len(outs.items) + 3
    IN  IF ins.err \/ outs.err \/ ~Good(w, at) THEN [err |-> TRUE]
        ELSE [err |-> FALSE, tx |-> [ts |-> w[at], inputs |-> ins.items, outputs |-> outs.items]]

\* parse_evidence, and the calendar that the engine puts the tx in.
ParseEvidence(t) ==
    /\ t \notin seen
    /\ \E w \in Payloads(t) :
         LET r == Read(w) IN
         /\ ~r.err /\ BasicCheck(r.tx)
         /\ calendar' = calendar \cup {r.tx} /\ seen' = seen \cup {r.tx}
    /\ UNCHANGED <<db, policies_local, pool, last_ts, job, chain, height, clears, straddled>>

Pending == height < Len(chain)

AddrsOf(t) == {t.inputs[i].addr : i \in DOMAIN t.inputs} \cup
              {t.outputs[i].addr : i \in DOMAIN t.outputs}

\* Accounts that the blocks still to be imported change.
InFlight ==
    UNION {{l[1] : l \in chain[k].file.delta.g.accounts} \cup {w[1] : w \in chain[k].file.pow} : k \in (height+1)..Len(chain)}

\* evidence_processor takes the first tx of the calendar, unless it is older
\* than one it has processed.
BeginProcess(t) ==
    /\ job = Idle
    /\ t \in calendar
    /\ \A u \in calendar : t.ts <= u.ts
    /\ calendar' = calendar \ {t}
    /\ IF t.ts < last_ts THEN UNCHANGED <<last_ts, job, straddled>>
       ELSE /\ straddled' = (straddled \/ AddrsOf(t) \cap InFlight # {})
            /\ last_ts' = t.ts
            /\ job' = [tx |-> t, at |-> 1, batch |-> NoAccounts]
    /\ UNCHANGED <<db, policies_local, pool, seen, chain, height, clears>>

\* account_state: what the tx has changed already, else the pool, else db.
AccountState == Over(job.batch, Over(pool.accounts, accounts))

\* input_t::write_sigmsg, output_t::write_sigmsg
InputSigMsg(i) == [addr |-> i.addr, amount |-> i.amount]

OutputSigMsg(o) == [addr |-> o.addr, amount |-> o.amount, program |-> o.program]

\* inputs_t::write_sigmsg: none and this are the same.
InputsSigMsg(inputs, k, code) ==
    {<<j, InputSigMsg(inputs[j])>> : j \in IF code = "all" THEN DOMAIN inputs ELSE {k}}

\* outputs_t::write_sigmsg: nothing when there is no k-th output.
OutputsSigMsg(outputs, k, code) ==
    {<<j, OutputSigMsg(outputs[j])>> : j \in CASE code = "all" -> DOMAIN outputs
                                              [] code = "this" -> DOMAIN outputs \cap {k}
                                              [] OTHER -> {}}

\* tx::write_sigmsg: the parts of a tx that the signature of input k covers.
SigMsg(t, k, codes) ==
    [inputs  |-> InputsSigMsg(t.inputs, k, codes[1]),
     outputs |-> OutputsSigMsg(t.outputs, k, codes[2]),
     ts      |-> t.ts]

\* Mutant: the message that was signed is not looked at.
Mut_CheckInput(addr, t, k) == t.inputs[k].by = addr

\* p2pkh::check_input
CheckInput(addr, t, k) ==
    t.inputs[k].by = addr /\ t.inputs[k].msg = SigMsg(t, k, t.inputs[k].codes)

\* unlock: the outcomes for an input.  Program 0 opens to everybody, 1 is
\* p2pkh; any other is run as a child process, which may do either.
Unlock(program, addr, t, k) ==
    CASE program = 0 -> {TRUE}
      [] program = 1 -> {CheckInput(addr, t, k)}
      [] OTHER -> {TRUE, FALSE}

NumItems(t) == Len(t.inputs) + Len(t.outputs)

Batched(addr, acc) ==
    job' = [job EXCEPT !.at = @ + 1, !.batch = Over(Single(addr, acc), @)]

Reject == job' = Idle

ProcessInput ==
    /\ job.at \in 1..Len(job.tx.inputs)
    /\ LET i == job.tx.inputs[job.at] IN
       \/ i.addr \notin DOMAIN AccountState /\ Reject
       \/ /\ i.addr \in DOMAIN AccountState
          /\ LET state == AccountState[i.addr] IN
             \E opens \in Unlock(state.program, i.addr, job.tx, job.at) :
                IF opens THEN Batched(i.addr, [state EXCEPT !.box = @ - i.amount])
                         ELSE Reject
    /\ UNCHANGED <<db, policies_local, pool, calendar, seen, last_ts, chain, height, clears, straddled>>

ProcessOutput ==
    /\ job.at \in (Len(job.tx.inputs) + 1)..NumItems(job.tx)
    /\ LET o == job.tx.outputs[job.at - Len(job.tx.inputs)] IN
       \/ /\ o.addr \notin DOMAIN AccountState
          /\ Batched(o.addr, [program |-> o.program, box |-> o.amount])
       \/ /\ o.addr \in DOMAIN AccountState
          /\ LET state == AccountState[o.addr] IN
             IF state.box # 0 /\ state.program # o.program THEN Reject
             ELSE Batched(o.addr, [state EXCEPT !.box = @ + o.amount])
    /\ UNCHANGED <<db, policies_local, pool, calendar, seen, last_ts, chain, height, clears, straddled>>

\* The two writes to what is the pool at that moment: the fees ...
CommitFees ==
    /\ job # Idle /\ job.at = NumItems(job.tx) + 1
    /\ pool' = [pool EXCEPT !.fees = @ + Check(job.tx)]
    /\ job' = [job EXCEPT !.at = @ + 1]
    /\ UNCHANGED <<db, policies_local, calendar, seen, last_ts, chain, height, clears, straddled>>

\* ... and the accounts.
CommitAccounts ==
    /\ job # Idle /\ job.at = NumItems(job.tx) + 2
    /\ pool' = [pool EXCEPT !.accounts = Over(job.batch, @), !.txs = @ \cup {job.tx}]
    /\ job' = Idle
    /\ UNCHANGED <<db, policies_local, calendar, seen, last_ts, chain, height, clears, straddled>>

\* Shell command p: the operator's vote on the policies.
SetPolicy(v) ==
    /\ v # policies_local
    /\ policies_local' = v
    /\ UNCHANGED <<db, pool, calendar, seen, last_ts, job, chain, height, clears, straddled>>

-----------------------------------------------------------------------------
(***************************************************************************)
(* The main loop.                                                          *)
(***************************************************************************)

\* accounts_t::to_stream, account_t::to_stream: a line for every account.
WriteAccounts(accs) == {<<a, accs[a].program, accs[a].box>> : a \in DOMAIN accs}

\* account_t::from_stream, accounts_t::from_stream
ReadAccount(line) == [program |-> line[2], box |-> line[3]]

ReadAccounts(lines) ==
    [a \in {l[1] : l \in lines} |-> ReadAccount(CHOOSE l \in lines : l[1] = a)]

\* local_delta::to_stream, from_stream.  The policies are written too, and
\* not used: a block has those of all nodes.
WriteLocalDelta(d) ==
    [accounts |-> WriteAccounts(d.accounts), fees |-> d.fees, txs |-> d.txs]

ReadLocalDelta(d) == [d EXCEPT !.accounts = ReadAccounts(@)]

\* local_delta::compute_hash; the policies are left out.
Hash(d) == <<WriteAccounts(d.accounts), d.fees>>

\* majority_merger::merge: what the map takes for one key.  A local_delta
\* has the == of the array of its policies.
SameKey(d, e) == Hash(d) = Hash(e) /\ d.min_fee = e.min_fee

Count(made, d) == Cardinality({w \in DOMAIN made : SameKey(made[w], d)})

\* majority_merger::end_merge: a delta made most often; which one of several
\* depends on the hash table.
Majority(made) == {d \in Range(made) : \A e \in Range(made) : Count(made, d) >= Count(made, e)}

\* average_merger: the votes are added up, divided by their number, and cut
\* to an integer as basic_check does.
MergeVotes(made) == SumFunction([w \in DOMAIN made |-> made[w].min_fee])

Average(sum, multiplicity) == sum \div multiplicity

\* policies_delta: the policies of the block.
MergedPolicies(made) == Average(MergeVotes(made), Cardinality(DOMAIN made))

\* delta::merge of every local delta, and delta::end_merge.
Merged(made, elected) ==
    [g |-> elected, policies |-> MergedPolicies(made)]

\* delta::to_stream and from_stream
WriteDelta(d) == [g |-> WriteLocalDelta(d.g), policies |-> d.policies]

ReadDelta(file) == [g |-> ReadLocalDelta(file.g), policies |-> file.policies]

\* diff::allow: the proof of work has an entry for every node that is merged.
Allow(made) == [w \in DOMAIN made |-> 0]

\* diff::to_stream and from_stream; a block is known by its number.
WriteDiff(prev, d, pow) ==
    [prev |-> prev, delta |-> WriteDelta(d), pow |-> {<<w, pow[w]>> : w \in DOMAIN pow}]

ReadDiff(file) ==
    [prev |-> file.prev, delta |-> ReadDelta(file.delta),
     pow |-> [w \in {p[1] : p \in file.pow} |-> (CHOOSE p \in file.pow : p[1] = w)[2]]]

\* add_policies
AddPolicies(p, vote) == [p EXCEPT !.min_fee = vote]

\* The local deltas of this node and the others in ws, which made the
\* same as this one, or nothing, and vote as they like.
LocalDeltas(ws) ==
    {Over(Single(Self, AddPolicies(pool, policies_local)), others) :
        others \in [ws \ {Self} -> {AddPolicies(p, v) : p \in {pool, EmptyPool}, v \in OtherFees}]}

\* create_local_delta, and the block that is made of the deltas of all nodes
\* and saved.  Who will be paid the remainder depends on the hash of the
\* block before.
CreateLocalDelta(ws) ==
    /\ ~Pending /\ Len(chain) < MaxBlocks
    /\ straddled' = (straddled \/ job # Idle)
    /\ \E made \in LocalDeltas(ws), lucky \in ws : \E elected \in Majority(made) :
         chain' = Append(chain, [file |-> WriteDiff(Len(chain), Merged(made, elected), Allow(made)), lucky |-> lucky])
    /\ pool' = EmptyPool
    /\ UNCHANGED <<db, policies_local, calendar, seen, last_ts, job, height, clears>>

\* db_t::get_newcash
Newcash == IF supply_left >= block_reward THEN block_reward ELSE supply_left

\* accounts_t::pay: a new account is p2pkh, and nothing is paid when there is
\* nothing to pay.
Pay(accs, addr, amount) ==
    IF amount <= 0 THEN accs
    ELSE IF addr \in DOMAIN accs THEN [accs EXCEPT ![addr].box = @ + amount]
    ELSE Over(accs, Single(addr, [program |-> 1, box |-> amount]))

\* The accounts of the delta overwrite those of the database.
Overwrite(accs, delta) ==
    LET all == Over(delta, accs)
    IN  Restrict(all, {a \in DOMAIN all : a \in DOMAIN delta => delta[a].box # 0})

\* Mutant: what the division leaves is not paid.
Mut_Spread(accs, total, ws, lucky) ==
    LET share == total \div Cardinality(ws)
    IN  [a \in DOMAIN accs \cup (IF share <= 0 THEN {} ELSE ws)
           |-> Pay(accs, a, IF a \in ws THEN share ELSE 0)[a]]

\* Every worker is paid an equal share, cut to an integer, one of them what
\* is left as well.  (In double, a share that divides evenly may come out one
\* short when there are many workers; the remainder is larger then.)
SpreadOver(accs, total, ws, lucky) ==
    LET share == total \div Cardinality(ws)
        paid == [a \in DOMAIN accs \cup (IF share <= 0 THEN {} ELSE ws)
                   |-> Pay(accs, a, IF a \in ws THEN share ELSE 0)[a]]
    IN  Pay(paid, lucky, total - share * Cardinality(ws))

\* Mutant: every account is paid a share, worker or not.
Mut_SpreadAll(accs, total, ws, lucky) == SpreadOver(accs, total, DOMAIN accs \cup ws, lucky)

Spread(accs, total, ws, lucky) == SpreadOver(accs, total, ws, lucky)

\* import of the next block.
Import ==
    /\ Pending
    /\ LET block == ReadDiff(chain[height + 1].file)
           total == Newcash + block.delta.g.fees
       IN  /\ block.prev = height
           /\ policies' = block.delta.policies
           /\ supply_left' = supply_left - Newcash
           /\ block_reward' = Newcash
           /\ accounts' = Spread(Overwrite(accounts, block.delta.g.accounts), total, DOMAIN block.pow, chain[height + 1].lucky)
    /\ height' = height + 1
    /\ UNCHANGED <<policies_local, pool, calendar, seen, last_ts, job, chain, clears, straddled>>

\* Mutant: the supply is not restored.
Mut_Clear ==
    /\ clears < MaxClears
    /\ straddled' = (straddled \/ job # Idle)
    /\ accounts' = NoAccounts
    /\ block_reward' = Reward
    /\ policies' = 0
    /\ height' = 0 /\ clears' = clears + 1
    /\ UNCHANGED <<supply_left, policies_local, pool, calendar, seen, last_ts, job, chain>>

\* clear: back to genesis; the chain is imported again from its files.  The
\* pool stays.
Clear ==
    /\ clears < MaxClears
    /\ straddled' = (straddled \/ job # Idle)
    /\ accounts' = NoAccounts /\ supply_left' = Supply /\ block_reward' = Reward
    /\ policies' = NoPolicies
    /\ height' = 0 /\ clears' = clears + 1
    /\ UNCHANGED <<policies_local, pool, calendar, seen, last_ts, job, chain>>

-----------------------------------------------------------------------------
Next ==
    \/ \E t \in Txs : ParseEvidence(t) \/ BeginProcess(t)
    \/ ProcessInput \/ ProcessOutput \/ CommitFees \/ CommitAccounts
    \/ \E v \in MinFees : SetPolicy(v)
    \/ \E ws \in Workers : CreateLocalDelta(ws)
    \/ Import
    \/ Clear

Spec == Init /\ [][Next]_vars

-----------------------------------------------------------------------------
\* account_t
Account == [program : Nat, box : Int]

\* accounts_t
IsAccounts(accs) == accs \in [DOMAIN accs -> Account] /\ DOMAIN accs \subseteq Addrs

\* The types of the variables.
TypeOK ==
    /\ IsAccounts(accounts) /\ IsAccounts(pool.accounts) /\ IsAccounts(job.batch)
    /\ supply_left \in Nat /\ block_reward \in Nat
    /\ policies \in Int /\ policies_local \in Int
    /\ pool.fees \in Int /\ pool.txs \subseteq Txs
    /\ calendar \subseteq Txs /\ seen \subseteq Txs
    /\ job.tx \in Txs \cup {NoTx} /\ job.at \in Nat
    /\ \A k \in DOMAIN chain : {w[1] : w \in chain[k].file.pow} \in Workers
    /\ height \in 0..Len(chain) /\ Len(chain) <= MaxBlocks /\ clears \in 0..MaxClears
    /\ straddled \in BOOLEAN

\* get_newcash and clear: what is left of the supply follows from the number
\* of blocks imported, through the cut of the last reward, resets of the
\* database and the import of the same blocks again.
RewardSchedule ==
    /\ supply_left = IF height * Reward <= Supply THEN Supply - height * Reward ELSE 0
    /\ height * Reward <= Supply => block_reward = Reward

\* Addresses that no tx pays to under another program.
P2pkhOnly == {a \in Addrs : \A t \in Txs : \A j \in DOMAIN t.outputs :
                  t.outputs[j].addr = a => t.outputs[j].program = 1}

AppliedTxs == pool.txs \cup UNION {chain[k].file.delta.g.txs : k \in DOMAIN chain}

\* p2pkh and write_sigmsg: what was signed with sigcode_all is applied as it
\* was signed, never with other inputs, outputs or at another time.
AppliedAsSigned ==
    \A t \in AppliedTxs : \A k \in DOMAIN t.inputs :
        LET i == t.inputs[k]
        IN  i.addr \in P2pkhOnly /\ i.codes = <<"all", "all">> =>
                i.by = i.addr /\ i.msg = SigMsg(t, k, i.codes)

\* process, create_local_delta and import together: the balances and the
\* supply left add up to the 21e14 of db_t::clear, although txs are applied
\* as absolute balances read at some earlier time, as long as no tx has
\* straddled stage3, a reset, or a block that changes its accounts.
Conserved ==
    /\ TypeOK
    /\ ~straddled => Total(accounts) + supply_left = Supply

\* What the txs take from and give to an address.
Net(txs, a) ==
    LET from(t) == {i \in DOMAIN t.inputs : t.inputs[i].addr = a}
        to(t)   == {i \in DOMAIN t.outputs : t.outputs[i].addr = a}
        net(t)  == SumFunction([i \in to(t) |-> t.outputs[i].amount]) -
                   SumFunction([i \in from(t) |-> t.inputs[i].amount])
    IN  SumFunction([t \in txs |-> net(t)])

Balance(accs, a) == IF a \in DOMAIN accs THEN accs[a].box ELSE 0

\* A block changes the balance of everybody who is not rewarded by what the
\* txs processed in its cycle say: none of them is lost, none applied twice
\* or in two blocks, none in part, as long as none has straddled.
BlockAppliesItsTxs ==
    [][~straddled /\ height' = height + 1 =>
         LET block == ReadDiff(chain[height'].file) IN
         \A a \in Addrs : LET diff == Balance(accounts', a) - Balance(accounts, a) - Net(block.delta.g.txs, a)
                          IN  IF a \in DOMAIN block.pow THEN diff >= 0 ELSE diff = 0]_vars
=============================================================================
