----------------------------- MODULE Cash_proofs -----------------------------
(***************************************************************************)
(* Proofs about Cash, for any addresses, txs, workers, supply and reward   *)
(* and any number of blocks and resets:                                    *)
(*   - what the blocks take from the supply (OnSchedule);                  *)
(*   - what was signed is what is applied, whether or not a tx straddled   *)
(*     stage3, a reset or a block (SignedOnly);                            *)
(*   - until one does, no cash is made or lost (CashConserved), and a      *)
(*     block changes the balances by what its txs say                      *)
(*     (BlocksApplyTheirTxs).                                              *)
(***************************************************************************)
EXTENDS Cash, SequenceTheorems, FiniteSetTheorems, TLAPS

\* The schedule, with what it does not say of a reward that was cut: it is
\* never below zero, so that the supply does not grow again.
ScheduleOK ==
    /\ height \in Nat /\ block_reward \in Nat
    /\ \/ /\ height * Reward <= Supply
          /\ supply_left = Supply - height * Reward
          /\ block_reward = Reward
       \/ /\ height * Reward > Supply
          /\ supply_left = 0

\* One more block at the full reward.
LEMMA NextReward ==
    ASSUME NEW h \in Nat, NEW r \in Nat
    PROVE  h * r \in Nat /\ (h + 1) * r = h * r + r
  OBVIOUS

\* Every step keeps the schedule.
LEMMA ScheduleStep ==
    ASSUME ScheduleOK, [Next]_vars
    PROVE  ScheduleOK'
<1> USE SupplyAssumption
<1>1. CASE Import
  <2>1. /\ height' = height + 1
        /\ supply_left' = supply_left - Newcash /\ block_reward' = Newcash
    BY <1>1 DEF Import
  <2>2. height \in Nat /\ height * Reward \in Nat /\ (height + 1) * Reward = height * Reward + Reward
    BY NextReward DEF ScheduleOK
  <2> DEFINE done == height * Reward
             next == (height + 1) * Reward
  <2> HIDE DEF done, next
  <2>3. done \in Nat /\ next = done + Reward
    BY <2>2 DEF done, next
  <2>4. CASE done <= Supply /\ supply_left = Supply - done /\ block_reward = Reward
    <3>1. CASE next <= Supply
      <4>1. Newcash = Reward
        BY <2>3, <2>4, <3>1 DEF Newcash
      <4>2. supply_left' = Supply - next /\ block_reward' = Reward
        BY <2>1, <2>3, <2>4, <4>1
      <4> QED BY <2>1, <2>2, <3>1, <4>2 DEF ScheduleOK, next
    <3>2. CASE next > Supply
      <4>1. Newcash = supply_left /\ supply_left \in Nat
        BY <2>3, <2>4, <3>2 DEF Newcash
      <4>2. supply_left' = 0 /\ block_reward' \in Nat
        BY <2>1, <4>1
      <4> QED BY <2>1, <2>2, <3>2, <4>2 DEF ScheduleOK, next
    <3> QED BY <2>3, <3>1, <3>2
  <2>5. CASE done > Supply /\ supply_left = 0
    <3>1. Newcash = 0
      BY <2>5 DEF Newcash, ScheduleOK
    <3>2. next > Supply
      BY <2>3, <2>5
    <3> QED BY <2>1, <2>2, <2>5, <3>1, <3>2 DEF ScheduleOK, next
  <2> QED BY <2>4, <2>5 DEF ScheduleOK, done
<1>2. CASE Clear
  <2>1. height' = 0 /\ supply_left' = Supply /\ block_reward' = Reward
    BY <1>2 DEF Clear
  <2>2. 0 * Reward = 0
    OBVIOUS
  <2> QED BY <2>1, <2>2 DEF ScheduleOK
<1>3. CASE UNCHANGED <<supply_left, block_reward, height>>
  BY <1>3 DEF ScheduleOK
<1> QED
  BY <1>1, <1>2, <1>3 DEF Next, vars, db, ParseEvidence, BeginProcess, ProcessInput, ProcessOutput,
     CommitFees, CommitAccounts, SetPolicy, CreateLocalDelta

\* What is left of the supply follows from the number of blocks imported, for
\* any supply and reward, through the cut of the last reward and any number of
\* resets (db_t::get_newcash, app::import, app::clear).
THEOREM OnSchedule == Spec => []RewardSchedule
<1>1. Init => ScheduleOK
  <2>1. 0 * Reward = 0
    BY SupplyAssumption
  <2> QED BY <2>1, SupplyAssumption DEF Init, Genesis, ScheduleOK
<1>2. ScheduleOK /\ [Next]_vars => ScheduleOK'
  BY ScheduleStep
<1>3. ScheduleOK => RewardSchedule
  <2> SUFFICES ASSUME ScheduleOK PROVE RewardSchedule
    OBVIOUS
  <2> DEFINE done == height * Reward
  <2>1. done \in Nat
    BY NextReward, SupplyAssumption DEF ScheduleOK
  <2>2. \/ done <= Supply /\ supply_left = Supply - done /\ block_reward = Reward
        \/ done > Supply /\ supply_left = 0
    BY DEF ScheduleOK
  <2> HIDE DEF done
  <2>3. /\ supply_left = IF done <= Supply THEN Supply - done ELSE 0
        /\ done <= Supply => block_reward = Reward
    BY <2>1, <2>2, SupplyAssumption
  <2> QED BY <2>3 DEF RewardSchedule, done
<1> QED BY <1>1, <1>2, <1>3, PTL DEF Spec

-----------------------------------------------------------------------------
(***************************************************************************)
(* What was signed is what is applied.  An account of P2pkhOnly has        *)
(* program 1 wherever it is kept: in the database, the pool, the batch of  *)
(* the tx in process and the files of the chain.  So unlock runs           *)
(* p2pkh::check_input on every input of it, before the tx can reach the    *)
(* pool.                                                                   *)
(***************************************************************************)

\* What AppliedAsSigned says of an input.
InputAsSigned(t, k) ==
    LET i == t.inputs[k]
    IN  i.addr \in P2pkhOnly /\ i.codes = <<"all", "all">> =>
            i.by = i.addr /\ i.msg = SigMsg(t, k, i.codes)

AsSigned(t) == \A k \in DOMAIN t.inputs : InputAsSigned(t, k)

\* No account of P2pkhOnly has another program.
Locked(accs) ==
    \A x \in DOMAIN accs : /\ accs[x] = [program |-> accs[x].program, box |-> accs[x].box]
                           /\ x \in P2pkhOnly => accs[x].program = 1

\* The same of the lines of a file.
LockedLines(lines) == \A l \in lines : l[1] \in P2pkhOnly => l[2] = 1

PoolOK ==
    /\ pool = [accounts |-> pool.accounts, fees |-> pool.fees, min_fee |-> pool.min_fee, txs |-> pool.txs]
    /\ Locked(pool.accounts) /\ \A t \in pool.txs : AsSigned(t)

\* A tx in process: its inputs up to the next item are as signed.
IsJob(j) ==
    /\ j = [tx |-> j.tx, at |-> j.at, batch |-> j.batch]
    /\ j.tx \in Txs \cup {NoTx} /\ j.at \in Nat
    /\ Locked(j.batch)
    /\ \A k \in DOMAIN j.tx.inputs : k < j.at => InputAsSigned(j.tx, k)

BlockOK(b) ==
    LET g == b.file.delta.g
    IN  /\ g = [accounts |-> g.accounts, fees |-> g.fees, txs |-> g.txs]
        /\ LockedLines(g.accounts) /\ \A t \in g.txs : AsSigned(t)

ChainOK == chain \in Seq(Range(chain)) /\ \A k \in DOMAIN chain : BlockOK(chain[k])

SignedInv ==
    /\ height \in Nat /\ calendar \subseteq Txs
    /\ Locked(accounts) /\ PoolOK /\ IsJob(job) /\ ChainOK

\* The types of a tx.
LEMMA TxIs ==
    ASSUME NEW t \in Txs
    PROVE  /\ t = [ts |-> t.ts, inputs |-> t.inputs, outputs |-> t.outputs]
           /\ t.inputs \in Seq(Range(t.inputs)) /\ t.outputs \in Seq(Range(t.outputs))
           /\ \A k \in DOMAIN t.outputs : t.outputs[k].addr \in P2pkhOnly => t.outputs[k].program = 1
BY TxsAssumption DEF IsTx, P2pkhOnly

\* Where the items of two sequences are when one is put after the other.
LEMMA Joined ==
    ASSUME NEW S, NEW s1 \in Seq(S), NEW s2 \in Seq(S)
    PROVE  /\ s1 \o s2 \in Seq(S) /\ Len(s1 \o s2) = Len(s1) + Len(s2)
           /\ \A k \in 1..Len(s1) : (s1 \o s2)[k] = s1[k]
           /\ \A k \in 1..Len(s2) : (s1 \o s2)[Len(s1) + k] = s2[k]
<1>1. /\ s1 \o s2 \in Seq(S) /\ Len(s1 \o s2) = Len(s1) + Len(s2)
      /\ \A i \in 1..(Len(s1) + Len(s2)) : (s1 \o s2)[i] = IF i <= Len(s1) THEN s1[i] ELSE s2[i - Len(s1)]
  BY ConcatProperties
<1>2. Len(s1) \in Nat /\ Len(s2) \in Nat
  OBVIOUS
<1>3. ASSUME NEW k \in 1..Len(s1) PROVE (s1 \o s2)[k] = s1[k]
  BY <1>1, <1>2
<1>4. ASSUME NEW k \in 1..Len(s2) PROVE (s1 \o s2)[Len(s1) + k] = s2[k]
  <2> DEFINE i == Len(s1) + k
  <2>1. i \in 1..(Len(s1) + Len(s2)) /\ ~(i <= Len(s1)) /\ i - Len(s1) = k
    BY <1>2
  <2> HIDE DEF i
  <2>2. (s1 \o s2)[i] = s2[i - Len(s1)]
    BY <1>1, <2>1
  <2> QED BY <2>1, <2>2 DEF i
<1> QED BY <1>1, <1>3, <1>4

\* inputs_t::write and outputs_t::write put the number before the items.
LEMMA WrittenItems ==
    ASSUME NEW S, NEW s \in Seq(S)
    PROVE  /\ WriteItems(s) \in Seq(S \cup Nat) /\ Len(WriteItems(s)) = Len(s) + 1
           /\ WriteItems(s)[1] = Len(s)
           /\ \A k \in 1..Len(s) : WriteItems(s)[k + 1] = s[k]
<1>1. <<Len(s)>> \in Seq(S \cup Nat) /\ s \in Seq(S \cup Nat) /\ Len(<<Len(s)>>) = 1 /\ <<Len(s)>>[1] = Len(s)
  OBVIOUS
<1>2. Len(s) \in Nat
  OBVIOUS
<1> QED BY <1>1, <1>2, ConcatProperties DEF WriteItems

\* tx::write: where each word of a tx is.
LEMMA WrittenTx ==
    ASSUME NEW t \in Txs
    PROVE  LET n == Len(t.inputs)
               m == Len(t.outputs)
           IN  /\ n \in Nat /\ m \in Nat
               /\ \E S : Write(t) \in Seq(S)
               /\ Len(Write(t)) = n + m + 3
               /\ Write(t)[1] = n /\ \A k \in 1..n : Write(t)[k + 1] = t.inputs[k]
               /\ Write(t)[n + 2] = m /\ \A k \in 1..m : Write(t)[n + 2 + k] = t.outputs[k]
               /\ Write(t)[n + m + 3] = t.ts
<1> DEFINE n == Len(t.inputs)
           m == Len(t.outputs)
           I == Range(t.inputs)
           O == Range(t.outputs)
           T == I \cup O \cup Nat \cup {t.ts}
           w1 == WriteItems(t.inputs)
           w2 == WriteItems(t.outputs)
<1>1. /\ w1 \in Seq(I \cup Nat) /\ Len(w1) = n + 1 /\ w1[1] = n
      /\ \A k \in 1..n : w1[k + 1] = t.inputs[k]
  <2>1. t.inputs \in Seq(I)
    BY TxIs
  <2> QED BY <2>1, WrittenItems
<1>2. /\ w2 \in Seq(O \cup Nat) /\ Len(w2) = m + 1 /\ w2[1] = m
      /\ \A k \in 1..m : w2[k + 1] = t.outputs[k]
  <2>1. t.outputs \in Seq(O)
    BY TxIs
  <2> QED BY <2>1, WrittenItems
<1>3. n \in Nat /\ m \in Nat
  BY TxIs
<1>4. w1 \in Seq(T) /\ w2 \in Seq(T) /\ <<t.ts>> \in Seq(T) /\ Len(<<t.ts>>) = 1 /\ <<t.ts>>[1] = t.ts
  BY <1>1, <1>2
<1> DEFINE w3 == <<t.ts>>
<1>5. Write(t) = (w1 \o w2) \o w3
  BY DEF Write
<1> HIDE DEF w1, w2, w3, n, m, T, I, O
<1>6. w3 \in Seq(T) /\ Len(w3) = 1 /\ w3[1] = t.ts
  BY <1>4 DEF w3
<1>7. /\ w1 \o w2 \in Seq(T) /\ Len(w1 \o w2) = n + m + 2
      /\ \A k \in 1..(n + 1) : (w1 \o w2)[k] = w1[k]
      /\ \A k \in 1..(m + 1) : (w1 \o w2)[n + 1 + k] = w2[k]
  <2>1. /\ w1 \o w2 \in Seq(T) /\ Len(w1 \o w2) = Len(w1) + Len(w2)
        /\ \A k \in 1..Len(w1) : (w1 \o w2)[k] = w1[k]
        /\ \A k \in 1..Len(w2) : (w1 \o w2)[Len(w1) + k] = w2[k]
    <3>1. w1 \in Seq(T) /\ w2 \in Seq(T)
      BY <1>4
    <3> QED BY ONLY <3>1, Joined
  <2> DEFINE w == w1 \o w2
  <2> HIDE DEF w
  <2>2. /\ w \in Seq(T) /\ Len(w) = Len(w1) + Len(w2)
        /\ \A k \in 1..Len(w1) : w[k] = w1[k]
        /\ \A k \in 1..Len(w2) : w[Len(w1) + k] = w2[k]
    BY <2>1 DEF w
  <2>3. /\ w \in Seq(T) /\ Len(w) = n + m + 2
        /\ \A k \in 1..(n + 1) : w[k] = w1[k]
        /\ \A k \in 1..(m + 1) : w[n + 1 + k] = w2[k]
    BY <1>1, <1>2, <1>3, <2>2
  <2> QED BY <2>3 DEF w
<1>8. /\ Write(t) \in Seq(T) /\ Len(Write(t)) = n + m + 3
      /\ \A k \in 1..(n + m + 2) : Write(t)[k] = (w1 \o w2)[k]
      /\ Write(t)[n + m + 3] = w3[1]
  <2> DEFINE w == w1 \o w2
  <2>1. w \in Seq(T) /\ Len(w) = n + m + 2
    BY <1>7
  <2>2. Write(t) = w \o w3
    BY <1>5
  <2> HIDE DEF w
  <2>3. /\ w \o w3 \in Seq(T) /\ Len(w \o w3) = Len(w) + Len(w3)
        /\ \A k \in 1..Len(w) : (w \o w3)[k] = w[k]
        /\ \A k \in 1..Len(w3) : (w \o w3)[Len(w) + k] = w3[k]
    <3>1. w \in Seq(T) /\ w3 \in Seq(T)
      BY <1>6, <2>1
    <3> QED BY ONLY <3>1, Joined
  <2>4. (w \o w3)[n + m + 2 + 1] = w3[1] /\ n + m + 2 + 1 = n + m + 3
    <3>1. 1 \in 1..Len(w3)
      BY <1>6
    <3> QED BY <1>3, <2>1, <2>3, <3>1
  <2>5. Len(w \o w3) = n + m + 3
    BY <1>3, <1>6, <2>1, <2>3
  <2>6. /\ Write(t) \in Seq(T) /\ Len(Write(t)) = n + m + 3
        /\ \A k \in 1..(n + m + 2) : Write(t)[k] = w[k]
        /\ Write(t)[n + m + 3] = w3[1]
    BY <1>3, <2>1, <2>2, <2>3, <2>4, <2>5
  <2> QED BY <2>6 DEF w
<1>9. Write(t)[1] = n /\ \A k \in 1..n : Write(t)[k + 1] = t.inputs[k]
  <2>1. 1 \in 1..(n + 1) /\ 1 \in 1..(n + m + 2) /\ \A k \in 1..n : k + 1 \in 1..(n + 1) /\ k + 1 \in 1..(n + m + 2)
    BY <1>3
  <2> QED BY <1>1, <1>7, <1>8, <2>1
<1>10. Write(t)[n + 2] = m /\ \A k \in 1..m : Write(t)[n + 2 + k] = t.outputs[k]
  <2>1. 1 \in 1..(m + 1) /\ n + 1 + 1 = n + 2 /\ n + 2 \in 1..(n + m + 2)
    BY <1>3
  <2>2. \A k \in 1..m : k + 1 \in 1..(m + 1) /\ n + 1 + (k + 1) = n + 2 + k /\ n + 2 + k \in 1..(n + m + 2)
    BY <1>3
  <2>3. Write(t)[n + 2] = (w1 \o w2)[n + 1 + 1] /\ (w1 \o w2)[n + 1 + 1] = w2[1]
    BY <1>7, <1>8, <2>1
  <2>4. ASSUME NEW k \in 1..m PROVE Write(t)[n + 2 + k] = w2[k + 1]
    <3>1. Write(t)[n + 2 + k] = (w1 \o w2)[n + 1 + (k + 1)]
      BY <1>8, <2>2
    <3>2. (w1 \o w2)[n + 1 + (k + 1)] = w2[k + 1]
      BY <1>7, <2>2
    <3> QED BY <3>1, <3>2
  <2> QED BY <1>2, <2>3, <2>4
<1> QED BY <1>3, <1>6, <1>8, <1>9, <1>10 DEF n, m

\* A part of a sequence that holds the items of another one is that one.
LEMMA PartIs ==
    ASSUME NEW S, NEW s \in Seq(S), NEW w, NEW i \in Nat,
           \A k \in 1..Len(s) : w[i + k] = s[k]
    PROVE  SubSeq(w, i + 1, i + Len(s)) = s
<1> DEFINE n == Len(s)
           r == SubSeq(w, i + 1, i + n)
<1>1. n \in Nat /\ \A k \in 1..n : s[k] \in S
  OBVIOUS
<1>2. \A j \in (i + 1)..(i + n) : w[j] \in S
  <2> SUFFICES ASSUME NEW j \in (i + 1)..(i + n) PROVE w[j] \in S
    OBVIOUS
  <2>1. j - i \in 1..n /\ i + (j - i) = j
    BY <1>1
  <2>2. w[i + (j - i)] = s[j - i]
    BY <2>1
  <2> QED BY <1>1, <2>1, <2>2
<1>3. /\ r \in Seq(S)
      /\ Len(r) = IF i + 1 <= i + n THEN (i + n) - (i + 1) + 1 ELSE 0
      /\ \A k \in 1..((i + n) - (i + 1) + 1) : r[k] = w[(i + 1) + k - 1]
  <2>1. i + 1 \in Int /\ i + n \in Int
    BY <1>1
  <2> QED BY ONLY <1>2, <2>1, SubSeqProperties
<1> HIDE DEF r
<1>4. Len(r) = n
  BY <1>1, <1>3
<1>5. ASSUME NEW k \in 1..n PROVE r[k] = s[k]
  <2>1. k \in 1..((i + n) - (i + 1) + 1) /\ (i + 1) + k - 1 = i + k
    BY <1>1
  <2> QED BY <1>3, <2>1
<1>6. r = s
  BY <1>3, <1>4, <1>5, SeqEqual
<1> QED BY <1>6 DEF r

\* tx::read and tx::write: what is read from the words of a tx, or from the
\* first of them only, is that tx, or nothing.
LEMMA ReadsWhatWasWritten ==
    ASSUME NEW t \in Txs, NEW w \in Payloads(t), ~Read(w).err
    PROVE  Read(w).tx = t
<1> DEFINE n == Len(t.inputs)
           m == Len(t.outputs)
<1>1. /\ n \in Nat /\ m \in Nat
      /\ Len(Write(t)) = n + m + 3
      /\ Write(t)[1] = n /\ \A k \in 1..n : Write(t)[k + 1] = t.inputs[k]
      /\ Write(t)[n + 2] = m /\ \A k \in 1..m : Write(t)[n + 2 + k] = t.outputs[k]
      /\ Write(t)[n + m + 3] = t.ts
  BY WrittenTx
<1>2. PICK S : Write(t) \in Seq(S)
  BY WrittenTx
<1>3. PICK z \in 0..Len(Write(t)) : w = SubSeq(Write(t), 1, z)
  BY DEF Payloads
<1>4. DOMAIN w = 1..z /\ \A i \in 1..z : w[i] = Write(t)[i]
  BY <1>1, <1>2, <1>3
<1> DEFINE ins == ReadInputs(w)
           outs == ReadOutputs(w, ins.items)
           at == Len(ins.items) + Len(outs.items) + 3
<1>5. ~ins.err /\ ~outs.err /\ Good(w, at) /\ Read(w).tx = [ts |-> w[at], inputs |-> ins.items, outputs |-> outs.items]
  BY DEF Read
<1>6. ins.items = t.inputs
  <2>1. /\ Good(w, 1) /\ (\A k \in 1..w[1] : Good(w, 1 + k))
        /\ ins.items = SubSeq(w, 1 + 1, 1 + w[1])
    BY <1>5 DEF ReadInputs, ReadItems
  <2>2. w[1] = n
    BY <1>1, <1>4, <2>1 DEF Good
  <2>3. \A k \in 1..n : w[1 + k] = t.inputs[k]
    <3> SUFFICES ASSUME NEW k \in 1..n PROVE w[1 + k] = t.inputs[k]
      OBVIOUS
    <3>1. 1 + k \in 1..z
      BY <1>4, <2>1, <2>2 DEF Good
    <3>2. w[1 + k] = Write(t)[1 + k] /\ 1 + k = k + 1
      BY <1>4, <3>1
    <3> QED BY <1>1, <3>2
  <2>4. SubSeq(w, 1 + 1, 1 + n) = t.inputs
    <3>1. t.inputs \in Seq(Range(t.inputs)) /\ 1 \in Nat /\ \A k \in 1..Len(t.inputs) : w[1 + k] = t.inputs[k]
      BY <2>3, TxIs
    <3> QED BY <3>1, PartIs
  <2> QED BY <2>1, <2>2, <2>4
<1>7. outs.items = t.outputs
  <2>1. outs = ReadItems(w, n + 2)
    <3>1. outs = ReadItems(w, Len(ins.items) + 2)
      BY DEF ReadOutputs
    <3> HIDE DEF ins, outs
    <3> QED BY <1>6, <3>1
  <2>2. /\ Good(w, n + 2) /\ (\A k \in 1..w[n + 2] : Good(w, n + 2 + k))
        /\ outs.items = SubSeq(w, n + 2 + 1, n + 2 + w[n + 2])
    <3>1. ~outs.err
      BY <1>5
    <3> HIDE DEF outs, n
    <3> QED BY <2>1, <3>1 DEF ReadItems
  <2>3. w[n + 2] = m
    BY <1>1, <1>4, <2>2 DEF Good
  <2>4. \A k \in 1..m : w[n + 2 + k] = t.outputs[k]
    BY <1>1, <1>4, <2>2, <2>3 DEF Good
  <2>5. SubSeq(w, (n + 2) + 1, (n + 2) + m) = t.outputs
    <3>1. n + 2 \in Nat
      BY <1>1
    <3>2. t.outputs \in Seq(Range(t.outputs))
      BY TxIs
    <3> DEFINE i == n + 2
    <3>3. i \in Nat /\ \A k \in 1..Len(t.outputs) : w[i + k] = t.outputs[k]
      BY <2>4, <3>1
    <3> HIDE DEF i
    <3>4. SubSeq(w, i + 1, i + Len(t.outputs)) = t.outputs
      BY <3>2, <3>3, PartIs
    <3> QED BY <3>4 DEF i
  <2> QED BY <2>2, <2>3, <2>5
<1>8. w[at] = t.ts
  BY <1>1, <1>4, <1>5, <1>6, <1>7 DEF Good
<1> QED BY <1>5, <1>6, <1>7, <1>8, TxIs

-----------------------------------------------------------------------------
\* The accounts stay locked.

\* Entries of one map over those of another.
LEMMA OverLocked ==
    ASSUME NEW f, NEW g, Locked(f), Locked(g)
    PROVE  Locked(Over(f, g))
BY DEF Over, Locked

LEMMA SingleLocked ==
    ASSUME NEW x, NEW v, v = [program |-> v.program, box |-> v.box],
           x \in P2pkhOnly => v.program = 1
    PROVE  Locked(Single(x, v))
BY DEF Single, Locked

\* A change of the balance leaves the program.
LEMMA BoxLocked ==
    ASSUME NEW accs, Locked(accs), NEW x \in DOMAIN accs, NEW v
    PROVE  /\ [accs[x] EXCEPT !.box = v] = [program |-> accs[x].program, box |-> v]
           /\ x \in P2pkhOnly => accs[x].program = 1
BY DEF Locked

\* accounts_t::pay: a new account is p2pkh.
LEMMA PayLocked ==
    ASSUME NEW accs, Locked(accs), NEW x, NEW v
    PROVE  /\ Locked(Pay(accs, x, v))
           /\ DOMAIN Pay(accs, x, v) = DOMAIN accs \cup (IF v <= 0 THEN {} ELSE {x})
<1>1. CASE v <= 0
  BY <1>1 DEF Pay
<1>2. CASE ~(v <= 0) /\ x \in DOMAIN accs
  <2>1. Pay(accs, x, v) = [accs EXCEPT ![x] = [accs[x] EXCEPT !.box = accs[x].box + v]]
    BY <1>2 DEF Pay
  <2>2. [accs[x] EXCEPT !.box = accs[x].box + v] = [program |-> accs[x].program, box |-> accs[x].box + v]
    BY <1>2, BoxLocked
  <2> QED BY <1>2, <2>1, <2>2 DEF Locked
<1>3. CASE ~(v <= 0) /\ x \notin DOMAIN accs
  <2> DEFINE new == Single(x, [program |-> 1, box |-> v])
  <2>1. Pay(accs, x, v) = Over(accs, new)
    BY <1>3 DEF Pay
  <2>2. Locked(new) /\ DOMAIN new = {x}
    BY SingleLocked DEF Single
  <2> HIDE DEF new
  <2>3. Locked(Over(accs, new))
    BY <2>2, OverLocked
  <2>4. DOMAIN Over(accs, new) = DOMAIN accs \cup {x}
    BY <2>2 DEF Over
  <2> QED BY <1>3, <2>1, <2>3, <2>4
<1> QED BY <1>1, <1>2, <1>3

\* The rewards of a block.
LEMMA SpreadLocked ==
    ASSUME NEW accs, Locked(accs), NEW total, NEW ws, NEW lucky
    PROVE  Locked(Spread(accs, total, ws, lucky))
<1> DEFINE share == total \div Cardinality(ws)
           S == DOMAIN accs \cup (IF share <= 0 THEN {} ELSE ws)
           pays(x) == IF x \in ws THEN share ELSE 0
           paid == [x \in S |-> Pay(accs, x, pays(x))[x]]
<1>1. Spread(accs, total, ws, lucky) = Pay(paid, lucky, total - share * Cardinality(ws))
  BY DEF Spread, SpreadOver
<1> HIDE DEF share
<1>2. ASSUME NEW x \in S
      PROVE  x \in DOMAIN Pay(accs, x, pays(x)) /\ Locked(Pay(accs, x, pays(x)))
  <2>1. /\ Locked(Pay(accs, x, pays(x)))
        /\ DOMAIN Pay(accs, x, pays(x)) = DOMAIN accs \cup (IF pays(x) <= 0 THEN {} ELSE {x})
    BY PayLocked
  <2>2. CASE x \in DOMAIN accs
    BY <2>1, <2>2
  <2>3. CASE x \notin DOMAIN accs
    <3>1. ~(share <= 0) /\ x \in ws
      BY <2>3
    <3> QED BY <2>1, <3>1
  <2> QED BY <2>2, <2>3
<1> DEFINE got(x) == Pay(accs, x, pays(x))
<1>3. Locked(paid)
  <2> HIDE DEF S
  <2>1. paid = [x \in S |-> got(x)[x]] /\ \A x \in S : x \in DOMAIN got(x) /\ Locked(got(x))
    BY <1>2
  <2> HIDE DEF got, pays, paid
  <2>2. ASSUME NEW x \in S
        PROVE  /\ paid[x] = [program |-> paid[x].program, box |-> paid[x].box]
               /\ x \in P2pkhOnly => paid[x].program = 1
    <3>1. paid[x] = got(x)[x] /\ x \in DOMAIN got(x) /\ Locked(got(x))
      BY <2>1
    <3> QED BY <3>1 DEF Locked
  <2> QED BY <2>1, <2>2 DEF Locked
<1> DEFINE rest == total - share * Cardinality(ws)
<1>4. Spread(accs, total, ws, lucky) = Pay(paid, lucky, rest)
  BY <1>1
<1> HIDE DEF paid, rest
<1>5. Locked(Pay(paid, lucky, rest))
  BY <1>3, PayLocked
<1> QED BY <1>4, <1>5

\* The accounts of a block over those of the database.
LEMMA OverwriteLocked ==
    ASSUME NEW accs, NEW delta, Locked(accs), Locked(delta)
    PROVE  Locked(Overwrite(accs, delta))
<1>1. Locked(Over(delta, accs))
  BY OverLocked
<1> QED BY <1>1 DEF Overwrite, Restrict, Locked

\* accounts_t::to_stream and from_stream.
LEMMA FileLocked ==
    ASSUME NEW accs, Locked(accs)
    PROVE  LockedLines(WriteAccounts(accs))
BY DEF WriteAccounts, Locked, LockedLines

LEMMA ReadLocked ==
    ASSUME NEW lines, LockedLines(lines)
    PROVE  Locked(ReadAccounts(lines))
<1> DEFINE line(x) == CHOOSE l \in lines : l[1] = x
<1>1. ASSUME NEW x \in {l[1] : l \in lines}
      PROVE  line(x) \in lines /\ line(x)[1] = x
  <2>1. \E l \in lines : l[1] = x
    OBVIOUS
  <2> QED BY <2>1
<1>2. ReadAccounts(lines) = [x \in {l[1] : l \in lines} |-> [program |-> line(x)[2], box |-> line(x)[3]]]
  BY DEF ReadAccounts, ReadAccount
<1> HIDE DEF line
<1> QED BY <1>1, <1>2 DEF Locked, LockedLines

-----------------------------------------------------------------------------
\* Every step keeps SignedInv.

LEMMA EmptyLocked == Locked(NoAccounts)
BY DEF Locked, NoAccounts

\* There is nothing to sign in NoTx.
LEMMA IdleOK == IsJob(Idle)
BY EmptyLocked DEF IsJob, Idle, NoTx

LEMMA InitSigned == Init => SignedInv
<1> SUFFICES ASSUME Init PROVE SignedInv
  OBVIOUS
<1>1. IsJob(job)
  BY IdleOK DEF Init
<1>2. PoolOK
  BY EmptyLocked DEF Init, PoolOK, EmptyPool
<1>3. ChainOK
  BY DEF Init, ChainOK
<1> QED BY <1>1, <1>2, <1>3, EmptyLocked DEF Init, SignedInv, Genesis

\* What account_state finds.
LEMMA StateLocked ==
    ASSUME SignedInv
    PROVE  Locked(AccountState)
BY OverLocked DEF SignedInv, PoolOK, IsJob, AccountState

\* A change to an account of a tx in process.
LEMMA BatchLocked ==
    ASSUME IsJob(job), NEW addr, NEW acc, Batched(addr, acc),
           acc = [program |-> acc.program, box |-> acc.box],
           addr \in P2pkhOnly => acc.program = 1
    PROVE  /\ job' = [tx |-> job.tx, at |-> job.at + 1, batch |-> job'.batch]
           /\ Locked(job'.batch)
<1>1. job' = [tx |-> job.tx, at |-> job.at + 1, batch |-> Over(Single(addr, acc), job.batch)]
  BY DEF Batched, IsJob
<1>2. Locked(Over(Single(addr, acc), job.batch))
  BY SingleLocked, OverLocked DEF IsJob
<1> QED BY <1>1, <1>2

\* The next input, when it is not refused: unlock has run p2pkh::check_input.
LEMMA InputStep ==
    ASSUME SignedInv, ProcessInput
    PROVE  IsJob(job')
<1> DEFINE n == job.at
           i == job.tx.inputs[n]
<1>1. n \in 1..Len(job.tx.inputs)
  BY DEF ProcessInput
<1>2. CASE Reject
  BY <1>2, IdleOK DEF Reject
<1>3. CASE \E opens \in Unlock(AccountState[i.addr].program, i.addr, job.tx, n) :
              /\ i.addr \in DOMAIN AccountState /\ opens
              /\ Batched(i.addr, [AccountState[i.addr] EXCEPT !.box = @ - i.amount])
  <2> DEFINE state == AccountState[i.addr]
             acc == [state EXCEPT !.box = @ - i.amount]
  <2>1. /\ i.addr \in DOMAIN AccountState /\ Batched(i.addr, acc)
        /\ \E opens \in Unlock(state.program, i.addr, job.tx, n) : opens
    BY <1>3
  <2>2. /\ acc = [program |-> state.program, box |-> state.box - i.amount]
        /\ i.addr \in P2pkhOnly => state.program = 1
    <3>1. Locked(AccountState)
      BY StateLocked
    <3> DEFINE accs == AccountState
               v == state.box - i.amount
               addr == i.addr
    <3>2. addr \in DOMAIN accs /\ Locked(accs)
      BY <2>1, <3>1
    <3> HIDE DEF accs, v, addr
    <3>3. [accs[addr] EXCEPT !.box = v] = [program |-> accs[addr].program, box |-> v]
      BY <3>2, BoxLocked
    <3>4. addr \in P2pkhOnly => accs[addr].program = 1
      BY <3>2 DEF Locked
    <3> QED BY <3>3, <3>4 DEF accs, v, addr
  <2> HIDE DEF acc
  <2>3. job' = [tx |-> job.tx, at |-> n + 1, batch |-> job'.batch] /\ Locked(job'.batch)
    <3>1. acc = [program |-> acc.program, box |-> acc.box] /\ acc.program = state.program
      BY <2>2
    <3> QED BY <2>1, <2>2, <3>1, BatchLocked DEF SignedInv
  <2>4. InputAsSigned(job.tx, n)
    <3> SUFFICES ASSUME i.addr \in P2pkhOnly PROVE InputAsSigned(job.tx, n)
      BY DEF InputAsSigned
    <3>1. state.program = 1
      BY <2>2
    <3>2. CheckInput(i.addr, job.tx, n)
      <4>1. Unlock(state.program, i.addr, job.tx, n) = {CheckInput(i.addr, job.tx, n)}
        BY <3>1 DEF Unlock
      <4> HIDE DEF i, n, state
      <4>2. PICK opens \in {CheckInput(i.addr, job.tx, n)} : opens
        BY <2>1, <4>1
      <4> QED BY <4>2, Zenon
    <3> QED BY <3>2 DEF CheckInput, InputAsSigned
  <2>5. \A k \in DOMAIN job.tx.inputs : k < n + 1 => InputAsSigned(job.tx, k)
    <3>1. job.tx.inputs \in Seq(Range(job.tx.inputs)) \/ job.tx.inputs = <<>>
      BY TxIs DEF SignedInv, IsJob, NoTx
    <3>2. \A k \in DOMAIN job.tx.inputs : k \in Nat
      BY <3>1
    <3>3. \A k \in DOMAIN job.tx.inputs : k < n + 1 => k < n \/ k = n
      BY <1>1, <3>2
    <3> QED BY <2>4, <3>3 DEF SignedInv, IsJob
  <2>6. n + 1 \in Nat /\ job.tx \in Txs \cup {NoTx}
    BY DEF SignedInv, IsJob
  <2>7. job'.tx = job.tx /\ job'.at = n + 1
    BY <2>3
  <2>8. \A k \in DOMAIN job'.tx.inputs : k < job'.at => InputAsSigned(job'.tx, k)
    BY <2>5, <2>7
  <2>9. job' = [tx |-> job'.tx, at |-> job'.at, batch |-> job'.batch]
    BY <2>3, <2>7
  <2> QED BY <2>3, <2>6, <2>7, <2>8, <2>9 DEF IsJob, InputAsSigned
<1> QED BY <1>2, <1>3 DEF ProcessInput

\* The next output: a new account has the program that the tx says.
LEMMA OutputStep ==
    ASSUME SignedInv, ProcessOutput
    PROVE  IsJob(job')
<1> DEFINE n == job.at
           j == n - Len(job.tx.inputs)
           o == job.tx.outputs[j]
           state == AccountState[o.addr]
           acc1 == [program |-> o.program, box |-> o.amount]
           acc2 == [state EXCEPT !.box = @ + o.amount]
<1>1. n \in (Len(job.tx.inputs) + 1)..(Len(job.tx.inputs) + Len(job.tx.outputs))
  BY DEF ProcessOutput, NumItems
<1>2. job.tx \in Txs
  <2>1. job.tx # NoTx
    <3> SUFFICES ASSUME job.tx = NoTx PROVE FALSE
      OBVIOUS
    <3>1. Len(job.tx.inputs) = 0 /\ Len(job.tx.outputs) = 0
      BY DEF NoTx
    <3> QED BY <1>1, <3>1
  <2> QED BY <2>1 DEF SignedInv, IsJob
<1>3. o.addr \in P2pkhOnly => o.program = 1
  <2>1. Len(job.tx.inputs) \in Nat /\ Len(job.tx.outputs) \in Nat /\ DOMAIN job.tx.outputs = 1..Len(job.tx.outputs)
    BY <1>2, TxIs
  <2>2. j \in DOMAIN job.tx.outputs
    <3> DEFINE a == Len(job.tx.inputs)
               b == Len(job.tx.outputs)
    <3>1. a \in Nat /\ b \in Nat /\ n \in (a + 1)..(a + b) /\ DOMAIN job.tx.outputs = 1..b
      BY <1>1, <2>1
    <3> HIDE DEF a, b, n
    <3>2. n - a \in 1..b
      BY <3>1
    <3> QED BY <3>1, <3>2 DEF a
  <2> HIDE DEF j
  <2> QED BY <1>2, <2>2, TxIs
<1>4. ASSUME NEW acc, Batched(o.addr, acc), acc = [program |-> acc.program, box |-> acc.box],
             o.addr \in P2pkhOnly => acc.program = 1
      PROVE  IsJob(job')
  <2>1. job' = [tx |-> job.tx, at |-> n + 1, batch |-> job'.batch] /\ Locked(job'.batch)
    BY <1>4, BatchLocked DEF SignedInv
  <2>2. n + 1 \in Nat /\ \A k \in DOMAIN job.tx.inputs : k < n
    BY <1>1, <1>2, TxIs
  <2>3. job'.tx = job.tx /\ job'.at = n + 1
    BY <2>1
  <2>4. \A k \in DOMAIN job'.tx.inputs : k < job'.at => InputAsSigned(job'.tx, k)
    BY <2>2, <2>3 DEF SignedInv, IsJob
  <2>5. job' = [tx |-> job'.tx, at |-> job'.at, batch |-> job'.batch]
    BY <2>1, <2>3
  <2> QED BY <1>2, <2>1, <2>2, <2>3, <2>4, <2>5 DEF IsJob
<1>5. CASE Reject
  BY <1>5, IdleOK DEF Reject
<1>6. CASE Batched(o.addr, acc1)
  <2>1. acc1 = [program |-> acc1.program, box |-> acc1.box] /\ acc1.program = o.program
    OBVIOUS
  <2> QED BY <1>3, <1>4, <1>6, <2>1
<1>7. CASE o.addr \in DOMAIN AccountState /\ Batched(o.addr, acc2)
  <2>1. Locked(AccountState)
    BY StateLocked
  <2> DEFINE accs == AccountState
             v == state.box + o.amount
             addr == o.addr
  <2>2. addr \in DOMAIN accs /\ Locked(accs)
    BY <1>7, <2>1
  <2> HIDE DEF accs, v, addr
  <2>3. [accs[addr] EXCEPT !.box = v] = [program |-> accs[addr].program, box |-> v]
    BY <2>2, BoxLocked
  <2>4. addr \in P2pkhOnly => accs[addr].program = 1
    BY <2>2 DEF Locked
  <2>5. acc2 = [program |-> state.program, box |-> v] /\ (o.addr \in P2pkhOnly => state.program = 1)
    BY <2>3, <2>4 DEF accs, v, addr
  <2> HIDE DEF acc2
  <2>6. acc2 = [program |-> acc2.program, box |-> acc2.box] /\ (o.addr \in P2pkhOnly => acc2.program = 1)
    BY <2>5
  <2> QED BY <1>4, <1>7, <2>6
<1> QED BY <1>5, <1>6, <1>7 DEF ProcessOutput

\* The inputs come first.
LEMMA InputsBefore ==
    ASSUME NEW t \in Txs \cup {NoTx}
    PROVE  NumItems(t) \in Nat /\ \A k \in DOMAIN t.inputs : k < NumItems(t) + 1 /\ k < NumItems(t) + 2
<1>1. CASE t \in Txs
  <2>1. /\ Len(t.inputs) \in Nat /\ Len(t.outputs) \in Nat
        /\ DOMAIN t.inputs = 1..Len(t.inputs)
    BY <1>1, TxIs
  <2> DEFINE n == Len(t.inputs)
             m == Len(t.outputs)
  <2> HIDE DEF n, m
  <2>2. n \in Nat /\ m \in Nat /\ DOMAIN t.inputs = 1..n /\ NumItems(t) = n + m
    BY <2>1 DEF n, m, NumItems
  <2> QED BY <2>2
<1>2. CASE t = NoTx
  BY <1>2 DEF NoTx, NumItems
<1> QED BY <1>1, <1>2

\* A tx that reaches the pool has been checked input by input.
LEMMA CommitStep ==
    ASSUME SignedInv, CommitFees \/ CommitAccounts
    PROVE  IsJob(job') /\ PoolOK'
<1>1. IsJob(job) /\ PoolOK
  BY DEF SignedInv
<1>2. CASE CommitFees
  <2>1. job' = [tx |-> job.tx, at |-> job.at + 1, batch |-> job.batch]
    BY <1>1, <1>2 DEF CommitFees, IsJob
  <2>2. \A k \in DOMAIN job.tx.inputs : k < job.at
    <3>1. job.tx \in Txs \cup {NoTx} /\ job.at = NumItems(job.tx) + 1
      BY <1>1, <1>2 DEF CommitFees, IsJob
    <3> QED BY <3>1, InputsBefore
  <2>3. IsJob(job')
    BY <1>1, <2>1, <2>2 DEF IsJob
  <2>4. PoolOK'
    BY <1>1, <1>2 DEF CommitFees, PoolOK
  <2> QED BY <2>3, <2>4
<1>3. CASE CommitAccounts
  <2>1. IsJob(job')
    BY <1>3, IdleOK DEF CommitAccounts
  <2>2. pool' = [accounts |-> Over(job.batch, pool.accounts), fees |-> pool.fees,
                 min_fee |-> pool.min_fee, txs |-> pool.txs \cup {job.tx}]
    BY <1>1, <1>3 DEF CommitAccounts, PoolOK
  <2>3. Locked(Over(job.batch, pool.accounts))
    BY <1>1, OverLocked DEF IsJob, PoolOK
  <2>4. AsSigned(job.tx)
    <3>1. CASE job.tx \in Txs
      <4>1. \A k \in DOMAIN job.tx.inputs : k < job.at
        BY <1>3, <3>1, InputsBefore DEF CommitAccounts
      <4> QED BY <1>1, <4>1 DEF IsJob, AsSigned
    <3>2. CASE job.tx = NoTx
      BY <3>2 DEF AsSigned, NoTx
    <3> QED BY <1>1, <3>1, <3>2 DEF IsJob
  <2>5. \A t \in pool.txs \cup {job.tx} : AsSigned(t)
    BY <1>1, <2>4 DEF PoolOK
  <2>6. PoolOK'
    BY <2>2, <2>3, <2>5 DEF PoolOK, Locked, AsSigned
  <2> QED BY <2>1, <2>6
<1> QED BY <1>2, <1>3

\* The block has what this node made, or nothing; the pool is empty then.
LEMMA CreateStep ==
    ASSUME SignedInv, NEW ws \in Workers, CreateLocalDelta(ws)
    PROVE  ChainOK' /\ PoolOK'
<1>1. PICK made \in LocalDeltas(ws), lucky \in ws : \E elected \in Majority(made) :
        chain' = Append(chain, [file |-> WriteDiff(Len(chain), Merged(made, elected), Allow(made)), lucky |-> lucky])
  BY DEF CreateLocalDelta
<1>2. PICK elected \in Majority(made) :
        chain' = Append(chain, [file |-> WriteDiff(Len(chain), Merged(made, elected), Allow(made)), lucky |-> lucky])
  BY <1>1
<1>3. PICK p \in {pool, EmptyPool}, v \in OtherFees \cup {policies_local} : elected = AddPolicies(p, v)
  <2>1. PICK others \in [ws \ {Self} -> {AddPolicies(q, u) : q \in {pool, EmptyPool}, u \in OtherFees}] :
          made = Over(Single(Self, AddPolicies(pool, policies_local)), others)
    BY DEF LocalDeltas
  <2>2. PICK w \in DOMAIN made : elected = made[w]
    BY DEF Majority, Range
  <2>3. CASE w = Self
    <3>1. elected = AddPolicies(pool, policies_local)
      BY <2>1, <2>2, <2>3 DEF Over, Single
    <3> QED BY <3>1
  <2>4. CASE w # Self
    <3>1. w \in ws \ {Self} /\ elected = others[w]
      BY <2>1, <2>2, <2>4 DEF Over, Single
    <3>2. elected \in {AddPolicies(q, u) : q \in {pool, EmptyPool}, u \in OtherFees}
      BY <2>1, <3>1
    <3> QED BY <3>2
  <2> QED BY <2>3, <2>4
<1>4. /\ p = [accounts |-> p.accounts, fees |-> p.fees, min_fee |-> p.min_fee, txs |-> p.txs]
      /\ Locked(p.accounts) /\ \A t \in p.txs : AsSigned(t)
  BY EmptyLocked DEF SignedInv, PoolOK, EmptyPool
<1>5. elected.accounts = p.accounts /\ elected.txs = p.txs
  BY <1>3, <1>4 DEF AddPolicies
<1> DEFINE new == [file |-> WriteDiff(Len(chain), Merged(made, elected), Allow(made)), lucky |-> lucky]
<1>6. new.file.delta.g = [accounts |-> WriteAccounts(elected.accounts), fees |-> elected.fees, txs |-> elected.txs]
  BY DEF WriteDiff, WriteDelta, Merged, WriteLocalDelta
<1>7. chain' = Append(chain, new)
  BY <1>2
<1> HIDE DEF new
<1>8. BlockOK(new)
  <2>1. LockedLines(WriteAccounts(elected.accounts))
    BY <1>4, <1>5, FileLocked
  <2> QED BY <1>4, <1>5, <1>6, <2>1 DEF BlockOK
<1>9. ChainOK'
  <2>1. chain \in Seq(Range(chain)) /\ \A k \in DOMAIN chain : BlockOK(chain[k])
    BY DEF SignedInv, ChainOK
  <2> DEFINE R == Range(chain) \cup {new}
  <2>2. /\ chain' \in Seq(R) /\ Len(chain') = Len(chain) + 1
        /\ \A k \in 1..Len(chain) : chain'[k] = chain[k]
        /\ chain'[Len(chain) + 1] = new
    BY <1>7, <2>1
  <2>3. DOMAIN chain = 1..Len(chain) /\ DOMAIN chain' = 1..(Len(chain) + 1) /\ Len(chain) \in Nat
    BY <2>1, <2>2
  <2>4. \A k \in DOMAIN chain' : BlockOK(chain'[k])
    <3> SUFFICES ASSUME NEW k \in DOMAIN chain' PROVE BlockOK(chain'[k])
      OBVIOUS
    <3>1. CASE k \in 1..Len(chain)
      BY <2>1, <2>2, <2>3, <3>1
    <3>2. CASE k = Len(chain) + 1
      BY <1>8, <2>2, <3>2
    <3> QED BY <2>3, <3>1, <3>2
  <2>5. chain' \in Seq(Range(chain'))
    BY <2>2 DEF Range
  <2> QED BY <2>4, <2>5 DEF ChainOK, BlockOK, LockedLines, AsSigned
<1>10. PoolOK'
  <2>1. pool' = EmptyPool
    BY DEF CreateLocalDelta
  <2> QED BY <2>1, EmptyLocked DEF PoolOK, EmptyPool, Locked
<1> QED BY <1>9, <1>10

\* The accounts after a block: those of its file, and those it rewards.
LEMMA ImportStep ==
    ASSUME SignedInv, Import
    PROVE  Locked(accounts')
<1> DEFINE h == height + 1
           block == ReadDiff(chain[h].file)
           lines == chain[h].file.delta.g.accounts
           total == Newcash + block.delta.g.fees
<1>1. accounts' = Spread(Overwrite(accounts, block.delta.g.accounts), total, DOMAIN block.pow, chain[h].lucky)
  BY DEF Import
<1>2. h \in DOMAIN chain
  <2>1. height < Len(chain) /\ height \in Nat /\ DOMAIN chain = 1..Len(chain) /\ Len(chain) \in Nat
    BY DEF Import, Pending, SignedInv, ChainOK
  <2> QED BY <2>1
<1>3. LockedLines(lines)
  BY <1>2 DEF SignedInv, ChainOK, BlockOK
<1>4. block.delta.g.accounts = ReadAccounts(lines)
  <2> DEFINE g == chain[h].file.delta.g
  <2>1. g = [accounts |-> g.accounts, fees |-> g.fees, txs |-> g.txs]
    BY <1>2 DEF SignedInv, ChainOK, BlockOK
  <2>2. block.delta.g = ReadLocalDelta(g)
    BY DEF ReadDiff, ReadDelta
  <2> HIDE DEF g, block
  <2>3. block.delta.g = [g EXCEPT !.accounts = ReadAccounts(g.accounts)]
    BY <2>2 DEF ReadLocalDelta
  <2>4. block.delta.g.accounts = ReadAccounts(g.accounts)
    BY <2>1, <2>3
  <2> QED BY <2>4 DEF g
<1> HIDE DEF block, lines, total
<1>5. Locked(Overwrite(accounts, block.delta.g.accounts))
  BY <1>3, <1>4, ReadLocked, OverwriteLocked DEF SignedInv
<1> QED BY <1>1, <1>5, SpreadLocked

LEMMA SignedStep ==
    ASSUME SignedInv, [Next]_vars
    PROVE  SignedInv'
<1>1. ASSUME NEW t \in Txs, ParseEvidence(t)
      PROVE  SignedInv'
  <2>1. calendar' \subseteq Txs
    BY <1>1, ReadsWhatWasWritten DEF ParseEvidence, SignedInv
  <2>2. UNCHANGED <<height, accounts, pool, job, chain>>
    BY <1>1 DEF ParseEvidence, db
  <2> QED BY <2>1, <2>2 DEF SignedInv, PoolOK, ChainOK
<1>2. ASSUME NEW t \in Txs, BeginProcess(t)
      PROVE  SignedInv'
  <2>1. calendar' \subseteq Txs /\ UNCHANGED <<height, accounts, pool, chain>>
    BY <1>2 DEF BeginProcess, db, SignedInv
  <2>2. IsJob(job')
    <3>1. CASE UNCHANGED job
      BY <3>1 DEF SignedInv
    <3>2. CASE job' = [tx |-> t, at |-> 1, batch |-> NoAccounts]
      <4>1. \A k \in DOMAIN t.inputs : ~(k < 1)
        BY TxIs
      <4> QED BY <3>2, <4>1, EmptyLocked DEF IsJob
    <3> QED BY <1>2, <3>1, <3>2 DEF BeginProcess
  <2> QED BY <2>1, <2>2 DEF SignedInv, PoolOK, ChainOK
<1>3. CASE ProcessInput \/ ProcessOutput
  <2>1. IsJob(job')
    BY <1>3, InputStep, OutputStep
  <2>2. UNCHANGED <<height, accounts, pool, chain, calendar>>
    BY <1>3 DEF ProcessInput, ProcessOutput, db
  <2> QED BY <2>1, <2>2 DEF SignedInv, PoolOK, ChainOK
<1>4. CASE CommitFees \/ CommitAccounts
  <2>1. IsJob(job') /\ PoolOK'
    BY <1>4, CommitStep
  <2>2. UNCHANGED <<height, accounts, chain, calendar>>
    BY <1>4 DEF CommitFees, CommitAccounts, db
  <2> QED BY <2>1, <2>2 DEF SignedInv, ChainOK
<1>5. ASSUME NEW ws \in Workers, CreateLocalDelta(ws)
      PROVE  SignedInv'
  <2>1. ChainOK' /\ PoolOK'
    BY <1>5, CreateStep
  <2>2. UNCHANGED <<height, accounts, calendar, job>>
    BY <1>5 DEF CreateLocalDelta, db
  <2> QED BY <2>1, <2>2 DEF SignedInv
<1>6. CASE Import
  <2>1. Locked(accounts')
    BY <1>6, ImportStep
  <2>2. height' \in Nat /\ UNCHANGED <<calendar, pool, job, chain>>
    BY <1>6 DEF Import, SignedInv
  <2> QED BY <2>1, <2>2 DEF SignedInv, PoolOK, ChainOK
<1>7. CASE Clear
  <2>1. Locked(accounts')
    BY <1>7, EmptyLocked DEF Clear
  <2>2. height' \in Nat /\ UNCHANGED <<calendar, pool, job, chain>>
    BY <1>7 DEF Clear
  <2> QED BY <2>1, <2>2 DEF SignedInv, PoolOK, ChainOK
<1>8. CASE UNCHANGED <<height, accounts, calendar, pool, job, chain>>
  BY <1>8 DEF SignedInv, PoolOK, ChainOK
<1>9. ASSUME NEW v \in MinFees, SetPolicy(v)
      PROVE  SignedInv'
  BY <1>8, <1>9 DEF SetPolicy, db
<1> QED BY <1>1, <1>2, <1>3, <1>4, <1>5, <1>6, <1>7, <1>8, <1>9 DEF Next, vars

\* For any txs, addresses, programs and workers, whatever the blocks and
\* resets, and with txs that straddle: an input that was signed
\* with sigcode_all for an address nobody gives another program is applied,
\* to the pool or in a block, in the tx that was signed
\* (app::process, unlock, p2pkh::check_input, accounts_t::pay).
THEOREM SignedOnly == Spec => []AppliedAsSigned
<1>1. SignedInv => AppliedAsSigned
  <2> SUFFICES ASSUME SignedInv PROVE AppliedAsSigned
    OBVIOUS
  <2>1. ASSUME NEW t \in AppliedTxs PROVE AsSigned(t)
    <3>1. CASE t \in pool.txs
      BY <3>1 DEF SignedInv, PoolOK
    <3>2. ASSUME NEW k \in DOMAIN chain, t \in chain[k].file.delta.g.txs
          PROVE  AsSigned(t)
      BY <3>2 DEF SignedInv, ChainOK, BlockOK
    <3> QED BY <3>1, <3>2 DEF AppliedTxs
  <2> QED BY <2>1 DEF AppliedAsSigned, AsSigned, InputAsSigned
<1> QED BY <1>1, InitSigned, SignedStep, PTL DEF Spec

-----------------------------------------------------------------------------
(***************************************************************************)
(* Sums over finite sets.  SumFunctionOnSet is a recursion on a set that   *)
(* takes out the element CHOOSE picks; that the order does not matter,     *)
(* and all that follows from it, is proved by induction on the size of     *)
(* the set, with the set of the sizes for which the claim holds in the     *)
(* place of a predicate.                                                   *)
(***************************************************************************)

\* A nonempty set of numbers has a least one.
LEMMA LeastNumber ==
    ASSUME NEW T, T \subseteq Nat, T # {}
    PROVE  \E x \in T : \A y \in T : x <= y
<1> DEFINE R == OpToRel(<, Nat)
<1>1. IsWellFoundedOn(R, Nat)
  BY NatLessThanWellFounded
<1> HIDE DEF R
<1>2. PICK x \in T : \A y \in T : ~ (<<y, x>> \in R)
  BY <1>1, WFMin
<1>3. \A i, j \in Nat : i < j => <<i, j>> \in R
  BY DEF R, OpToRel
<1>4. x \in Nat /\ \A y \in T : y \in Nat
  OBVIOUS
<1>5. \A y \in T : ~(y < x)
  BY <1>2, <1>3, <1>4
<1> QED BY <1>4, <1>5

\* Induction over the subsets of a finite set, with a set of subsets in the
\* place of a predicate.
LEMMA SubsetInduction ==
    ASSUME NEW S, IsFiniteSet(S), NEW G, {} \in G,
           \A T \in SUBSET S : T # {} /\ (\A x \in T : T \ {x} \in G) => T \in G
    PROVE  S \in G
<1> SUFFICES ASSUME S \notin G PROVE FALSE
  OBVIOUS
<1> DEFINE Bad == {n \in Nat : \E T \in SUBSET S : Cardinality(T) = n /\ T \notin G}
<1>1. \A T \in SUBSET S : IsFiniteSet(T) /\ Cardinality(T) \in Nat
  BY FS_Subset, FS_CardinalityType
<1>2. PICK n \in Bad : \A m \in Bad : n <= m
  <2>1. Bad \subseteq Nat /\ Bad # {}
    BY <1>1
  <2> HIDE DEF Bad
  <2> QED BY <2>1, LeastNumber
<1>3. PICK T \in SUBSET S : Cardinality(T) = n /\ T \notin G
  BY <1>2
<1>4. \A x \in T : T \ {x} \in G
  <2> SUFFICES ASSUME NEW x \in T, T \ {x} \notin G PROVE FALSE
    OBVIOUS
  <2>1. Cardinality(T \ {x}) = Cardinality(T) - 1
    BY <1>1, FS_RemoveElement
  <2>2. Cardinality(T \ {x}) \in Nat /\ Cardinality(T) \in Nat
    BY <1>1
  <2>3. Cardinality(T \ {x}) \in Bad
    BY <2>2
  <2>4. n <= Cardinality(T \ {x})
    BY <1>2, <2>3
  <2> QED BY <1>3, <2>1, <2>2, <2>4
<1> QED BY <1>3, <1>4

-----------------------------------------------------------------------------
(***************************************************************************)
(* SumFunctionOnSet of the community modules.                              *)
(***************************************************************************)

First(s) == CHOOSE x \in s : TRUE

\* The function on subsets by which FoldFunctionOnSet is defined.
IsSum(g, f, S) ==
    g = [s \in SUBSET S |-> IF s = {} THEN 0 ELSE f[CHOOSE x \in s : TRUE] + g[s \ {CHOOSE x \in s : TRUE}]]

\* SumFunctionOnSet is the value at S of a function on the subsets of S, once
\* there is one that satisfies its recursion.
LEMMA SumIs ==
    ASSUME NEW f, NEW S, \E g : IsSum(g, f, S)
    PROVE  \E g : IsSum(g, f, S) /\ SumFunctionOnSet(f, S) = g[S]
BY DEF SumFunctionOnSet, FoldFunctionOnSet, MapThenFoldSet, IsSum

SumAt(g, f, s) == g[s] = IF s = {} THEN 0 ELSE f[First(s)] + g[s \ {First(s)}]

\* The recursion, one subset at a time.
LEMMA SumAtIs ==
    ASSUME NEW f, NEW S, NEW g
    PROVE  IsSum(g, f, S) <=> /\ g = [s \in SUBSET S |-> g[s]]
                              /\ \A s \in SUBSET S : SumAt(g, f, s)
BY DEF IsSum, SumAt, First

\* The element that the fold takes first.
LEMMA FirstIn ==
    ASSUME NEW s, s # {}
    PROVE  First(s) \in s
BY DEF First

\* Induction over numbers, likewise for a set in the place of a predicate.
LEMMA NumberInduction ==
    ASSUME NEW G, 0 \in G, \A n \in Nat : n \in G => n + 1 \in G
    PROVE  \A n \in Nat : n \in G
<1> SUFFICES ASSUME NEW k \in Nat, k \notin G PROVE FALSE
  OBVIOUS
<1> DEFINE Bad == {n \in Nat : n \notin G}
<1>1. PICK n \in Bad : \A m \in Bad : n <= m
  <2>1. Bad \subseteq Nat /\ Bad # {}
    OBVIOUS
  <2> HIDE DEF Bad
  <2> QED BY <2>1, LeastNumber
<1>2. n \in Nat /\ n # 0 /\ n \notin G
  OBVIOUS
<1>3. n - 1 \in Nat /\ (n - 1) + 1 = n /\ ~(n <= n - 1)
  BY <1>2
<1>4. n - 1 \in G
  BY <1>1, <1>3
<1> QED BY <1>2, <1>3, <1>4

\* It exists for finite sets: it can be had for subsets of up to n elements.
LEMMA SumExists ==
    ASSUME NEW f, NEW S, IsFiniteSet(S)
    PROVE  \E g : IsSum(g, f, S)
<1> DEFINE Level(n) == {s \in SUBSET S : Cardinality(s) <= n}
           IsPart(g, n) == /\ g = [s \in Level(n) |-> g[s]]
                           /\ \A s \in Level(n) : SumAt(g, f, s)
           G == {n \in Nat : \E g : IsPart(g, n)}
<1>1. \A s \in SUBSET S : IsFiniteSet(s) /\ Cardinality(s) \in Nat
  BY FS_Subset, FS_CardinalityType
<1>2. 0 \in G
  <2> DEFINE g == [s \in Level(0) |-> 0]
  <2>1. \A s \in Level(0) : s = {}
    BY <1>1, FS_EmptySet
  <2>2. g = [s \in Level(0) |-> g[s]] /\ \A s \in Level(0) : g[s] = 0
    OBVIOUS
  <2> HIDE DEF g
  <2>3. IsPart(g, 0)
    BY <2>1, <2>2 DEF SumAt
  <2> QED BY <2>3
<1>3. ASSUME NEW n \in Nat, n \in G
      PROVE  n + 1 \in G
  <2>1. PICK g : IsPart(g, n)
    BY <1>3
  <2> DEFINE e(s) == IF s = {} THEN 0 ELSE f[First(s)] + g[s \ {First(s)}]
             h == [s \in Level(n + 1) |-> e(s)]
  <2>2. \A s \in Level(n) : s \in Level(n + 1) /\ h[s] = g[s]
    <3> SUFFICES ASSUME NEW s \in Level(n) PROVE s \in Level(n + 1) /\ h[s] = g[s]
      OBVIOUS
    <3>1. s \in Level(n + 1)
      BY <1>1
    <3>2. h[s] = e(s)
      BY <3>1
    <3>3. SumAt(g, f, s)
      BY <2>1
    <3> QED BY <3>1, <3>2, <3>3 DEF SumAt
  <2>3. \A s \in Level(n + 1) : s # {} => s \ {First(s)} \in Level(n)
    <3> SUFFICES ASSUME NEW s \in Level(n + 1), s # {} PROVE s \ {First(s)} \in Level(n)
      OBVIOUS
    <3>1. First(s) \in s
      BY FirstIn
    <3>2. IsFiniteSet(s) /\ Cardinality(s) \in Nat /\ Cardinality(s) <= n + 1
      BY <1>1
    <3>3. Cardinality(s \ {First(s)}) = Cardinality(s) - 1
      BY <3>1, <3>2, FS_RemoveElement
    <3> QED BY <3>2, <3>3
  <2>4. h = [s \in Level(n + 1) |-> h[s]] /\ \A s \in Level(n + 1) : h[s] = e(s)
    OBVIOUS
  <2>5. \A s \in Level(n + 1) : SumAt(h, f, s)
    <3> SUFFICES ASSUME NEW s \in Level(n + 1) PROVE SumAt(h, f, s)
      OBVIOUS
    <3> HIDE DEF h, Level
    <3> QED BY <2>2, <2>3, <2>4 DEF SumAt
  <2>6. IsPart(h, n + 1)
    BY <2>4, <2>5
  <2> HIDE DEF IsPart, h
  <2>7. n + 1 \in Nat /\ \E k : IsPart(k, n + 1)
    BY <2>6
  <2> QED BY <2>7
<1>4. Cardinality(S) \in Nat /\ \A s \in SUBSET S : Cardinality(s) <= Cardinality(S)
  BY FS_CardinalityType, FS_Subset
<1>5. Cardinality(S) \in G
  <2> HIDE DEF G
  <2>1. \A n \in Nat : n \in G
    BY <1>2, <1>3, NumberInduction
  <2> QED BY <1>4, <2>1
<1>6. PICK g : IsPart(g, Cardinality(S))
  BY <1>5
<1>7. Level(Cardinality(S)) = SUBSET S
  BY <1>4
<1> QED BY <1>6, <1>7, SumAtIs

\* Two such functions agree where both are defined.
LEMMA SumUnique ==
    ASSUME NEW f, NEW S, IsFiniteSet(S), NEW T \in SUBSET S, NEW g, NEW h, IsSum(g, f, S), IsSum(h, f, T)
    PROVE  g[T] = h[T]
<1> DEFINE G == {s \in SUBSET T : g[s] = h[s]}
<1>1. \A s \in SUBSET T : SumAt(g, f, s) /\ SumAt(h, f, s)
  BY SumAtIs
<1>2. {} \in G
  BY <1>1 DEF SumAt
<1>3. \A s \in SUBSET T : s # {} /\ (\A x \in s : s \ {x} \in G) => s \in G
  BY <1>1, FirstIn DEF SumAt
<1>4. IsFiniteSet(T)
  BY FS_Subset
<1> HIDE DEF G
<1>5. T \in G
  BY ONLY <1>2, <1>3, <1>4, SubsetInduction, Zenon
<1> QED BY <1>5 DEF G

\* The sum over nothing, and over one more element: the chosen one.
LEMMA SumDef ==
    ASSUME NEW f, NEW S, IsFiniteSet(S)
    PROVE  SumFunctionOnSet(f, S) =
              IF S = {} THEN 0 ELSE f[First(S)] + SumFunctionOnSet(f, S \ {First(S)})
<1>1. PICK g : IsSum(g, f, S) /\ SumFunctionOnSet(f, S) = g[S]
  BY SumIs, SumExists
<1>2. SumAt(g, f, S)
  BY <1>1, SumAtIs
<1>3. ASSUME S # {}
      PROVE  SumFunctionOnSet(f, S \ {First(S)}) = g[S \ {First(S)}]
  <2> DEFINE T == S \ {First(S)}
  <2>1. IsFiniteSet(T) /\ T \in SUBSET S
    BY FS_RemoveElement
  <2> HIDE DEF T
  <2>2. PICK h : IsSum(h, f, T) /\ SumFunctionOnSet(f, T) = h[T]
    BY <2>1, SumIs, SumExists
  <2>3. g[T] = h[T]
    BY <1>1, <2>1, <2>2, SumUnique
  <2> QED BY <2>2, <2>3 DEF T
<1> QED BY <1>1, <1>2, <1>3 DEF SumAt

\* The sum of nothing.
LEMMA SumEmpty ==
    ASSUME NEW f
    PROVE  SumFunctionOnSet(f, {}) = 0
BY SumDef, FS_EmptySet

\* The sum, without the element that CHOOSE takes.
LEMMA SumFirst ==
    ASSUME NEW f, NEW S, IsFiniteSet(S), S # {}
    PROVE  /\ First(S) \in S
           /\ SumFunctionOnSet(f, S) = f[First(S)] + SumFunctionOnSet(f, S \ {First(S)})
BY SumDef, FirstIn

\* Sums of integers are integers.
LEMMA SumType ==
    ASSUME NEW f, NEW S, IsFiniteSet(S), \A x \in S : f[x] \in Int
    PROVE  SumFunctionOnSet(f, S) \in Int
<1> DEFINE G == {s \in SUBSET S : SumFunctionOnSet(f, s) \in Int}
<1>1. \A s \in SUBSET S : IsFiniteSet(s)
  BY FS_Subset
<1>2. {} \in G
  BY SumEmpty
<1>3. ASSUME NEW s \in SUBSET S, s # {}, \A x \in s : s \ {x} \in G
      PROVE  s \in G
  <2> DEFINE c == First(s)
  <2>1. c \in s /\ SumFunctionOnSet(f, s) = f[c] + SumFunctionOnSet(f, s \ {c})
    BY <1>1, <1>3, SumFirst
  <2> HIDE DEF c
  <2>2. SumFunctionOnSet(f, s \ {c}) \in Int /\ f[c] \in Int
    BY <1>3, <2>1
  <2> QED BY <2>1, <2>2
<1> HIDE DEF G
<1>4. S \in G
  BY ONLY IsFiniteSet(S), <1>2, <1>3, SubsetInduction, Zenon
<1> QED BY <1>4 DEF G

\* Any element may be taken out first.
LEMMA SumRemove ==
    ASSUME NEW f, NEW S, IsFiniteSet(S), \A x \in S : f[x] \in Int, NEW y \in S
    PROVE  SumFunctionOnSet(f, S) = f[y] + SumFunctionOnSet(f, S \ {y})
<1> DEFINE Sum(s) == SumFunctionOnSet(f, s)
           G == {s \in SUBSET S : \A x \in s : Sum(s) = f[x] + Sum(s \ {x})}
<1>1. \A s \in SUBSET S : IsFiniteSet(s) /\ Sum(s) \in Int
  BY FS_Subset, SumType
<1>2. {} \in G
  OBVIOUS
<1>3. ASSUME NEW s \in SUBSET S, s # {}, \A x \in s : s \ {x} \in G, NEW x \in s
      PROVE  Sum(s) = f[x] + Sum(s \ {x})
  <2> DEFINE c == First(s)
             u == (s \ {c}) \ {x}
  <2>1. c \in s /\ Sum(s) = f[c] + Sum(s \ {c})
    BY <1>1, <1>3, SumDef, FirstIn
  <2>2. CASE x = c
    BY <2>1, <2>2
  <2>3. CASE x # c
    <3> HIDE DEF c
    <3>1. u = (s \ {x}) \ {c} /\ x \in s \ {c} /\ c \in s \ {x}
      BY <2>1, <2>3
    <3>2. Sum(s \ {c}) = f[x] + Sum(u) /\ Sum(s \ {x}) = f[c] + Sum(u)
      BY <1>3, <2>1, <3>1
    <3>3. Sum(u) \in Int /\ f[c] \in Int /\ f[x] \in Int
      BY <1>1, <2>1
    <3> HIDE DEF Sum, u
    <3> QED BY <2>1, <3>2, <3>3
  <2> QED BY <2>2, <2>3
<1>4. \A s \in SUBSET S : s # {} /\ (\A x \in s : s \ {x} \in G) => s \in G
  BY <1>3
<1> HIDE DEF G
<1>5. S \in G
  BY ONLY IsFiniteSet(S), <1>2, <1>4, SubsetInduction, Zenon
<1> QED BY <1>5 DEF G

\* A sum only depends on the values.
LEMMA SumSame ==
    ASSUME NEW f, NEW h, NEW S, IsFiniteSet(S), \A x \in S : f[x] = h[x]
    PROVE  SumFunctionOnSet(f, S) = SumFunctionOnSet(h, S)
<1> DEFINE G == {s \in SUBSET S : SumFunctionOnSet(f, s) = SumFunctionOnSet(h, s)}
<1>1. \A s \in SUBSET S : IsFiniteSet(s)
  BY FS_Subset
<1>2. {} \in G
  BY SumEmpty
<1>3. ASSUME NEW s \in SUBSET S, s # {}, \A x \in s : s \ {x} \in G
      PROVE  s \in G
  <2> DEFINE c == First(s)
  <2>1. /\ c \in s
        /\ SumFunctionOnSet(f, s) = f[c] + SumFunctionOnSet(f, s \ {c})
        /\ SumFunctionOnSet(h, s) = h[c] + SumFunctionOnSet(h, s \ {c})
    BY <1>1, <1>3, SumFirst
  <2> HIDE DEF c
  <2>2. SumFunctionOnSet(f, s \ {c}) = SumFunctionOnSet(h, s \ {c}) /\ f[c] = h[c]
    BY <1>3, <2>1
  <2>3. SumFunctionOnSet(f, s) = SumFunctionOnSet(h, s)
    BY <2>1, <2>2
  <2> QED BY <2>3
<1> HIDE DEF G
<1>4. S \in G
  BY ONLY IsFiniteSet(S), <1>2, <1>3, SubsetInduction, Zenon
<1> QED BY <1>4 DEF G

\* The sum of sums.
LEMMA SumPlus ==
    ASSUME NEW f, NEW h, NEW k, NEW S, IsFiniteSet(S),
           \A x \in S : f[x] \in Int /\ h[x] \in Int /\ k[x] = f[x] + h[x]
    PROVE  SumFunctionOnSet(k, S) = SumFunctionOnSet(f, S) + SumFunctionOnSet(h, S)
<1> DEFINE G == {s \in SUBSET S : SumFunctionOnSet(k, s) = SumFunctionOnSet(f, s) + SumFunctionOnSet(h, s)}
<1>1. \A s \in SUBSET S : IsFiniteSet(s) /\ SumFunctionOnSet(f, s) \in Int /\ SumFunctionOnSet(h, s) \in Int
  BY FS_Subset, SumType
<1>2. {} \in G
  BY SumEmpty
<1>3. ASSUME NEW s \in SUBSET S, s # {}, \A x \in s : s \ {x} \in G
      PROVE  s \in G
  <2> DEFINE c == First(s)
  <2>1. c \in s
    BY <1>3, FirstIn
  <2>2. /\ SumFunctionOnSet(k, s) = k[c] + SumFunctionOnSet(k, s \ {c})
        /\ SumFunctionOnSet(f, s) = f[c] + SumFunctionOnSet(f, s \ {c})
        /\ SumFunctionOnSet(h, s) = h[c] + SumFunctionOnSet(h, s \ {c})
    BY <1>1, <1>3, SumDef
  <2> HIDE DEF c
  <2>3. SumFunctionOnSet(k, s \ {c}) = SumFunctionOnSet(f, s \ {c}) + SumFunctionOnSet(h, s \ {c})
    BY <1>3, <2>1
  <2>4. SumFunctionOnSet(f, s \ {c}) \in Int /\ SumFunctionOnSet(h, s \ {c}) \in Int
    BY <1>1
  <2> QED BY <2>1, <2>2, <2>3, <2>4
<1> HIDE DEF G
<1>4. S \in G
  BY ONLY IsFiniteSet(S), <1>2, <1>3, SubsetInduction, Zenon
<1> QED BY <1>4 DEF G

\* The sum of a constant.
LEMMA SumConst ==
    ASSUME NEW f, NEW c \in Int, NEW S, IsFiniteSet(S), \A x \in S : f[x] = c
    PROVE  SumFunctionOnSet(f, S) = c * Cardinality(S)
<1> DEFINE G == {s \in SUBSET S : SumFunctionOnSet(f, s) = c * Cardinality(s)}
<1>1. \A s \in SUBSET S : IsFiniteSet(s) /\ Cardinality(s) \in Nat
  BY FS_Subset, FS_CardinalityType
<1>2. {} \in G
  <2>1. c * 0 = 0
    OBVIOUS
  <2> QED BY <2>1, SumEmpty, FS_EmptySet
<1>3. ASSUME NEW s \in SUBSET S, s # {}, \A x \in s : s \ {x} \in G
      PROVE  s \in G
  <2> DEFINE x == First(s)
             n == Cardinality(s)
  <2>1. x \in s
    BY <1>3, FirstIn
  <2>2. SumFunctionOnSet(f, s) = f[x] + SumFunctionOnSet(f, s \ {x})
    BY <1>1, <1>3, SumDef
  <2>3. Cardinality(s \ {x}) = n - 1 /\ n \in Nat
    BY <1>1, <2>1, FS_RemoveElement
  <2> HIDE DEF x, n
  <2>4. SumFunctionOnSet(f, s) = c + c * (n - 1)
    BY <1>3, <2>1, <2>2, <2>3
  <2>5. c + c * (n - 1) = c * n
    BY <2>3
  <2> QED BY <2>4, <2>5 DEF n
<1> HIDE DEF G
<1>4. S \in G
  BY ONLY IsFiniteSet(S), <1>2, <1>3, SubsetInduction, Zenon
<1> QED BY <1>4 DEF G

\* Elements that add nothing may be left out.
LEMMA SumZeros ==
    ASSUME NEW f, NEW S, IsFiniteSet(S), NEW T \in SUBSET S,
           \A x \in T : f[x] \in Int, \A x \in S \ T : f[x] = 0
    PROVE  SumFunctionOnSet(f, S) = SumFunctionOnSet(f, T)
<1> DEFINE G == {s \in SUBSET S : SumFunctionOnSet(f, s) = SumFunctionOnSet(f, s \cap T)}
<1>1. \A s \in SUBSET S : IsFiniteSet(s) /\ SumFunctionOnSet(f, s) \in Int
  BY FS_Subset, SumType
<1>2. {} \in G
  <2>1. {} \cap T = {}
    OBVIOUS
  <2> QED BY <2>1
<1>3. ASSUME NEW s \in SUBSET S, s # {}, \A x \in s : s \ {x} \in G
      PROVE  s \in G
  <2> PICK x \in s : TRUE
    BY <1>3
  <2>1. SumFunctionOnSet(f, s) = f[x] + SumFunctionOnSet(f, s \ {x})
    BY <1>1, SumRemove
  <2>2. SumFunctionOnSet(f, s \ {x}) = SumFunctionOnSet(f, (s \ {x}) \cap T)
    BY <1>3
  <2>3. CASE x \in T
    <3>1. (s \ {x}) \cap T = (s \cap T) \ {x} /\ x \in s \cap T
      BY <2>3
    <3>2. SumFunctionOnSet(f, s \cap T) = f[x] + SumFunctionOnSet(f, (s \cap T) \ {x})
      BY <1>1, <3>1, SumRemove
    <3> QED BY <2>1, <2>2, <3>1, <3>2
  <2>4. CASE x \notin T
    <3>1. (s \ {x}) \cap T = s \cap T /\ f[x] = 0
      BY <2>4
    <3>2. SumFunctionOnSet(f, s \ {x}) \in Int
      BY <1>1
    <3> DEFINE p == SumFunctionOnSet(f, s \ {x})
    <3>3. p \in Int /\ SumFunctionOnSet(f, s) = 0 + p /\ p = SumFunctionOnSet(f, s \cap T)
      BY <2>1, <2>2, <3>1, <3>2
    <3> HIDE DEF p
    <3>4. SumFunctionOnSet(f, s) = SumFunctionOnSet(f, s \cap T)
      BY <3>3
    <3> QED BY <3>4
  <2> QED BY <2>3, <2>4
<1> HIDE DEF G
<1>4. S \in G
  BY ONLY IsFiniteSet(S), <1>2, <1>3, SubsetInduction, Zenon
<1>5. S \cap T = T
  OBVIOUS
<1> QED BY <1>4, <1>5 DEF G

-----------------------------------------------------------------------------
(***************************************************************************)
(* Accounts: their total, and what each operation on them does to it.      *)
(***************************************************************************)

\* An accounts_t, which holds finitely many accounts.
IsBook(accs) == IsAccounts(accs) /\ IsFiniteSet(DOMAIN accs)

\* A balance is a number, whether there is an account or not.
LEMMA BalanceInt ==
    ASSUME NEW accs, IsBook(accs)
    PROVE  \A x : Balance(accs, x) \in Int
BY DEF IsBook, IsAccounts, Account, Balance

\* The total is the sum of the balances of any finite set of addresses that
\* has all accounts.
LEMMA TotalIs ==
    ASSUME NEW accs, IsBook(accs), NEW U, IsFiniteSet(U), DOMAIN accs \subseteq U,
           NEW bal, \A x \in U : bal[x] = Balance(accs, x)
    PROVE  Total(accs) = SumFunctionOnSet(bal, U)
<1> DEFINE D == DOMAIN accs
           f == [x \in D |-> accs[x].box]
<1>1. \A x : Balance(accs, x) \in Int
  BY BalanceInt
<1>2. DOMAIN f = D /\ \A x \in D : f[x] = bal[x]
  BY DEF Balance
<1>3. Total(accs) = SumFunctionOnSet(f, DOMAIN f)
  BY DEF Total, SumFunction
<1>4. IsFiniteSet(D) /\ D \in SUBSET U
  BY DEF IsBook
<1> HIDE DEF f, D
<1>5. Total(accs) = SumFunctionOnSet(bal, D)
  BY <1>2, <1>3, <1>4, SumSame
<1>6. SumFunctionOnSet(bal, U) = SumFunctionOnSet(bal, D)
  <2>1. \A x \in D : bal[x] \in Int
    BY <1>1, <1>4
  <2>2. \A x \in U \ D : bal[x] = 0
    BY DEF Balance, D
  <2> QED BY <1>4, <2>1, <2>2, SumZeros
<1> QED BY <1>5, <1>6

\* accounts_t::get_balance is a number.
LEMMA TotalInt ==
    ASSUME NEW accs, IsBook(accs)
    PROVE  Total(accs) \in Int
<1> DEFINE D == DOMAIN accs
           bal == [x \in D |-> Balance(accs, x)]
<1>1. IsFiniteSet(D) /\ \A x \in D : bal[x] = Balance(accs, x)
  BY DEF IsBook
<1>2. \A x \in D : bal[x] \in Int
  BY <1>1, BalanceInt
<1>3. Total(accs) = SumFunctionOnSet(bal, D)
  <2> HIDE DEF bal
  <2> QED BY <1>1, TotalIs DEF D
<1> HIDE DEF bal, D
<1> QED BY <1>1, <1>2, <1>3, SumType

\* Two maps of accounts whose balances differ at one address at most.
LEMMA TotalOne ==
    ASSUME NEW f, NEW g, IsBook(f), IsBook(g), NEW c,
           \A x : x # c => Balance(f, x) = Balance(g, x)
    PROVE  Total(f) - Total(g) = Balance(f, c) - Balance(g, c)
<1> DEFINE U == DOMAIN f \cup DOMAIN g \cup {c}
           bf == [x \in U |-> Balance(f, x)]
           bg == [x \in U |-> Balance(g, x)]
<1>1. IsFiniteSet(U) /\ DOMAIN f \subseteq U /\ DOMAIN g \subseteq U /\ c \in U
  BY FS_Union, FS_Singleton DEF IsBook
<1>2. (\A x \in U : bf[x] = Balance(f, x)) /\ (\A x \in U : bg[x] = Balance(g, x))
  OBVIOUS
<1> HIDE DEF U, bf, bg
<1>3. Total(f) = SumFunctionOnSet(bf, U) /\ Total(g) = SumFunctionOnSet(bg, U)
  BY <1>1, <1>2, TotalIs
<1>4. (\A x \in U : bf[x] \in Int) /\ (\A x \in U : bg[x] \in Int)
  BY <1>2, BalanceInt
<1> DEFINE V == U \ {c}
<1>5. /\ SumFunctionOnSet(bf, U) = bf[c] + SumFunctionOnSet(bf, V)
      /\ SumFunctionOnSet(bg, U) = bg[c] + SumFunctionOnSet(bg, V)
  BY <1>1, <1>4, SumRemove
<1>6. IsFiniteSet(V) /\ \A x \in V : bf[x] = bg[x] /\ bf[x] \in Int
  BY <1>1, <1>2, <1>4, FS_Subset
<1> HIDE DEF V
<1>7. SumFunctionOnSet(bf, V) = SumFunctionOnSet(bg, V) /\ SumFunctionOnSet(bf, V) \in Int
  BY <1>6, SumSame, SumType
<1>8. bf[c] = Balance(f, c) /\ bg[c] = Balance(g, c) /\ bf[c] \in Int /\ bg[c] \in Int
  BY <1>1, <1>2, <1>4
<1> QED BY <1>3, <1>5, <1>7, <1>8

\* Two books with the same balances have the same total.
LEMMA TotalSame ==
    ASSUME NEW f, NEW g, IsBook(f), IsBook(g), \A x : Balance(f, x) = Balance(g, x)
    PROVE  Total(f) = Total(g)
<1> DEFINE c == 0
<1>1. Total(f) - Total(g) = Balance(f, c) - Balance(g, c)
  BY TotalOne
<1>2. Total(f) \in Int /\ Total(g) \in Int /\ Balance(f, c) \in Int /\ Balance(f, c) = Balance(g, c)
  BY TotalInt, BalanceInt
<1> HIDE DEF c
<1> QED BY <1>1, <1>2

\* Everybody in ws has c more.
LEMMA TotalMany ==
    ASSUME NEW f, NEW g, IsBook(f), IsBook(g), NEW ws, IsFiniteSet(ws), NEW c \in Int,
           \A x : Balance(g, x) = Balance(f, x) + (IF x \in ws THEN c ELSE 0)
    PROVE  Total(g) = Total(f) + c * Cardinality(ws)
<1> DEFINE U == DOMAIN f \cup DOMAIN g \cup ws
           bf == [x \in U |-> Balance(f, x)]
           bg == [x \in U |-> Balance(g, x)]
           h == [x \in U |-> IF x \in ws THEN c ELSE 0]
<1>1. IsFiniteSet(U) /\ DOMAIN f \subseteq U /\ DOMAIN g \subseteq U /\ ws \in SUBSET U
  BY FS_Union DEF IsBook
<1>2. /\ \A x \in U : bf[x] = Balance(f, x)
      /\ \A x \in U : bg[x] = Balance(g, x)
      /\ \A x \in U : h[x] = IF x \in ws THEN c ELSE 0
  OBVIOUS
<1> HIDE DEF U, bf, bg, h
<1>3. Total(f) = SumFunctionOnSet(bf, U) /\ Total(g) = SumFunctionOnSet(bg, U)
  BY <1>1, <1>2, TotalIs
<1>4. \A x \in U : bf[x] \in Int /\ h[x] \in Int /\ bg[x] = bf[x] + h[x]
  BY <1>2, BalanceInt
<1>5. SumFunctionOnSet(bg, U) = SumFunctionOnSet(bf, U) + SumFunctionOnSet(h, U)
  BY <1>1, <1>4, SumPlus
<1>6. SumFunctionOnSet(h, U) = SumFunctionOnSet(h, ws)
  <2>1. (\A x \in ws : h[x] \in Int) /\ (\A x \in U \ ws : h[x] = 0)
    BY <1>1, <1>2
  <2> QED BY <1>1, <2>1, SumZeros
<1>7. SumFunctionOnSet(h, ws) = c * Cardinality(ws)
  <2>1. \A x \in ws : h[x] = c
    BY <1>1, <1>2
  <2> QED BY <2>1, SumConst
<1> QED BY <1>3, <1>5, <1>6, <1>7

\* The account of x is the same, or neither has one.
SameAt(f, g, x) == (x \in DOMAIN f <=> x \in DOMAIN g) /\ (x \in DOMAIN f => f[x] = g[x])

\* db_t::clear leaves a book with nothing in it.
LEMMA EmptyBook == IsBook(NoAccounts) /\ Total(NoAccounts) = 0 /\ \A x : Balance(NoAccounts, x) = 0
<1>1. DOMAIN NoAccounts = {}
  BY DEF NoAccounts
<1>2. IsBook(NoAccounts)
  BY <1>1, FS_EmptySet DEF IsBook, IsAccounts, NoAccounts
<1>3. \A x : Balance(NoAccounts, x) = 0
  BY <1>1 DEF Balance
<1>4. Total(NoAccounts) = 0
  <2> DEFINE bal == [x \in {} |-> 0]
  <2>1. Total(NoAccounts) = SumFunctionOnSet(bal, {})
    <3>1. \A x \in {} : bal[x] = Balance(NoAccounts, x)
      OBVIOUS
    <3> HIDE DEF bal
    <3> QED BY <1>1, <1>2, <3>1, FS_EmptySet, TotalIs
  <2> QED BY <2>1, SumEmpty
<1> QED BY <1>2, <1>3, <1>4

\* h has the accounts of f, and of g where f has none.
IsOver(h, f, g) ==
    /\ DOMAIN h = DOMAIN f \cup DOMAIN g
    /\ \A x : /\ x \in DOMAIN f => Balance(h, x) = Balance(f, x)
              /\ x \notin DOMAIN f => Balance(h, x) = Balance(g, x)

\* A batch, or the accounts of the pool, over other accounts.
LEMMA OverBook ==
    ASSUME NEW f, NEW g, IsBook(f), IsBook(g)
    PROVE  IsBook(Over(f, g)) /\ IsOver(Over(f, g), f, g)
<1>1. IsOver(Over(f, g), f, g)
  BY DEF Over, IsOver, Balance
<1>2. IsFiniteSet(DOMAIN f \cup DOMAIN g)
  BY FS_Union DEF IsBook
<1>3. IsAccounts(Over(f, g))
  BY DEF Over, IsBook, IsAccounts
<1> QED BY <1>1, <1>2, <1>3 DEF IsBook, IsOver

\* A batch of one account.
LEMMA SingleBook ==
    ASSUME NEW c \in Addrs, NEW v \in Account
    PROVE  /\ IsBook(Single(c, v)) /\ DOMAIN Single(c, v) = {c}
           /\ Balance(Single(c, v), c) = v.box
<1>1. DOMAIN Single(c, v) = {c} /\ Single(c, v)[c] = v
  BY DEF Single
<1>2. IsAccounts(Single(c, v))
  BY DEF Single, IsAccounts
<1> QED BY <1>1, <1>2, FS_Singleton DEF IsBook, Balance

\* h has the account v of c, and those of g otherwise.
IsPut(h, c, v, g) ==
    /\ DOMAIN h = DOMAIN g \cup {c}
    /\ \A x : Balance(h, x) = IF x = c THEN v.box ELSE Balance(g, x)

\* One account that is replaced changes the total by the difference.
LEMMA PutBook ==
    ASSUME NEW c \in Addrs, NEW v \in Account, NEW g, IsBook(g)
    PROVE  IsBook(Over(Single(c, v), g)) /\ IsPut(Over(Single(c, v), g), c, v, g)
<1> DEFINE s == Single(c, v)
<1>1. IsBook(s) /\ DOMAIN s = {c} /\ Balance(s, c) = v.box
  BY SingleBook
<1> HIDE DEF s
<1>2. IsBook(Over(s, g)) /\ IsOver(Over(s, g), s, g)
  BY <1>1, OverBook
<1>3. IsPut(Over(s, g), c, v, g)
  BY <1>1, <1>2 DEF IsOver, IsPut
<1> QED BY <1>2, <1>3 DEF s

\* What accounts_t::pay does: c has v more when v is positive.
IsPaid(p, accs, c, v) ==
    /\ DOMAIN p = DOMAIN accs \cup (IF v <= 0 THEN {} ELSE {c})
    /\ \A x : x # c => SameAt(p, accs, x)
    /\ \A x : Balance(p, x) = Balance(accs, x) + (IF x = c /\ v > 0 THEN v ELSE 0)

\* accounts_t::pay adds what is paid, and nothing else.
LEMMA PayBook ==
    ASSUME NEW accs, IsBook(accs), NEW c \in Addrs, NEW v \in Int
    PROVE  IsBook(Pay(accs, c, v)) /\ IsPaid(Pay(accs, c, v), accs, c, v)
<1>0. \A x : Balance(accs, x) \in Int
  BY BalanceInt
<1>1. CASE v <= 0
  BY <1>0, <1>1 DEF Pay, SameAt, IsPaid
<1>2. CASE ~(v <= 0) /\ c \in DOMAIN accs
  <2> DEFINE new == [program |-> accs[c].program, box |-> accs[c].box + v]
  <2>1. accs[c] \in Account /\ accs \in [DOMAIN accs -> Account]
    BY <1>2 DEF IsBook, IsAccounts
  <2>2. Pay(accs, c, v) = [accs EXCEPT ![c] = [accs[c] EXCEPT !.box = accs[c].box + v]]
    BY <1>2 DEF Pay
  <2>3. [accs[c] EXCEPT !.box = accs[c].box + v] = new /\ new \in Account /\ new.box = accs[c].box + v
    BY <2>1 DEF Account
  <2> HIDE DEF new
  <2>4. Pay(accs, c, v) = [accs EXCEPT ![c] = new]
    BY <2>2, <2>3
  <2> DEFINE p == Pay(accs, c, v)
  <2>5. DOMAIN p = DOMAIN accs /\ p[c] = new /\ (\A x \in DOMAIN accs : x # c => p[x] = accs[x]) /\ p \in [DOMAIN accs -> Account]
    BY <1>2, <2>1, <2>3, <2>4
  <2> HIDE DEF p
  <2>6. IsBook(p)
    BY <2>5 DEF IsBook, IsAccounts
  <2>7. \A x : x # c => SameAt(p, accs, x)
    BY <2>5 DEF SameAt
  <2>8. \A x : Balance(p, x) = Balance(accs, x) + (IF x = c /\ v > 0 THEN v ELSE 0)
    <3> SUFFICES ASSUME NEW x PROVE Balance(p, x) = Balance(accs, x) + (IF x = c /\ v > 0 THEN v ELSE 0)
      OBVIOUS
    <3>1. CASE x = c
      BY <1>2, <2>3, <2>5, <3>1 DEF Balance
    <3>2. CASE x # c
      BY <1>0, <2>5, <3>2 DEF Balance
    <3> QED BY <3>1, <3>2
  <2>9. IsPaid(p, accs, c, v)
    BY <1>2, <2>5, <2>7, <2>8 DEF IsPaid
  <2> QED BY <2>6, <2>9 DEF p
<1>3. CASE ~(v <= 0) /\ c \notin DOMAIN accs
  <2> DEFINE acc == [program |-> 1, box |-> v]
             s == Single(c, acc)
             p == Pay(accs, c, v)
  <2>1. p = Over(accs, s)
    BY <1>3 DEF Pay
  <2>2. acc \in Account /\ acc.box = v
    BY DEF Account
  <2> HIDE DEF acc
  <2>3. IsBook(s) /\ DOMAIN s = {c} /\ Balance(s, c) = v
    BY <2>2, SingleBook
  <2> HIDE DEF s, p
  <2>4. /\ IsBook(p) /\ DOMAIN p = DOMAIN accs \cup {c}
        /\ \A x : /\ x \in DOMAIN accs => Balance(p, x) = Balance(accs, x)
                  /\ x \notin DOMAIN accs => Balance(p, x) = Balance(s, x)
    <3>1. IsBook(p) /\ IsOver(p, accs, s)
      BY <2>1, <2>3, OverBook
    <3> QED BY <2>3, <3>1 DEF IsOver
  <2>5. \A x \in DOMAIN accs : p[x] = accs[x]
    BY <2>1 DEF Over
  <2>6. \A x : x # c => SameAt(p, accs, x)
    BY <2>4, <2>5 DEF SameAt
  <2>7. \A x : Balance(p, x) = Balance(accs, x) + (IF x = c /\ v > 0 THEN v ELSE 0)
    <3> SUFFICES ASSUME NEW x PROVE Balance(p, x) = Balance(accs, x) + (IF x = c /\ v > 0 THEN v ELSE 0)
      OBVIOUS
    <3>1. CASE x = c
      <4>1. Balance(accs, x) = 0
        BY <1>3, <3>1 DEF Balance
      <4> QED BY <1>3, <2>3, <2>4, <3>1, <4>1
    <3>2. CASE x # c
      <4>1. x \notin DOMAIN accs => Balance(accs, x) = 0 /\ Balance(s, x) = 0
        BY <2>3, <3>2 DEF Balance
      <4>2. Balance(p, x) = Balance(accs, x)
        BY <2>4, <4>1
      <4> QED BY <1>0, <3>2, <4>2
    <3> QED BY <3>1, <3>2
  <2>8. DOMAIN p = DOMAIN accs \cup (IF v <= 0 THEN {} ELSE {c})
    BY <1>3, <2>4
  <2>9. IsPaid(p, accs, c, v)
    BY <2>6, <2>7, <2>8 DEF IsPaid
  <2> QED BY <2>4, <2>9 DEF p
<1> QED BY <1>1, <1>2, <1>3

\* The accounts of a delta over those of the database: those without a
\* balance are dropped.
LEMMA OverwriteBook ==
    ASSUME NEW accs, NEW delta, IsBook(accs), IsBook(delta)
    PROVE  /\ IsBook(Overwrite(accs, delta))
           /\ \A x : x \notin DOMAIN delta => SameAt(Overwrite(accs, delta), accs, x)
           /\ \A x : Balance(Overwrite(accs, delta), x) = Balance(Over(delta, accs), x)
<1> DEFINE all == Over(delta, accs)
           D == {x \in DOMAIN all : x \in DOMAIN delta => delta[x].box # 0}
           o == Overwrite(accs, delta)
<1>1. /\ IsBook(all) /\ DOMAIN all = DOMAIN delta \cup DOMAIN accs
      /\ \A x : /\ x \in DOMAIN delta => Balance(all, x) = Balance(delta, x)
                /\ x \notin DOMAIN delta => Balance(all, x) = Balance(accs, x)
  <2>1. IsBook(all) /\ IsOver(all, delta, accs)
    BY OverBook
  <2> QED BY <2>1 DEF IsOver
<1>2. o = [x \in D |-> all[x]]
  BY DEF Overwrite, Restrict
<1>3. /\ \A x \in DOMAIN delta : all[x] = delta[x]
      /\ \A x \in DOMAIN accs : x \notin DOMAIN delta => all[x] = accs[x]
  BY DEF Over
<1> HIDE DEF all, o
<1>4. IsFiniteSet(D) /\ D \subseteq DOMAIN all
  BY <1>1, FS_Subset DEF IsBook
<1>5. IsBook(o)
  BY <1>1, <1>2, <1>4 DEF IsBook, IsAccounts
<1>6. \A x : x \notin DOMAIN delta => SameAt(o, accs, x)
  BY <1>1, <1>2, <1>3 DEF SameAt
<1>7. \A x : Balance(o, x) = Balance(all, x)
  BY <1>1, <1>2, <1>3 DEF Balance
<1> QED BY <1>5, <1>6, <1>7 DEF all, o

\* What the division leaves is not negative.
LEMMA Shares ==
    ASSUME NEW total \in Nat, NEW n \in Nat, n # 0
    PROVE  /\ total \div n \in Nat /\ (total \div n) * n \in Nat
           /\ total - (total \div n) * n \in Nat
<1> DEFINE q == total \div n
<1>1. q \in Int /\ q >= 0 /\ q * n <= total
  OBVIOUS
<1>2. q * n \in Nat
  BY <1>1
<1> HIDE DEF q
<1>3. total - q * n \in Nat
  BY <1>1, <1>2
<1> QED BY <1>1, <1>2, <1>3 DEF q

\* The rewards of a block: exactly the total, to the workers.
LEMMA SpreadBook ==
    ASSUME NEW accs, IsBook(accs), NEW total \in Nat, NEW ws, IsFiniteSet(ws), ws \subseteq Addrs, NEW lucky \in ws
    PROVE  /\ IsBook(Spread(accs, total, ws, lucky))
           /\ Total(Spread(accs, total, ws, lucky)) = Total(accs) + total
           /\ \A x : x \notin ws => SameAt(Spread(accs, total, ws, lucky), accs, x)
           /\ \A x : Balance(Spread(accs, total, ws, lucky), x) >= Balance(accs, x)
<1> DEFINE n == Cardinality(ws)
           share == total \div n
           rest == total - share * n
           S == DOMAIN accs \cup (IF share <= 0 THEN {} ELSE ws)
           pays(x) == IF x \in ws THEN share ELSE 0
           got(x) == Pay(accs, x, pays(x))
           paid == [x \in S |-> got(x)[x]]
           all == Spread(accs, total, ws, lucky)
<1>1. all = Pay(paid, lucky, rest)
  BY DEF Spread, SpreadOver
<1>2. n \in Nat /\ n # 0
  BY FS_CardinalityType, FS_EmptySet
<1>3. share \in Nat /\ share * n \in Nat /\ rest \in Nat
  <2> HIDE DEF n
  <2> QED BY <1>2, Shares
<1>4. \A x : Balance(accs, x) \in Int
  BY BalanceInt
<1>5. DOMAIN paid = S /\ S \subseteq Addrs /\ IsFiniteSet(S)
  <2> HIDE DEF n, share
  <2>1. S \subseteq Addrs
    BY DEF IsBook, IsAccounts
  <2>2. IsFiniteSet(S)
    BY FS_Union, FS_EmptySet DEF IsBook
  <2> QED BY <2>1, <2>2
<1> HIDE DEF n, share, rest, all
<1>6. ASSUME NEW x \in S
      PROVE  /\ x \in DOMAIN got(x) /\ IsBook(got(x)) /\ paid[x] = got(x)[x]
             /\ Balance(got(x), x) = Balance(accs, x) + pays(x)
             /\ x \notin ws => x \in DOMAIN accs /\ got(x)[x] = accs[x]
  <2>1. pays(x) \in Int /\ x \in Addrs
    BY <1>3, <1>5
  <2>2. /\ IsBook(got(x))
        /\ DOMAIN got(x) = DOMAIN accs \cup (IF pays(x) <= 0 THEN {} ELSE {x})
        /\ Balance(got(x), x) = Balance(accs, x) + (IF pays(x) > 0 THEN pays(x) ELSE 0)
    <3> HIDE DEF pays
    <3>1. IsBook(got(x)) /\ IsPaid(got(x), accs, x, pays(x))
      BY <2>1, PayBook
    <3> QED BY <3>1 DEF IsPaid
  <2>3. x \in DOMAIN got(x)
    <3>1. CASE x \in DOMAIN accs
      BY <2>2, <3>1
    <3>2. CASE x \notin DOMAIN accs
      <4>1. ~(pays(x) <= 0)
        BY <3>2
      <4> QED BY <2>2, <4>1
    <3> QED BY <3>1, <3>2
  <2>4. Balance(got(x), x) = Balance(accs, x) + pays(x)
    <3>1. pays(x) >= 0
      BY <1>3
    <3> HIDE DEF pays
    <3> QED BY <1>4, <2>1, <2>2, <3>1
  <2>5. x \notin ws => x \in DOMAIN accs /\ got(x) = accs
    BY DEF Pay
  <2> QED BY <2>2, <2>3, <2>4, <2>5
<1> HIDE DEF got
<1>7. IsBook(paid)
  <2>1. \A x \in S : paid[x] \in Account
    BY <1>6 DEF IsBook, IsAccounts
  <2> HIDE DEF S
  <2> QED BY <1>5, <2>1 DEF IsBook, IsAccounts
<1>8. \A x : Balance(paid, x) = Balance(accs, x) + (IF x \in ws THEN share ELSE 0)
  <2> SUFFICES ASSUME NEW x PROVE Balance(paid, x) = Balance(accs, x) + pays(x)
    OBVIOUS
  <2>1. CASE x \in S
    <3>1. Balance(paid, x) = Balance(got(x), x)
      BY <1>5, <1>6, <2>1 DEF Balance
    <3> QED BY <1>6, <2>1, <3>1
  <2>2. CASE x \notin S
    <3>1. Balance(paid, x) = 0 /\ Balance(accs, x) = 0
      BY <1>5, <2>2 DEF Balance
    <3>2. pays(x) = 0
      BY <1>3, <2>2
    <3> QED BY <3>1, <3>2
  <2> QED BY <2>1, <2>2
<1>9. \A x : x \notin ws => SameAt(paid, accs, x)
  BY <1>5, <1>6 DEF SameAt
<1> HIDE DEF paid, S
<1>10. Total(paid) = Total(accs) + share * n
  BY <1>3, <1>7, <1>8, TotalMany DEF n
<1>11. /\ IsBook(all)
       /\ \A x : x # lucky => SameAt(all, paid, x)
       /\ \A x : Balance(all, x) = Balance(paid, x) + (IF x = lucky /\ rest > 0 THEN rest ELSE 0)
  <2>1. lucky \in Addrs /\ rest \in Int
    BY <1>3
  <2>2. IsBook(all) /\ IsPaid(all, paid, lucky, rest)
    BY <1>1, <1>7, <2>1, PayBook
  <2> QED BY <2>2 DEF IsPaid
<1>12. \A x : Balance(paid, x) \in Int
  BY <1>7, BalanceInt
<1>13. Total(all) = Total(accs) + total
  <2>1. \A x : x # lucky => Balance(all, x) = Balance(paid, x)
    BY <1>11, <1>12
  <2>2. Total(all) - Total(paid) = Balance(all, lucky) - Balance(paid, lucky)
    BY <1>7, <1>11, <2>1, TotalOne
  <2>3. Balance(all, lucky) = Balance(paid, lucky) + rest
    BY <1>3, <1>11, <1>12
  <2>4. Total(all) \in Int /\ Total(paid) \in Int /\ Total(accs) \in Int
    BY <1>7, <1>11, TotalInt
  <2>5. share * n \in Nat /\ rest = total - share * n
    BY <1>3 DEF rest
  <2> DEFINE k == share * n
  <2>6. k \in Nat /\ rest = total - k /\ Total(paid) = Total(accs) + k /\ Balance(paid, lucky) \in Int
    BY <1>10, <1>12, <2>5
  <2> DEFINE b == Balance(paid, lucky)
             tp == Total(paid)
             ta == Total(all)
             t0 == Total(accs)
  <2>7. /\ b \in Int /\ tp \in Int /\ ta \in Int /\ t0 \in Int /\ k \in Nat
        /\ ta - tp = (b + rest) - b /\ rest = total - k /\ tp = t0 + k
    BY <2>2, <2>3, <2>4, <2>6
  <2> HIDE DEF k, b, tp, ta, t0
  <2>8. ta = t0 + total
    BY <2>7
  <2> QED BY <2>8 DEF ta, t0
<1>14. \A x : x \notin ws => SameAt(all, accs, x)
  BY <1>9, <1>11 DEF SameAt
<1>15. \A x : Balance(all, x) >= Balance(accs, x)
  BY <1>3, <1>4, <1>8, <1>11
<1> QED BY <1>11, <1>13, <1>14, <1>15 DEF all

\* Accounts are read as they were written.
LEMMA ReadsAccounts ==
    ASSUME NEW accs, IsBook(accs)
    PROVE  /\ ReadAccounts(WriteAccounts(accs)) = accs
           /\ {l[1] : l \in WriteAccounts(accs)} = DOMAIN accs
<1> DEFINE lines == WriteAccounts(accs)
           line(x) == CHOOSE l \in lines : l[1] = x
           D == {l[1] : l \in lines}
<1>1. accs \in [DOMAIN accs -> Account]
  BY DEF IsBook, IsAccounts
<1>2. lines = {<<x, accs[x].program, accs[x].box>> : x \in DOMAIN accs}
  BY DEF WriteAccounts
<1>3. D = DOMAIN accs
  <2>1. \A x \in DOMAIN accs : <<x, accs[x].program, accs[x].box>>[1] = x
    OBVIOUS
  <2>2. ASSUME NEW x \in D PROVE x \in DOMAIN accs
    BY <1>2, <2>1
  <2>3. ASSUME NEW x \in DOMAIN accs PROVE x \in D
    <3> DEFINE l == <<x, accs[x].program, accs[x].box>>
    <3>1. l \in lines /\ l[1] = x
      BY <1>2
    <3> HIDE DEF l, lines
    <3> QED BY <3>1
  <2> QED BY <2>2, <2>3
<1>4. ASSUME NEW x \in DOMAIN accs
      PROVE  ReadAccount(line(x)) = accs[x]
  <2>1. \E l \in lines : l[1] = x
    <3> DEFINE l == <<x, accs[x].program, accs[x].box>>
    <3>1. l \in lines /\ l[1] = x
      BY <1>2
    <3> HIDE DEF l, lines
    <3> QED BY <3>1
  <2>2. line(x) \in lines /\ line(x)[1] = x
    BY <2>1
  <2> HIDE DEF line
  <2>3. line(x) = <<x, accs[x].program, accs[x].box>>
    BY <1>2, <2>2
  <2>4. accs[x] = [program |-> accs[x].program, box |-> accs[x].box]
    BY <1>1 DEF Account
  <2> QED BY <2>3, <2>4 DEF ReadAccount
<1>5. ReadAccounts(lines) = [x \in D |-> ReadAccount(line(x))]
  BY DEF ReadAccounts
<1> HIDE DEF D, line, lines
<1>6. ReadAccounts(lines) = accs
  BY <1>1, <1>3, <1>4, <1>5
<1> QED BY <1>3, <1>6 DEF D, lines

-----------------------------------------------------------------------------
(***************************************************************************)
(* What a tx in process has moved so far.                                  *)
(***************************************************************************)

\* inputs_t, outputs_t
IsItems(items) ==
    /\ items \in Seq(Range(items))
    /\ \A k \in DOMAIN items : items[k].amount \in Int

\* The amounts of the items of K before the n-th.
Paid(items, n, K) ==
    SumFunctionOnSet([k \in DOMAIN items |-> items[k].amount], {k \in K : k < n})

ItemsAt(items, x) == {k \in DOMAIN items : items[k].addr = x}

\* What the items before at have added to all accounts, and to that of x.
Moved(t, at) ==
    Paid(t.outputs, at - Len(t.inputs), DOMAIN t.outputs) - Paid(t.inputs, at, DOMAIN t.inputs)

MovedAt(t, at, x) ==
    Paid(t.outputs, at - Len(t.inputs), ItemsAt(t.outputs, x)) - Paid(t.inputs, at, ItemsAt(t.inputs, x))

\* The same of a whole tx, in the words of Net.
NetOf(t, x) ==
    SumFunction([i \in ItemsAt(t.outputs, x) |-> t.outputs[i].amount]) -
    SumFunction([i \in ItemsAt(t.inputs, x) |-> t.inputs[i].amount])

\* A tx has finitely many items.
LEMMA ItemsFinite ==
    ASSUME NEW items, IsItems(items), NEW K \in SUBSET DOMAIN items
    PROVE  /\ DOMAIN items = 1..Len(items) /\ Len(items) \in Nat /\ K \subseteq Nat
           /\ IsFiniteSet(DOMAIN items) /\ IsFiniteSet(K)
<1>1. DOMAIN items = 1..Len(items) /\ Len(items) \in Nat
  BY DEF IsItems
<1>2. IsFiniteSet(DOMAIN items)
  BY <1>1, FS_Interval
<1> QED BY <1>1, <1>2, FS_Subset

\* What some of the items add up to is a number.
LEMMA PaidInt ==
    ASSUME NEW items, IsItems(items), NEW n \in Int, NEW K \in SUBSET DOMAIN items
    PROVE  Paid(items, n, K) \in Int
<1> DEFINE f == [k \in DOMAIN items |-> items[k].amount]
           B == {k \in K : k < n}
<1>1. IsFiniteSet(B)
  BY ItemsFinite, FS_Subset
<1>2. \A k \in B : f[k] \in Int
  BY DEF IsItems
<1> HIDE DEF f, B
<1>3. SumFunctionOnSet(f, B) \in Int
  BY <1>1, <1>2, SumType
<1> QED BY <1>3 DEF Paid, f, B

\* Before the first.
LEMMA PaidNone ==
    ASSUME NEW items, IsItems(items), NEW n \in Int, n <= 1, NEW K \in SUBSET DOMAIN items
    PROVE  Paid(items, n, K) = 0
<1>1. {k \in K : k < n} = {}
  <2>1. \A k \in K : k \in Nat /\ k >= 1
    BY ItemsFinite
  <2> QED BY <2>1
<1> QED BY <1>1, SumEmpty DEF Paid

\* One more.
LEMMA PaidNext ==
    ASSUME NEW items, IsItems(items), NEW n \in DOMAIN items, NEW K \in SUBSET DOMAIN items
    PROVE  Paid(items, n + 1, K) = Paid(items, n, K) + (IF n \in K THEN items[n].amount ELSE 0)
<1> DEFINE f == [k \in DOMAIN items |-> items[k].amount]
           B == {k \in K : k < n}
           C == {k \in K : k < n + 1}
<1>1. n \in Nat /\ \A k \in K : k \in Nat
  BY ItemsFinite
<1>2. IsFiniteSet(C) /\ (\A k \in C : f[k] \in Int) /\ f[n] = items[n].amount
  BY ItemsFinite, FS_Subset DEF IsItems
<1>3. Paid(items, n + 1, K) = SumFunctionOnSet(f, C) /\ Paid(items, n, K) = SumFunctionOnSet(f, B)
  BY DEF Paid
<1>4. Paid(items, n, K) \in Int /\ items[n].amount \in Int
  BY <1>1, PaidInt DEF IsItems
<1> HIDE DEF f
<1>5. CASE n \in K
  <2>1. n \in C /\ B = C \ {n}
    BY <1>1, <1>5
  <2> HIDE DEF B, C
  <2>2. SumFunctionOnSet(f, C) = f[n] + SumFunctionOnSet(f, B)
    BY <1>2, <2>1, SumRemove
  <2> QED BY <1>2, <1>3, <1>4, <1>5, <2>2
<1>6. CASE n \notin K
  <2>1. B = C
    BY <1>1, <1>6
  <2> HIDE DEF B, C
  <2> QED BY <1>3, <1>4, <1>6, <2>1
<1> QED BY <1>5, <1>6

\* All of them.
LEMMA PaidAll ==
    ASSUME NEW items, IsItems(items), NEW n \in Int, n > Len(items), NEW K \in SUBSET DOMAIN items
    PROVE  Paid(items, n, K) = SumFunction([k \in K |-> items[k].amount])
<1> DEFINE f == [k \in DOMAIN items |-> items[k].amount]
           g == [k \in K |-> items[k].amount]
<1>1. {k \in K : k < n} = K
  BY ItemsFinite
<1>2. IsFiniteSet(K) /\ DOMAIN g = K /\ \A k \in K : f[k] = g[k]
  BY ItemsFinite
<1>3. Paid(items, n, K) = SumFunctionOnSet(f, K) /\ SumFunction(g) = SumFunctionOnSet(g, DOMAIN g)
  BY <1>1 DEF Paid, SumFunction
<1> HIDE DEF f, g
<1>4. SumFunctionOnSet(f, K) = SumFunctionOnSet(g, K)
  BY <1>2, SumSame
<1> QED BY <1>2, <1>3, <1>4 DEF g

\* The inputs and the outputs of a tx are items, and are counted.
LEMMA TxItems ==
    ASSUME NEW t \in Txs
    PROVE  /\ IsItems(t.inputs) /\ IsItems(t.outputs)
           /\ Len(t.inputs) \in Nat /\ Len(t.outputs) \in Nat /\ NumItems(t) = Len(t.inputs) + Len(t.outputs)
           /\ NumItems(t) \in Nat
           /\ DOMAIN t.inputs = 1..Len(t.inputs) /\ DOMAIN t.outputs = 1..Len(t.outputs)
           /\ \A k \in DOMAIN t.inputs : t.inputs[k].addr \in Addrs /\ t.inputs[k].amount \in Int
           /\ \A k \in DOMAIN t.outputs : t.outputs[k].addr \in Addrs /\ t.outputs[k].amount \in Int /\ t.outputs[k].program \in Nat
<1>1. IsTx(t)
  BY TxsAssumption
<1>2. /\ t.inputs \in Seq(Range(t.inputs)) /\ t.outputs \in Seq(Range(t.outputs))
      /\ \A k \in DOMAIN t.inputs : IsInput(t.inputs[k])
      /\ \A k \in DOMAIN t.outputs : IsOutput(t.outputs[k])
  BY <1>1 DEF IsTx
<1>3. \A k \in DOMAIN t.inputs : t.inputs[k].addr \in Addrs /\ t.inputs[k].amount \in Int
  BY <1>2 DEF IsInput
<1>4. \A k \in DOMAIN t.outputs : t.outputs[k].addr \in Addrs /\ t.outputs[k].amount \in Int /\ t.outputs[k].program \in Nat
  BY <1>2 DEF IsOutput
<1>5. IsItems(t.inputs) /\ IsItems(t.outputs)
  BY <1>2, <1>3, <1>4 DEF IsItems
<1>6. Len(t.inputs) \in Nat /\ Len(t.outputs) \in Nat
  BY <1>2
<1>7. NumItems(t) \in Nat
  <2> DEFINE n == Len(t.inputs)
             m == Len(t.outputs)
  <2>1. n \in Nat /\ m \in Nat /\ NumItems(t) = n + m
    BY <1>6 DEF NumItems
  <2> HIDE DEF n, m
  <2> QED BY <2>1
<1>8. NumItems(t) = Len(t.inputs) + Len(t.outputs)
  BY DEF NumItems
<1>9. DOMAIN t.inputs = 1..Len(t.inputs) /\ DOMAIN t.outputs = 1..Len(t.outputs)
  BY <1>2
<1> QED BY <1>3, <1>4, <1>5, <1>6, <1>7, <1>8, <1>9

\* The sets of items of the sums.
LEMMA ItemSets ==
    ASSUME NEW t, NEW x
    PROVE  /\ DOMAIN t.inputs \in SUBSET DOMAIN t.inputs /\ DOMAIN t.outputs \in SUBSET DOMAIN t.outputs
           /\ ItemsAt(t.inputs, x) \in SUBSET DOMAIN t.inputs /\ ItemsAt(t.outputs, x) \in SUBSET DOMAIN t.outputs
BY DEF ItemsAt

\* What a tx has moved is a number.
LEMMA MovedInt ==
    ASSUME NEW t \in Txs, NEW at \in Int, NEW x
    PROVE  Moved(t, at) \in Int /\ MovedAt(t, at, x) \in Int
<1> DEFINE ins == t.inputs
           outs == t.outputs
           d == at - Len(ins)
<1>1. IsItems(ins) /\ IsItems(outs) /\ d \in Int
  <2> DEFINE n == Len(ins)
  <2>1. n \in Nat /\ d = at - n
    BY TxItems
  <2> HIDE DEF n, d
  <2>2. d \in Int
    BY <2>1
  <2> QED BY <2>2, TxItems
<1>2. ItemsAt(ins, x) \in SUBSET DOMAIN ins /\ ItemsAt(outs, x) \in SUBSET DOMAIN outs
  BY ItemSets
<1>3. /\ Moved(t, at) = Paid(outs, d, DOMAIN outs) - Paid(ins, at, DOMAIN ins)
      /\ MovedAt(t, at, x) = Paid(outs, d, ItemsAt(outs, x)) - Paid(ins, at, ItemsAt(ins, x))
  BY DEF Moved, MovedAt
<1> HIDE DEF ins, outs, d
<1>4. /\ Paid(outs, d, DOMAIN outs) \in Int /\ Paid(ins, at, DOMAIN ins) \in Int
      /\ Paid(outs, d, ItemsAt(outs, x)) \in Int /\ Paid(ins, at, ItemsAt(ins, x)) \in Int
  BY <1>1, <1>2, PaidInt
<1> QED BY <1>3, <1>4

\* A tx in process has moved nothing before its first item.
LEMMA MovedStart ==
    ASSUME NEW t \in Txs, NEW x
    PROVE  Moved(t, 1) = 0 /\ MovedAt(t, 1, x) = 0
<1> DEFINE ins == t.inputs
           outs == t.outputs
           d == 1 - Len(ins)
<1>1. IsItems(ins) /\ IsItems(outs) /\ d \in Int /\ d <= 1
  <2> DEFINE n == Len(ins)
  <2>1. n \in Nat /\ d = 1 - n
    BY TxItems
  <2> HIDE DEF n, d
  <2>2. d \in Int /\ d <= 1
    BY <2>1
  <2> QED BY <2>2, TxItems
<1>2. ItemsAt(ins, x) \in SUBSET DOMAIN ins /\ ItemsAt(outs, x) \in SUBSET DOMAIN outs
  BY ItemSets
<1>3. /\ Moved(t, 1) = Paid(outs, d, DOMAIN outs) - Paid(ins, 1, DOMAIN ins)
      /\ MovedAt(t, 1, x) = Paid(outs, d, ItemsAt(outs, x)) - Paid(ins, 1, ItemsAt(ins, x))
  BY DEF Moved, MovedAt
<1> HIDE DEF ins, outs, d
<1>4. /\ Paid(outs, d, DOMAIN outs) = 0 /\ Paid(ins, 1, DOMAIN ins) = 0
      /\ Paid(outs, d, ItemsAt(outs, x)) = 0 /\ Paid(ins, 1, ItemsAt(ins, x)) = 0
  BY <1>1, <1>2, PaidNone
<1> QED BY <1>3, <1>4

\* An input takes its amount from its address.
LEMMA MovedInput ==
    ASSUME NEW t \in Txs, NEW at \in DOMAIN t.inputs, NEW x
    PROVE  LET i == t.inputs[at]
           IN  /\ Moved(t, at + 1) = Moved(t, at) - i.amount
               /\ MovedAt(t, at + 1, x) = MovedAt(t, at, x) - (IF x = i.addr THEN i.amount ELSE 0)
<1> DEFINE ins == t.inputs
           outs == t.outputs
           n == Len(ins)
           am == ins[at].amount
<1>1. IsItems(ins) /\ IsItems(outs) /\ n \in Nat /\ DOMAIN ins = 1..n /\ am \in Int
  BY TxItems
<1>2. at \in Nat /\ at - n \in Int /\ at - n <= 1 /\ at + 1 - n \in Int /\ at + 1 - n <= 1
  BY <1>1
<1>3. ASSUME NEW K \in SUBSET DOMAIN ins, NEW L \in SUBSET DOMAIN outs
      PROVE  Paid(outs, at + 1 - n, L) - Paid(ins, at + 1, K) =
             (Paid(outs, at - n, L) - Paid(ins, at, K)) - (IF at \in K THEN am ELSE 0)
  <2> HIDE DEF ins, outs, n, am
  <2>1. Paid(outs, at + 1 - n, L) = 0 /\ Paid(outs, at - n, L) = 0
    BY <1>1, <1>2, PaidNone
  <2>2. Paid(ins, at + 1, K) = Paid(ins, at, K) + (IF at \in K THEN am ELSE 0)
    BY <1>1, PaidNext DEF ins, am
  <2>3. Paid(ins, at, K) \in Int
    BY <1>1, <1>2, PaidInt
  <2> QED BY <1>1, <2>1, <2>2, <2>3
<1>4. /\ Moved(t, at + 1) = Paid(outs, at + 1 - n, DOMAIN outs) - Paid(ins, at + 1, DOMAIN ins)
      /\ Moved(t, at) = Paid(outs, at - n, DOMAIN outs) - Paid(ins, at, DOMAIN ins)
      /\ MovedAt(t, at + 1, x) = Paid(outs, at + 1 - n, ItemsAt(outs, x)) - Paid(ins, at + 1, ItemsAt(ins, x))
      /\ MovedAt(t, at, x) = Paid(outs, at - n, ItemsAt(outs, x)) - Paid(ins, at, ItemsAt(ins, x))
  BY DEF Moved, MovedAt
<1>5. at \in ItemsAt(ins, x) <=> x = ins[at].addr
  BY DEF ItemsAt
<1>6. ItemsAt(ins, x) \in SUBSET DOMAIN ins /\ ItemsAt(outs, x) \in SUBSET DOMAIN outs
  BY ItemSets
<1>7. at \in DOMAIN ins
  OBVIOUS
<1> HIDE DEF ins, outs, n, am
<1>8. Moved(t, at + 1) = Moved(t, at) - am
  BY <1>3, <1>4, <1>7
<1>9. MovedAt(t, at + 1, x) = MovedAt(t, at, x) - (IF x = ins[at].addr THEN am ELSE 0)
  BY <1>3, <1>4, <1>5, <1>6
<1> QED BY <1>8, <1>9 DEF ins, am

\* An output gives its amount to its address.
LEMMA MovedOutput ==
    ASSUME NEW t \in Txs, NEW at \in (Len(t.inputs) + 1)..NumItems(t), NEW x
    PROVE  LET o == t.outputs[at - Len(t.inputs)]
           IN  /\ Moved(t, at + 1) = Moved(t, at) + o.amount
               /\ MovedAt(t, at + 1, x) = MovedAt(t, at, x) + (IF x = o.addr THEN o.amount ELSE 0)
<1> DEFINE ins == t.inputs
           outs == t.outputs
           n == Len(ins)
           j == at - n
           am == outs[j].amount
<1>0. j \in DOMAIN outs /\ n \in Nat /\ at \in Nat /\ at > n
  <2>1. n \in Nat /\ Len(outs) \in Nat /\ NumItems(t) = n + Len(outs) /\ DOMAIN outs = 1..Len(outs)
    BY TxItems
  <2> DEFINE m == Len(outs)
  <2>2. at \in (n + 1)..(n + m) /\ m \in Nat
    BY <2>1
  <2> HIDE DEF n, m
  <2>3. at - n \in 1..m /\ at \in Nat /\ at > n
    BY <2>1, <2>2
  <2> QED BY <2>1, <2>3 DEF m
<1>1. IsItems(ins) /\ IsItems(outs) /\ am \in Int
  BY <1>0, TxItems
<1>2. at + 1 - n = j + 1 /\ j \in Int /\ at \in Int /\ at + 1 \in Int /\ at > n /\ at + 1 > n
  <2> HIDE DEF n
  <2> QED BY <1>0
<1>3. ASSUME NEW K \in SUBSET DOMAIN ins, NEW L \in SUBSET DOMAIN outs
      PROVE  Paid(outs, at + 1 - n, L) - Paid(ins, at + 1, K) =
             (Paid(outs, j, L) - Paid(ins, at, K)) + (IF j \in L THEN am ELSE 0)
  <2> HIDE DEF ins, outs, am, j
  <2>1. /\ Paid(ins, at + 1, K) = SumFunction([k \in K |-> ins[k].amount])
        /\ Paid(ins, at, K) = SumFunction([k \in K |-> ins[k].amount])
    BY <1>1, <1>2, PaidAll
  <2> HIDE DEF n
  <2>2. Paid(outs, j + 1, L) = Paid(outs, j, L) + (IF j \in L THEN am ELSE 0)
    BY <1>0, <1>1, PaidNext DEF am
  <2>3. Paid(ins, at, K) \in Int /\ Paid(outs, j, L) \in Int
    BY <1>1, <1>2, PaidInt
  <2>4. Paid(ins, at + 1, K) = Paid(ins, at, K)
    BY <2>1
  <2>5. Paid(outs, at + 1 - n, L) = Paid(outs, j + 1, L)
    BY <1>2
  <2> QED BY <1>1, <2>2, <2>3, <2>4, <2>5
<1>4. /\ Moved(t, at + 1) = Paid(outs, at + 1 - n, DOMAIN outs) - Paid(ins, at + 1, DOMAIN ins)
      /\ Moved(t, at) = Paid(outs, j, DOMAIN outs) - Paid(ins, at, DOMAIN ins)
      /\ MovedAt(t, at + 1, x) = Paid(outs, at + 1 - n, ItemsAt(outs, x)) - Paid(ins, at + 1, ItemsAt(ins, x))
      /\ MovedAt(t, at, x) = Paid(outs, j, ItemsAt(outs, x)) - Paid(ins, at, ItemsAt(ins, x))
  BY DEF Moved, MovedAt
<1>5. j \in ItemsAt(outs, x) <=> x = outs[j].addr
  <2> HIDE DEF j
  <2> QED BY <1>0 DEF ItemsAt
<1>6. ItemsAt(ins, x) \in SUBSET DOMAIN ins /\ ItemsAt(outs, x) \in SUBSET DOMAIN outs
  BY ItemSets
<1> HIDE DEF ins, outs, n, am, j
<1>8. Moved(t, at + 1) = Moved(t, at) + am
  BY <1>0, <1>3, <1>4
<1>9. MovedAt(t, at + 1, x) = MovedAt(t, at, x) + (IF x = outs[j].addr THEN am ELSE 0)
  BY <1>3, <1>4, <1>5, <1>6
<1> QED BY <1>8, <1>9 DEF outs, am, j, n, ins

\* tx::check: what is not given to anybody is the fee.
LEMMA MovedEnd ==
    ASSUME NEW t \in Txs, NEW at \in Int, at > NumItems(t), NEW x
    PROVE  /\ Check(t) \in Int
           /\ Check(t) >= 0 => Moved(t, at) = 0 - Check(t)
           /\ MovedAt(t, at, x) = NetOf(t, x)
<1> DEFINE ins == t.inputs
           outs == t.outputs
           n == Len(ins)
<1>1. IsItems(ins) /\ IsItems(outs) /\ at - n \in Int /\ at - n > Len(outs) /\ at > n
  <2>1. IsItems(ins) /\ IsItems(outs) /\ n \in Nat /\ Len(outs) \in Nat /\ NumItems(t) = n + Len(outs)
    BY TxItems
  <2> DEFINE m == Len(outs)
  <2>2. m \in Nat /\ n \in Nat /\ NumItems(t) = n + m
    BY <2>1
  <2> HIDE DEF n, m
  <2>3. at - n \in Int /\ at - n > m /\ at > n
    BY <2>2
  <2> QED BY <2>1, <2>3 DEF m
<1>2. ItemsAt(ins, x) \in SUBSET DOMAIN ins /\ ItemsAt(outs, x) \in SUBSET DOMAIN outs
  BY ItemSets
<1>3. /\ Moved(t, at) = Paid(outs, at - n, DOMAIN outs) - Paid(ins, at, DOMAIN ins)
      /\ MovedAt(t, at, x) = Paid(outs, at - n, ItemsAt(outs, x)) - Paid(ins, at, ItemsAt(ins, x))
  BY DEF Moved, MovedAt
<1>4. /\ NetOf(t, x) = SumFunction([i \in ItemsAt(outs, x) |-> outs[i].amount]) -
                       SumFunction([i \in ItemsAt(ins, x) |-> ins[i].amount])
      /\ SumOf(ins) = SumFunction([i \in DOMAIN ins |-> ins[i].amount])
      /\ SumOf(outs) = SumFunction([i \in DOMAIN outs |-> outs[i].amount])
  BY DEF NetOf, SumOf
<1>5. Check(t) = -1 \/ Check(t) = SumOf(ins) - SumOf(outs)
  BY DEF Check
<1> HIDE DEF ins, outs
<1>6. /\ Paid(ins, at, DOMAIN ins) = SumFunction([i \in DOMAIN ins |-> ins[i].amount])
      /\ Paid(ins, at, ItemsAt(ins, x)) = SumFunction([i \in ItemsAt(ins, x) |-> ins[i].amount])
  BY <1>1, <1>2, PaidAll
<1> DEFINE d == at - n
<1> HIDE DEF n, d
<1>7. /\ Paid(outs, d, DOMAIN outs) = SumFunction([i \in DOMAIN outs |-> outs[i].amount])
      /\ Paid(outs, d, ItemsAt(outs, x)) = SumFunction([i \in ItemsAt(outs, x) |-> outs[i].amount])
  <2>1. d \in Int /\ d > Len(outs)
    BY <1>1 DEF d
  <2> QED BY <1>1, <1>2, <2>1, PaidAll
<1>8. SumOf(ins) \in Int /\ SumOf(outs) \in Int
  <2>1. d \in Int
    BY <1>1 DEF d
  <2>2. Paid(ins, at, DOMAIN ins) \in Int /\ Paid(outs, d, DOMAIN outs) \in Int
    BY <1>1, <2>1, PaidInt
  <2> QED BY <1>4, <1>6, <1>7, <2>2
<1>9. Moved(t, at) = SumOf(outs) - SumOf(ins)
  BY <1>3, <1>4, <1>6, <1>7 DEF d
<1>10. MovedAt(t, at, x) = NetOf(t, x)
  BY <1>3, <1>4, <1>6, <1>7 DEF d
<1> QED BY <1>5, <1>8, <1>9, <1>10

-----------------------------------------------------------------------------
\* What several txs move.
LEMMA NetIs ==
    ASSUME NEW T, NEW x
    PROVE  Net(T, x) = SumFunctionOnSet([t \in T |-> NetOf(t, x)], T)
BY DEF Net, NetOf, ItemsAt, SumFunction

\* No txs, no change.
LEMMA NetNone ==
    ASSUME NEW x
    PROVE  Net({}, x) = 0
BY NetIs, SumEmpty

\* What a tx changes of an address is a number.
LEMMA NetInt ==
    ASSUME NEW t \in Txs, NEW x
    PROVE  NetOf(t, x) \in Int
<1> DEFINE at == NumItems(t) + 1
<1>1. NumItems(t) \in Nat
  BY TxItems
<1>2. at \in Int /\ at > NumItems(t)
  BY <1>1
<1> HIDE DEF at
<1>3. MovedAt(t, at, x) = NetOf(t, x) /\ MovedAt(t, at, x) \in Int
  BY <1>2, MovedEnd, MovedInt
<1> QED BY <1>3

\* What one more tx changes of an address.
LEMMA NetMore ==
    ASSUME NEW T \in SUBSET Txs, IsFiniteSet(T), NEW t \in Txs, t \notin T, NEW x
    PROVE  /\ Net(T, x) \in Int
           /\ Net(T \cup {t}, x) = Net(T, x) + NetOf(t, x)
<1> DEFINE f == [u \in T |-> NetOf(u, x)]
           g == [u \in T \cup {t} |-> NetOf(u, x)]
<1>1. Net(T, x) = SumFunctionOnSet(f, T) /\ Net(T \cup {t}, x) = SumFunctionOnSet(g, T \cup {t})
  BY NetIs
<1>2. \A u \in Txs : NetOf(u, x) \in Int
  BY NetInt
<1>3. /\ \A u \in T : f[u] = g[u] /\ f[u] \in Int
      /\ \A u \in T \cup {t} : g[u] \in Int
      /\ g[t] = NetOf(t, x)
  BY <1>2
<1>4. IsFiniteSet(T \cup {t}) /\ (T \cup {t}) \ {t} = T
  BY FS_AddElement
<1> DEFINE V == T \cup {t}
<1>5. IsFiniteSet(V) /\ V \ {t} = T /\ t \in V /\ \A u \in V : g[u] \in Int
  BY <1>3, <1>4
<1>6. Net(V, x) = SumFunctionOnSet(g, V)
  BY <1>1
<1> HIDE DEF f, g, V
<1>7. SumFunctionOnSet(g, V) = g[t] + SumFunctionOnSet(g, T)
  BY <1>5, SumRemove
<1>8. SumFunctionOnSet(g, T) = SumFunctionOnSet(f, T) /\ SumFunctionOnSet(f, T) \in Int
  BY <1>3, SumSame, SumType
<1>9. NetOf(t, x) \in Int
  BY <1>2
<1>10. Net(V, x) = Net(T, x) + NetOf(t, x) /\ Net(T, x) \in Int
  BY <1>1, <1>3, <1>6, <1>7, <1>8, <1>9
<1> QED BY <1>10 DEF V

-----------------------------------------------------------------------------
(***************************************************************************)
(* The parts of a block, as import reads them.                             *)
(***************************************************************************)
DeltaOf(b) == ReadDiff(b.file).delta.g
Rewarded(b) == DOMAIN ReadDiff(b.file).pow

IsBlock(b) ==
    /\ IsBook(DeltaOf(b).accounts) /\ DeltaOf(b).fees \in Nat
    /\ ReadDiff(b.file).delta.policies \in Int
    /\ Rewarded(b) \in Workers /\ b.lucky \in Rewarded(b)
    /\ {l[1] : l \in b.file.delta.g.accounts} = DOMAIN DeltaOf(b).accounts
    /\ {w[1] : w \in b.file.pow} = Rewarded(b)

\* get_newcash and what is left before it, after h blocks.
LeftAt(h) == IF h * Reward <= Supply THEN Supply - h * Reward ELSE 0
NewAt(h) == IF LeftAt(h) >= Reward THEN Reward ELSE LeftAt(h)

\* import: the accounts after a block.
After(accs, b, new) ==
    Spread(Overwrite(accs, DeltaOf(b).accounts), new + DeltaOf(b).fees, Rewarded(b), b.lucky)

\* What BlockAppliesItsTxs says of a block, between f and g.
Applies(f, g, b) ==
    \A x : LET diff == Balance(g, x) - Balance(f, x) - Net(DeltaOf(b).txs, x)
           IN  IF x \in Rewarded(b) THEN diff >= 0 ELSE diff = 0

\* Accounts that the blocks after the h-th change.
Changes(b) == {l[1] : l \in b.file.delta.g.accounts} \cup {w[1] : w \in b.file.pow}

ChangedAfter(c, h) == UNION {Changes(c[k]) : k \in (h+1)..Len(c)}

\* A[h] are the accounts after h blocks of the chain c.
IsHistory(A, c) ==
    /\ A[0] = NoAccounts
    /\ \A k \in 0..Len(c) : IsBook(A[k]) /\ Total(A[k]) + LeftAt(k) = Supply
    /\ \A k \in 1..Len(c) : A[k] = After(A[k-1], c[k], NewAt(k-1)) /\ Applies(A[k-1], A[k], c[k])
    /\ \A h \in 0..Len(c) : \A x : x \notin ChangedAfter(c, h) => SameAt(A[h], A[Len(c)], x)

\* What the pool p says of the accounts F: the txs it was made of, whose fees
\* are no one's yet, and those of a tx of which only the fees are added.
PoolMoney(p, early, F) ==
    /\ Total(Over(p.accounts, F)) = Total(F) - p.fees + early
    /\ \A x : Balance(Over(p.accounts, F), x) = Balance(F, x) + Net(p.txs, x)

\* The fees that are in the pool before their tx.
Early(j) == IF j # Idle /\ j.at = NumItems(j.tx) + 2 THEN Check(j.tx) ELSE 0

\* What the batch of the tx in process says of the accounts P.
JobMoney(j, P) ==
    /\ Total(Over(j.batch, P)) = Total(P) + Moved(j.tx, j.at)
    /\ \A x : Balance(Over(j.batch, P), x) = Balance(P, x) + MovedAt(j.tx, j.at, x)

\* The types.
ChainTypes ==
    /\ chain \in Seq(Range(chain)) /\ \A k \in DOMAIN chain : IsBlock(chain[k])
    /\ height \in 0..Len(chain) /\ Len(chain) <= MaxBlocks /\ clears \in 0..MaxClears

IsPool(p) ==
    /\ p = [accounts |-> p.accounts, fees |-> p.fees, min_fee |-> p.min_fee, txs |-> p.txs]
    /\ IsBook(p.accounts) /\ p.fees \in Nat
    /\ p.txs \in SUBSET Txs /\ IsFiniteSet(p.txs)

IsWork(j) ==
    /\ j = [tx |-> j.tx, at |-> j.at, batch |-> j.batch]
    /\ j.tx \in Txs /\ Check(j.tx) >= 0
    /\ j.at \in 1..(NumItems(j.tx) + 2) /\ IsBook(j.batch)

\* A tx is in one place, once.
TxTypes ==
    /\ calendar \in SUBSET seen /\ seen \in SUBSET Txs /\ pool.txs \in SUBSET (seen \ calendar)
    /\ \A t \in calendar : Check(t) >= 0
    /\ job # Idle => job.tx \in seen \ (calendar \cup pool.txs)

MoneyTypes ==
    /\ ScheduleOK
    /\ IsBook(accounts) /\ policies \in Int /\ policies_local \in Nat
    /\ IsPool(pool) /\ (job = Idle \/ IsWork(job)) /\ TxTypes
    /\ ChainTypes

\* The money, while no tx has straddled.
MoneyAt(A) ==
    LET F == A[Len(chain)]
    IN  /\ IsHistory(A, chain) /\ accounts = A[height]
        /\ PoolMoney(pool, Early(job), F)
        /\ job # Idle => /\ AddrsOf(job.tx) \cap ChangedAfter(chain, height) = {}
                         /\ JobMoney(job, Over(pool.accounts, F))

MoneyInv == MoneyTypes /\ straddled \in BOOLEAN /\ (~straddled => \E A : MoneyAt(A))

-----------------------------------------------------------------------------
(***************************************************************************)
(* Steps of process: one item.                                             *)
(***************************************************************************)

\* An item of t adds w to the account of c.
Moves(t, at, c, w) ==
    /\ Moved(t, at + 1) = Moved(t, at) + w
    /\ \A x : MovedAt(t, at + 1, x) = MovedAt(t, at, x) + (IF x = c THEN w ELSE 0)

\* process of one item: it is put in the batch.
PutsItem(c, v, w) ==
    /\ job' = [tx |-> job.tx, at |-> job.at + 1, batch |-> Over(Single(c, v), job.batch)]
    /\ v.box = Balance(AccountState, c) + w
    /\ Moves(job.tx, job.at, c, w)

\* account_state reads a book.
LEMMA WorkBook ==
    ASSUME MoneyTypes
    PROVE  IsBook(job.batch) /\ IsBook(AccountState)
<1>1. IsBook(job.batch)
  BY EmptyBook DEF MoneyTypes, IsWork, Idle
<1>2. IsBook(Over(pool.accounts, accounts))
  BY OverBook DEF MoneyTypes, IsPool
<1> QED BY <1>1, <1>2, OverBook DEF AccountState

\* There are no items to process in Idle.
LEMMA ItemsLeft ==
    ASSUME MoneyTypes, ProcessInput \/ ProcessOutput
    PROVE  IsWork(job) /\ job.at \in 1..NumItems(job.tx)
<1>1. job # Idle
  <2> SUFFICES ASSUME job = Idle PROVE FALSE
    OBVIOUS
  <2>1. job.at = 0 /\ Len(job.tx.inputs) = 0 /\ NumItems(job.tx) = 0
    BY DEF Idle, NoTx, NumItems
  <2> QED BY <2>1 DEF ProcessInput, ProcessOutput
<1>2. IsWork(job)
  BY <1>1 DEF MoneyTypes
<1> DEFINE n == Len(job.tx.inputs)
           m == Len(job.tx.outputs)
           k == NumItems(job.tx)
<1>3. n \in Nat /\ m \in Nat /\ k = n + m
  BY <1>2, TxItems DEF IsWork
<1>4. job.at \in 1..n \/ job.at \in (n + 1)..k
  BY DEF ProcessInput, ProcessOutput
<1> HIDE DEF n, m, k
<1>5. job.at \in 1..k
  BY <1>3, <1>4
<1> QED BY <1>2, <1>5 DEF k

\* An account with another balance.
LEMMA NewBalance ==
    ASSUME NEW accs, IsBook(accs), NEW c \in DOMAIN accs, NEW b \in Int
    PROVE  /\ [accs[c] EXCEPT !.box = b] \in Account /\ [accs[c] EXCEPT !.box = b].box = b
           /\ Balance(accs, c) = accs[c].box /\ accs[c].box \in Int
BY DEF IsBook, IsAccounts, Account, Balance

\* process of an input: it is rejected, or taken from its account.
LEMMA InputItem ==
    ASSUME MoneyTypes, ProcessInput, job' # Idle
    PROVE  \E c \in AddrsOf(job.tx), v \in Account, w \in Int : PutsItem(c, v, w)
<1> DEFINE t == job.tx
           at == job.at
           c == t.inputs[at].addr
           am == t.inputs[at].amount
           st == AccountState
           v == [st[c] EXCEPT !.box = st[c].box - am]
<1>1. IsWork(job) /\ t \in Txs /\ at \in DOMAIN t.inputs
  <2>1. IsWork(job)
    BY ItemsLeft
  <2>2. t \in Txs
    BY <2>1 DEF IsWork
  <2> QED BY <2>1, <2>2, TxItems DEF ProcessInput
<1>2. c \in DOMAIN st /\ job' = [job EXCEPT !.at = @ + 1, !.batch = Over(Single(c, v), @)]
  BY DEF ProcessInput, Reject, Batched
<1>3. am \in Int /\ c \in AddrsOf(t)
  BY <1>1, TxItems DEF AddrsOf
<1>4. IsBook(st)
  BY WorkBook
<1>5. job = [tx |-> t, at |-> at, batch |-> job.batch]
  BY <1>1 DEF IsWork
<1>6. Moves(t, at, c, 0 - am)
  <2>1. \A x : /\ Moved(t, at + 1) = Moved(t, at) - am
               /\ MovedAt(t, at + 1, x) = MovedAt(t, at, x) - (IF x = c THEN am ELSE 0)
    BY <1>1, MovedInput
  <2>2. at \in Int
    BY ItemsLeft
  <2>3. ASSUME NEW x PROVE Moved(t, at) \in Int /\ MovedAt(t, at, x) \in Int
    BY <1>1, <2>2, MovedInt
  <2> HIDE DEF t, at, c, am
  <2> QED BY <1>3, <2>1, <2>3 DEF Moves
<1> HIDE DEF t, at, c, am, st
<1>7. /\ v \in Account /\ v.box = st[c].box - am
      /\ Balance(st, c) = st[c].box /\ st[c].box \in Int
  <2> DEFINE b == st[c].box - am
  <2>1. b \in Int
    BY <1>2, <1>3, <1>4 DEF IsBook, IsAccounts, Account
  <2> HIDE DEF b
  <2>2. /\ [st[c] EXCEPT !.box = b] \in Account /\ [st[c] EXCEPT !.box = b].box = b
        /\ Balance(st, c) = st[c].box /\ st[c].box \in Int
    BY <1>2, <1>4, <2>1, NewBalance
  <2> QED BY <2>2 DEF b
<1> HIDE DEF v
<1>8. job' = [tx |-> t, at |-> at + 1, batch |-> Over(Single(c, v), job.batch)]
  BY <1>2, <1>5 DEF t, at
<1>9. v.box = Balance(st, c) + (0 - am)
  BY <1>3, <1>7
<1> DEFINE w == 0 - am
<1>10. PutsItem(c, v, w)
  <2>1. Moves(job.tx, job.at, c, w)
    BY <1>6 DEF t, at
  <2>2. job' = [tx |-> job.tx, at |-> job.at + 1, batch |-> Over(Single(c, v), job.batch)]
    BY <1>8 DEF t, at
  <2>3. v.box = Balance(AccountState, c) + w
    BY <1>9 DEF st
  <2> HIDE DEF w
  <2> QED BY <2>1, <2>2, <2>3 DEF PutsItem
<1>11. 0 - am \in Int /\ c \in AddrsOf(job.tx)
  BY <1>3 DEF t
<1> QED BY <1>7, <1>10, <1>11

\* process of an output: it is rejected, or given to its account.
LEMMA OutputItem ==
    ASSUME MoneyTypes, ProcessOutput, job' # Idle
    PROVE  \E c \in AddrsOf(job.tx), v \in Account, w \in Int : PutsItem(c, v, w)
<1> DEFINE t == job.tx
           at == job.at
           o == t.outputs[at - Len(t.inputs)]
           c == o.addr
           am == o.amount
           st == AccountState
           v1 == [program |-> o.program, box |-> o.amount]
           v2 == [st[c] EXCEPT !.box = st[c].box + am]
<1>1. /\ IsWork(job) /\ t \in Txs /\ at \in (Len(t.inputs) + 1)..NumItems(t)
  <2>1. IsWork(job)
    BY ItemsLeft
  <2>2. t \in Txs
    BY <2>1 DEF IsWork
  <2> QED BY <2>1, <2>2 DEF ProcessOutput
<1>2. /\ at - Len(t.inputs) \in DOMAIN t.outputs /\ at \in Int
  <2> DEFINE n == Len(t.inputs)
             m == Len(t.outputs)
  <2>1. n \in Nat /\ m \in Nat /\ NumItems(t) = n + m /\ DOMAIN t.outputs = 1..m /\ at \in (n + 1)..(n + m)
    BY <1>1, TxItems
  <2> HIDE DEF n, m, at
  <2>2. at - n \in 1..m /\ at \in Int
    BY <2>1
  <2> QED BY <2>1, <2>2 DEF n
<1>3. am \in Int /\ o.program \in Nat /\ c \in AddrsOf(t)
  <2> DEFINE j == at - Len(t.inputs)
  <2>1. j \in DOMAIN t.outputs
    BY <1>2
  <2> HIDE DEF j
  <2>2. t.outputs[j].amount \in Int /\ t.outputs[j].program \in Nat /\ t.outputs[j].addr \in AddrsOf(t)
    BY <1>1, <2>1, TxItems DEF AddrsOf
  <2> QED BY <2>2 DEF j
<1>4. IsBook(st)
  BY WorkBook
<1>5. job = [tx |-> t, at |-> at, batch |-> job.batch]
  BY <1>1 DEF IsWork
<1>6. Moves(t, at, c, am)
  <2>1. \A x : /\ Moved(t, at + 1) = Moved(t, at) + am
               /\ MovedAt(t, at + 1, x) = MovedAt(t, at, x) + (IF x = c THEN am ELSE 0)
    BY <1>1, MovedOutput
  <2> HIDE DEF t, at, c, am
  <2> QED BY <2>1 DEF Moves
<1>7. \/ c \notin DOMAIN st /\ job' = [job EXCEPT !.at = @ + 1, !.batch = Over(Single(c, v1), @)]
      \/ c \in DOMAIN st /\ job' = [job EXCEPT !.at = @ + 1, !.batch = Over(Single(c, v2), @)]
  BY DEF ProcessOutput, Reject, Batched
<1>8. v1 \in Account /\ v1.box = am
  <2> HIDE DEF o
  <2> QED BY <1>3 DEF Account
<1> HIDE DEF t, at, c, am, st
<1>9. CASE c \notin DOMAIN st /\ job' = [job EXCEPT !.at = @ + 1, !.batch = Over(Single(c, v1), @)]
  <2> HIDE DEF v1
  <2>1. job' = [tx |-> t, at |-> at + 1, batch |-> Over(Single(c, v1), job.batch)]
    BY <1>5, <1>9 DEF t, at
  <2>2. v1.box = Balance(st, c) + am
    BY <1>3, <1>8, <1>9 DEF Balance
  <2>3. PutsItem(c, v1, am) /\ c \in AddrsOf(job.tx)
    BY <1>3, <1>6, <2>1, <2>2 DEF PutsItem, t, at, st
  <2> QED BY <1>3, <1>8, <2>3
<1>10. CASE c \in DOMAIN st /\ job' = [job EXCEPT !.at = @ + 1, !.batch = Over(Single(c, v2), @)]
  <2>1. /\ v2 \in Account /\ v2.box = st[c].box + am
        /\ Balance(st, c) = st[c].box /\ st[c].box \in Int
    <3> DEFINE b == st[c].box + am
    <3>1. b \in Int
      BY <1>3, <1>4, <1>10 DEF IsBook, IsAccounts, Account
    <3> HIDE DEF b
    <3>2. /\ [st[c] EXCEPT !.box = b] \in Account /\ [st[c] EXCEPT !.box = b].box = b
          /\ Balance(st, c) = st[c].box /\ st[c].box \in Int
      BY <1>4, <1>10, <3>1, NewBalance
    <3> QED BY <3>2 DEF b
  <2> HIDE DEF v2
  <2>2. job' = [tx |-> t, at |-> at + 1, batch |-> Over(Single(c, v2), job.batch)]
    BY <1>5, <1>10 DEF t, at
  <2>3. v2.box = Balance(st, c) + am
    BY <2>1
  <2>4. PutsItem(c, v2, am) /\ c \in AddrsOf(job.tx)
    BY <1>3, <1>6, <2>2, <2>3 DEF PutsItem, t, at, st
  <2> QED BY <1>3, <2>1, <2>4
<1> QED BY <1>7, <1>9, <1>10

-----------------------------------------------------------------------------
(***************************************************************************)
(* The blocks that create_local_delta makes.                               *)
(***************************************************************************)

\* local_delta::local_delta
LEMMA EmptyIsPool == IsPool(EmptyPool)
BY EmptyBook, FS_EmptySet DEF IsPool, EmptyPool

\* What a node has merged: each delta is the pool of this node or an empty
\* one, with a vote.
LEMMA MadeIs ==
    ASSUME MoneyTypes, NEW ws \in Workers, NEW made \in LocalDeltas(ws)
    PROVE  /\ DOMAIN made = ws
           /\ \A w \in ws : \E p \in {pool, EmptyPool}, v \in Nat : made[w] = AddPolicies(p, v)
<1>1. PICK others \in [ws \ {Self} -> {AddPolicies(q, u) : q \in {pool, EmptyPool}, u \in OtherFees}] :
        made = Over(Single(Self, AddPolicies(pool, policies_local)), others)
  BY DEF LocalDeltas
<1>2. DOMAIN made = ws
  BY <1>1, WorkersAssumption DEF Over, Single
<1>3. ASSUME NEW w \in ws
      PROVE  \E p \in {pool, EmptyPool}, v \in Nat : made[w] = AddPolicies(p, v)
  <2>1. CASE w = Self
    <3>1. made[w] = AddPolicies(pool, policies_local)
      BY <1>1, <2>1 DEF Over, Single
    <3> QED BY <3>1 DEF MoneyTypes
  <2>2. CASE w # Self
    <3>1. w \in ws \ {Self} /\ made[w] = others[w]
      BY <1>1, <2>2 DEF Over, Single
    <3>2. others[w] \in {AddPolicies(q, u) : q \in {pool, EmptyPool}, u \in OtherFees}
      BY <3>1
    <3> QED BY <3>1, <3>2, MinFeesAssumption
  <2> QED BY <2>1, <2>2
<1> QED BY <1>2, <1>3

\* add_policies changes only the vote.
LEMMA PoliciesOf ==
    ASSUME NEW p, IsPool(p), NEW v
    PROVE  AddPolicies(p, v) = [accounts |-> p.accounts, fees |-> p.fees, min_fee |-> v, txs |-> p.txs]
BY DEF AddPolicies, IsPool

\* average_merger gives an integer.
LEMMA PoliciesInt ==
    ASSUME MoneyTypes, NEW ws \in Workers, NEW made \in LocalDeltas(ws)
    PROVE  MergedPolicies(made) \in Int
<1> DEFINE f == [w \in DOMAIN made |-> made[w].min_fee]
           n == Cardinality(DOMAIN made)
<1>1. DOMAIN made = ws /\ IsFiniteSet(ws) /\ ws # {}
  BY MadeIs, WorkersAssumption
<1>2. \A w \in ws : f[w] \in Int
  <2> SUFFICES ASSUME NEW w \in ws PROVE made[w].min_fee \in Int
    BY <1>1
  <2>1. PICK p \in {pool, EmptyPool}, v \in Nat : made[w] = AddPolicies(p, v)
    BY MadeIs
  <2>2. IsPool(p)
    BY EmptyIsPool DEF MoneyTypes
  <2> QED BY <2>1, <2>2, PoliciesOf
<1>3. DOMAIN f = ws /\ MergeVotes(made) = SumFunctionOnSet(f, DOMAIN f)
  BY <1>1 DEF MergeVotes, SumFunction
<1> HIDE DEF f
<1>4. MergeVotes(made) \in Int
  BY <1>1, <1>2, <1>3, SumType
<1>5. n \in Nat /\ n # 0
  BY <1>1, FS_CardinalityType, FS_EmptySet
<1>6. MergedPolicies(made) = MergeVotes(made) \div n
  BY DEF MergedPolicies, Average
<1> HIDE DEF n
<1> QED BY <1>4, <1>5, <1>6

\* The block of a cycle: the pool of this node or an empty one.
IsBlockOf(b, p, ws) ==
    /\ IsBlock(b)
    /\ DeltaOf(b) = [accounts |-> p.accounts, fees |-> p.fees, txs |-> p.txs]
    /\ Rewarded(b) = ws

\* create_local_delta makes a block of this pool, or of an empty one.
LEMMA NewBlock ==
    ASSUME MoneyTypes, NEW ws \in Workers, CreateLocalDelta(ws)
    PROVE  \E b : \E p \in {pool, EmptyPool} : chain' = Append(chain, b) /\ IsBlockOf(b, p, ws)
<1>1. PICK made \in LocalDeltas(ws), lucky \in ws : \E elected \in Majority(made) :
        chain' = Append(chain, [file |-> WriteDiff(Len(chain), Merged(made, elected), Allow(made)), lucky |-> lucky])
  BY DEF CreateLocalDelta
<1>2. PICK elected \in Majority(made) :
        chain' = Append(chain, [file |-> WriteDiff(Len(chain), Merged(made, elected), Allow(made)), lucky |-> lucky])
  BY <1>1
<1>3. DOMAIN made = ws
  BY MadeIs
<1>4. PICK p \in {pool, EmptyPool} : \E v \in Nat : elected = AddPolicies(p, v)
  <2>1. PICK w \in DOMAIN made : elected = made[w]
    BY DEF Majority, Range
  <2> QED BY <1>3, <2>1, MadeIs
<1>5. IsPool(p)
  BY EmptyIsPool DEF MoneyTypes
<1>6. elected.accounts = p.accounts /\ elected.fees = p.fees /\ elected.txs = p.txs
  BY <1>4, <1>5, PoliciesOf
<1> DEFINE f == WriteDiff(Len(chain), Merged(made, elected), Allow(made))
           b == [file |-> f, lucky |-> lucky]
           lines == WriteAccounts(p.accounts)
<1>7. /\ f.delta = [g |-> [accounts |-> lines, fees |-> p.fees, txs |-> p.txs], policies |-> MergedPolicies(made)]
      /\ f.pow = {<<w, Allow(made)[w]>> : w \in DOMAIN Allow(made)}
  BY <1>6 DEF WriteDiff, WriteDelta, Merged, WriteLocalDelta
<1>8. ReadAccounts(lines) = p.accounts /\ {l[1] : l \in lines} = DOMAIN p.accounts
  BY <1>5, ReadsAccounts DEF IsPool
<1>9. {w[1] : w \in f.pow} = ws
  <2> HIDE DEF f
  <2>1. f.pow = {<<w, 0>> : w \in ws}
    BY <1>3, <1>7 DEF Allow
  <2>2. ASSUME NEW x \in {w[1] : w \in f.pow} PROVE x \in ws
    BY <2>1
  <2>3. ASSUME NEW x \in ws PROVE x \in {w[1] : w \in f.pow}
    <3>1. <<x, 0>> \in f.pow /\ <<x, 0>>[1] = x
      BY <2>1
    <3> QED BY <3>1
  <2> QED BY <2>2, <2>3
<1> HIDE DEF f, lines
<1>10. /\ DeltaOf(b) = [accounts |-> p.accounts, fees |-> p.fees, txs |-> p.txs]
       /\ ReadDiff(b.file).delta.policies = MergedPolicies(made)
       /\ Rewarded(b) = ws
  <2>1. /\ ReadDiff(b.file).delta = ReadDelta(f.delta)
        /\ Rewarded(b) = {w[1] : w \in f.pow}
    BY DEF ReadDiff, Rewarded
  <2>2. ReadDelta(f.delta) = [g |-> ReadLocalDelta([accounts |-> lines, fees |-> p.fees, txs |-> p.txs]), policies |-> MergedPolicies(made)]
    BY <1>7 DEF ReadDelta
  <2>3. ReadLocalDelta([accounts |-> lines, fees |-> p.fees, txs |-> p.txs]) = [accounts |-> p.accounts, fees |-> p.fees, txs |-> p.txs]
    BY <1>8 DEF ReadLocalDelta
  <2> DEFINE r == [accounts |-> p.accounts, fees |-> p.fees, txs |-> p.txs]
  <2>4. ReadDiff(b.file).delta = [g |-> r, policies |-> MergedPolicies(made)]
    BY <2>1, <2>2, <2>3
  <2> HIDE DEF r
  <2>5. ReadDiff(b.file).delta.g = r /\ ReadDiff(b.file).delta.policies = MergedPolicies(made)
    BY <2>4
  <2>6. Rewarded(b) = ws
    BY <1>9, <2>1
  <2> QED BY <2>5, <2>6 DEF DeltaOf, r
<1>11. IsBlock(b)
  <2>1. /\ IsBook(DeltaOf(b).accounts) /\ DeltaOf(b).fees \in Nat
        /\ DOMAIN DeltaOf(b).accounts = DOMAIN p.accounts
    BY <1>5, <1>10 DEF IsPool
  <2>2. ReadDiff(b.file).delta.policies \in Int
    BY <1>10, PoliciesInt
  <2>3. Rewarded(b) \in Workers /\ b.lucky \in Rewarded(b)
    BY <1>10
  <2>4. b.file = f /\ f.delta.g.accounts = lines
    BY <1>7
  <2>5. {l[1] : l \in b.file.delta.g.accounts} = DOMAIN DeltaOf(b).accounts
    BY <1>8, <2>1, <2>4
  <2>6. {w[1] : w \in b.file.pow} = Rewarded(b)
    BY <1>9, <1>10, <2>4
  <2> HIDE DEF b
  <2> QED BY <2>1, <2>2, <2>3, <2>5, <2>6 DEF IsBlock
<1>12. chain' = Append(chain, b)
  BY <1>2 DEF f
<1> HIDE DEF b
<1>13. IsBlockOf(b, p, ws)
  BY <1>10, <1>11 DEF IsBlockOf
<1> QED BY <1>12, <1>13

-----------------------------------------------------------------------------
(***************************************************************************)
(* The types of all variables, whether or not a tx has straddled.          *)
(***************************************************************************)

\* What is left of the supply, block by block.
LEMMA LeftNext ==
    ASSUME NEW h \in Nat
    PROVE  /\ LeftAt(h) \in Nat /\ NewAt(h) \in Nat
           /\ LeftAt(h + 1) = LeftAt(h) - NewAt(h)
<1> DEFINE d == h * Reward
           e == (h + 1) * Reward
<1>1. d \in Nat /\ e = d + Reward
  BY SupplyAssumption, NextReward
<1>2. /\ LeftAt(h) = IF d <= Supply THEN Supply - d ELSE 0
      /\ LeftAt(h + 1) = IF e <= Supply THEN Supply - e ELSE 0
  BY DEF LeftAt
<1>3. NewAt(h) = IF LeftAt(h) >= Reward THEN Reward ELSE LeftAt(h)
  BY DEF NewAt
<1> HIDE DEF d, e
<1>4. LeftAt(h) \in Nat
  BY <1>1, <1>2, SupplyAssumption
<1> QED BY <1>1, <1>2, <1>3, <1>4, SupplyAssumption

\* What RewardSchedule says of supply_left and get_newcash.
LEMMA LeftIs ==
    ASSUME ScheduleOK
    PROVE  supply_left = LeftAt(height) /\ Newcash = NewAt(height)
<1> DEFINE d == height * Reward
<1>1. d \in Nat
  BY NextReward, SupplyAssumption DEF ScheduleOK
<1>2. \/ d <= Supply /\ supply_left = Supply - d /\ block_reward = Reward
      \/ d > Supply /\ supply_left = 0
  BY DEF ScheduleOK
<1>3. LeftAt(height) = IF d <= Supply THEN Supply - d ELSE 0
  BY DEF LeftAt
<1>4. /\ NewAt(height) = IF LeftAt(height) >= Reward THEN Reward ELSE LeftAt(height)
      /\ Newcash = IF supply_left >= block_reward THEN block_reward ELSE supply_left
      /\ block_reward \in Nat
  BY DEF NewAt, Newcash, ScheduleOK
<1> HIDE DEF d
<1>5. supply_left = LeftAt(height)
  BY <1>1, <1>2, <1>3, SupplyAssumption
<1>6. CASE d <= Supply
  BY <1>1, <1>2, <1>4, <1>5, <1>6, SupplyAssumption
<1>7. CASE d > Supply
  BY <1>1, <1>2, <1>4, <1>5, <1>7, SupplyAssumption
<1> QED BY <1>1, <1>5, <1>6, <1>7, SupplyAssumption

\* import: what a block does to the accounts.
IsAfter(f, accs, b, new) ==
    LET delta == DeltaOf(b).accounts
    IN  /\ Total(f) = Total(Over(delta, accs)) + (new + DeltaOf(b).fees)
        /\ \A x : x \notin DOMAIN delta \cup Rewarded(b) => SameAt(f, accs, x)
        /\ \A x : /\ Balance(f, x) >= Balance(Over(delta, accs), x)
                  /\ x \notin Rewarded(b) => Balance(f, x) = Balance(Over(delta, accs), x)

\* import of a block: the total grows by the reward and the fees.
LEMMA AfterBook ==
    ASSUME NEW accs, IsBook(accs), NEW b, IsBlock(b), NEW new \in Nat
    PROVE  IsBook(After(accs, b, new)) /\ IsAfter(After(accs, b, new), accs, b, new)
<1> DEFINE delta == DeltaOf(b).accounts
           ws == Rewarded(b)
           total == new + DeltaOf(b).fees
           mid == Overwrite(accs, delta)
           over == Over(delta, accs)
           f == After(accs, b, new)
<1>1. IsBook(delta) /\ total \in Nat /\ IsFiniteSet(ws) /\ ws \subseteq Addrs /\ b.lucky \in ws
  BY WorkersAssumption DEF IsBlock
<1>2. f = Spread(mid, total, ws, b.lucky)
  BY DEF After
<1> HIDE DEF delta, ws, total
<1>3. /\ IsBook(mid)
      /\ \A x : x \notin DOMAIN delta => SameAt(mid, accs, x)
      /\ \A x : Balance(mid, x) = Balance(over, x)
  BY <1>1, OverwriteBook
<1>4. IsBook(over)
  BY <1>1, OverBook
<1> HIDE DEF mid, over, f
<1>5. /\ IsBook(f)
      /\ Total(f) = Total(mid) + total
      /\ \A x : x \notin ws => SameAt(f, mid, x)
      /\ \A x : Balance(f, x) >= Balance(mid, x)
  BY <1>1, <1>2, <1>3, SpreadBook
<1>6. Total(mid) = Total(over)
  BY <1>3, <1>4, TotalSame
<1>7. \A x : x \notin DOMAIN delta \cup ws => SameAt(f, accs, x)
  BY <1>3, <1>5 DEF SameAt
<1>8. \A x : /\ Balance(f, x) >= Balance(over, x)
             /\ x \notin ws => Balance(f, x) = Balance(over, x)
  <2> SUFFICES ASSUME NEW x PROVE /\ Balance(f, x) >= Balance(over, x)
                                  /\ x \notin ws => Balance(f, x) = Balance(over, x)
    OBVIOUS
  <2>1. Balance(f, x) >= Balance(mid, x) /\ Balance(mid, x) = Balance(over, x)
    BY <1>3, <1>5
  <2>2. ASSUME x \notin ws PROVE Balance(f, x) = Balance(mid, x)
    BY <1>5, <2>2 DEF SameAt, Balance
  <2> QED BY <2>1, <2>2
<1>9. IsAfter(f, accs, b, new)
  BY <1>5, <1>6, <1>7, <1>8 DEF IsAfter, total, ws, delta, over
<1> QED BY <1>5, <1>9 DEF f

\* Import, in terms of the block it imports.
LEMMA ImportIs ==
    ASSUME MoneyTypes, Import
    PROVE  /\ height + 1 \in 1..Len(chain) /\ height \in Nat /\ IsBlock(chain[height + 1])
           /\ accounts' = After(accounts, chain[height + 1], NewAt(height))
           /\ NewAt(height) \in Nat
<1>1. height \in Nat /\ Len(chain) \in Nat /\ height < Len(chain) /\ DOMAIN chain = 1..Len(chain)
  BY DEF MoneyTypes, ChainTypes, Import, Pending
<1>2. height + 1 \in 1..Len(chain)
  BY <1>1
<1>3. IsBlock(chain[height + 1])
  BY <1>1, <1>2 DEF MoneyTypes, ChainTypes
<1>4. Newcash = NewAt(height)
  BY LeftIs DEF MoneyTypes
<1>5. accounts' = After(accounts, chain[height + 1], Newcash)
  BY DEF Import, After, DeltaOf, Rewarded
<1> QED BY <1>1, <1>2, <1>3, <1>4, <1>5, LeftNext

\* The chain, with a block more.
LEMMA ChainGrows ==
    ASSUME ChainTypes, NEW b, chain' = Append(chain, b)
    PROVE  /\ Len(chain) \in Nat /\ DOMAIN chain = 1..Len(chain)
           /\ chain' \in Seq(Range(chain'))
           /\ Len(chain') = Len(chain) + 1 /\ DOMAIN chain' = 1..(Len(chain) + 1)
           /\ \A k \in 1..Len(chain) : chain'[k] = chain[k]
           /\ chain'[Len(chain) + 1] = b
<1> DEFINE R == Range(chain) \cup {b}
<1>1. chain \in Seq(Range(chain))
  BY DEF ChainTypes
<1>2. /\ chain' \in Seq(R) /\ Len(chain') = Len(chain) + 1
      /\ \A k \in 1..Len(chain) : chain'[k] = chain[k]
      /\ chain'[Len(chain) + 1] = b
  BY <1>1
<1>3. DOMAIN chain = 1..Len(chain) /\ DOMAIN chain' = 1..(Len(chain) + 1) /\ Len(chain) \in Nat
  BY <1>1, <1>2
<1>4. chain' \in Seq(Range(chain'))
  BY <1>2 DEF Range
<1> QED BY <1>2, <1>3, <1>4

-----------------------------------------------------------------------------
\* Every step keeps the types.

\* The parts of Idle.
LEMMA IdleIs == Idle.batch = NoAccounts /\ Idle.at = 0 /\ Idle.tx = NoTx
BY DEF Idle

\* parse_evidence keeps the types.
LEMMA ParseTypes ==
    ASSUME MoneyTypes, NEW t \in Txs, ParseEvidence(t)
    PROVE  TxTypes' /\ UNCHANGED <<accounts, policies, policies_local, pool, job, chain, height, clears>>
<1>1. PICK w \in Payloads(t) :
        /\ ~Read(w).err /\ BasicCheck(Read(w).tx)
        /\ calendar' = calendar \cup {Read(w).tx} /\ seen' = seen \cup {Read(w).tx}
  BY DEF ParseEvidence
<1>2. Read(w).tx = t
  BY <1>1, ReadsWhatWasWritten
<1>3. /\ calendar' = calendar \cup {t} /\ seen' = seen \cup {t} /\ t \notin seen
      /\ policies >= 0 /\ Check(t) >= policies
  BY <1>1, <1>2 DEF ParseEvidence, BasicCheck
<1>4. Check(t) \in Int
  <2> DEFINE at == NumItems(t) + 1
  <2>1. NumItems(t) \in Nat
    BY TxItems
  <2>2. at \in Int /\ at > NumItems(t)
    BY <2>1
  <2> HIDE DEF at
  <2> QED BY <2>2, MovedEnd
<1>5. Check(t) >= 0
  BY <1>3, <1>4 DEF MoneyTypes
<1>6. UNCHANGED <<accounts, policies, policies_local, pool, job, chain, height, clears>>
  BY DEF ParseEvidence, db
<1>7. TxTypes'
  BY <1>3, <1>5, <1>6 DEF MoneyTypes, TxTypes
<1> QED BY <1>6, <1>7

\* The begin of process keeps the types.
LEMMA BeginTypes ==
    ASSUME MoneyTypes, NEW t \in Txs, BeginProcess(t)
    PROVE  /\ TxTypes' /\ (job' = Idle \/ IsWork(job'))
           /\ UNCHANGED <<accounts, policies, policies_local, pool, chain, height, clears>>
<1>1. UNCHANGED <<accounts, policies, policies_local, pool, chain, height, clears, seen>>
  BY DEF BeginProcess, db
<1>2. t \in calendar /\ calendar' = calendar \ {t} /\ job = Idle
  BY DEF BeginProcess
<1>3. CASE job' = job
  BY <1>1, <1>2, <1>3 DEF MoneyTypes, TxTypes
<1>4. CASE job' = [tx |-> t, at |-> 1, batch |-> NoAccounts]
  <2>1. job'.tx = t /\ job'.at = 1 /\ job'.batch = NoAccounts
    BY <1>4
  <2>2. NumItems(t) \in Nat
    BY TxItems
  <2>3. 1 \in 1..(NumItems(t) + 2)
    BY <2>2
  <2>4. Check(t) >= 0
    BY <1>2 DEF MoneyTypes, TxTypes
  <2>5. IsWork(job')
    BY <1>4, <2>1, <2>3, <2>4, EmptyBook DEF IsWork
  <2>6. TxTypes'
    BY <1>1, <1>2, <2>1 DEF MoneyTypes, TxTypes
  <2> QED BY <1>1, <2>5, <2>6
<1> QED BY <1>3, <1>4 DEF BeginProcess

\* process of an item keeps the types.
LEMMA ItemTypes ==
    ASSUME MoneyTypes, ProcessInput \/ ProcessOutput
    PROVE  /\ TxTypes' /\ (job' = Idle \/ IsWork(job'))
           /\ UNCHANGED <<accounts, policies, policies_local, pool, chain, height, clears>>
<1>1. UNCHANGED <<accounts, policies, policies_local, pool, chain, height, clears, seen, calendar>>
  BY DEF ProcessInput, ProcessOutput, db
<1>2. CASE job' = Idle
  BY <1>1, <1>2 DEF MoneyTypes, TxTypes
<1>3. CASE job' # Idle
  <2>1. IsWork(job) /\ job.at \in 1..NumItems(job.tx)
    BY ItemsLeft
  <2>2. PICK c \in AddrsOf(job.tx), v \in Account, w \in Int : PutsItem(c, v, w)
    BY <1>3, InputItem, OutputItem
  <2>3. c \in Addrs
    BY <2>1, TxItems DEF IsWork, AddrsOf
  <2> DEFINE bt == Over(Single(c, v), job.batch)
  <2>4. job' = [tx |-> job.tx, at |-> job.at + 1, batch |-> bt]
    BY <2>2 DEF PutsItem
  <2>5. IsBook(bt)
    BY <2>1, <2>3, PutBook DEF IsWork
  <2>6. NumItems(job.tx) \in Nat
    BY <2>1, TxItems DEF IsWork
  <2>7. job.at + 1 \in 1..(NumItems(job.tx) + 2)
    BY <2>1, <2>6
  <2> HIDE DEF bt
  <2>8. job'.tx = job.tx /\ job'.at = job.at + 1 /\ job'.batch = bt
    BY <2>4
  <2>9. IsWork(job')
    BY <2>1, <2>4, <2>5, <2>7, <2>8 DEF IsWork
  <2>10. job # Idle
    BY <2>1, IdleIs
  <2>11. TxTypes'
    BY <1>1, <2>8, <2>10 DEF MoneyTypes, TxTypes
  <2> QED BY <1>1, <2>9, <2>11
<1> QED BY <1>2, <1>3

\* The two writes to the pool keep the types.
LEMMA CommitTypes ==
    ASSUME MoneyTypes, CommitFees \/ CommitAccounts
    PROVE  /\ TxTypes' /\ (job' = Idle \/ IsWork(job')) /\ IsPool(pool')
           /\ UNCHANGED <<accounts, policies, policies_local, chain, height, clears>>
<1>1. UNCHANGED <<accounts, policies, policies_local, chain, height, clears, seen, calendar>>
  BY DEF CommitFees, CommitAccounts, db
<1>2. job # Idle /\ IsWork(job) /\ IsPool(pool)
  BY DEF CommitFees, CommitAccounts, MoneyTypes
<1>3. NumItems(job.tx) \in Nat /\ Check(job.tx) \in Int /\ job.tx \in Txs /\ Check(job.tx) >= 0
  <2>1. job.tx \in Txs /\ Check(job.tx) >= 0
    BY <1>2 DEF IsWork
  <2> DEFINE at == NumItems(job.tx) + 1
  <2>2. NumItems(job.tx) \in Nat
    BY <2>1, TxItems
  <2>3. at \in Int /\ at > NumItems(job.tx)
    BY <2>2
  <2> HIDE DEF at
  <2> QED BY <2>1, <2>2, <2>3, MovedEnd
<1>4. CASE CommitFees
  <2>1. job.at = NumItems(job.tx) + 1
    BY <1>4 DEF CommitFees
  <2>2. job' = [tx |-> job.tx, at |-> job.at + 1, batch |-> job.batch]
    BY <1>2, <1>4 DEF CommitFees, IsWork
  <2>3. pool' = [accounts |-> pool.accounts, fees |-> pool.fees + Check(job.tx), min_fee |-> pool.min_fee, txs |-> pool.txs]
    BY <1>2, <1>4 DEF CommitFees, IsPool
  <2>4. job.at + 1 \in 1..(NumItems(job.tx) + 2)
    BY <1>3, <2>1
  <2>5. IsWork(job') /\ job'.tx = job.tx
    BY <1>2, <2>2, <2>4 DEF IsWork
  <2>6. IsPool(pool') /\ pool'.txs = pool.txs
    <3>1. pool.fees + Check(job.tx) \in Nat
      BY <1>2, <1>3 DEF IsPool
    <3> DEFINE s == pool.fees + Check(job.tx)
    <3>2. pool' = [accounts |-> pool.accounts, fees |-> s, min_fee |-> pool.min_fee, txs |-> pool.txs] /\ s \in Nat
      BY <2>3, <3>1
    <3> HIDE DEF s
    <3> QED BY <1>2, <3>2 DEF IsPool
  <2>7. TxTypes'
    BY <1>1, <1>2, <2>5, <2>6 DEF MoneyTypes, TxTypes
  <2> QED BY <1>1, <2>5, <2>6, <2>7
<1>5. CASE CommitAccounts
  <2>1. job' = Idle
    BY <1>5 DEF CommitAccounts
  <2> DEFINE as == Over(job.batch, pool.accounts)
             ts == pool.txs \cup {job.tx}
  <2>2. pool' = [accounts |-> as, fees |-> pool.fees, min_fee |-> pool.min_fee, txs |-> ts]
    BY <1>2, <1>5 DEF CommitAccounts, IsPool
  <2>3. IsBook(as)
    BY <1>2, OverBook DEF IsWork, IsPool
  <2>4. ts \in SUBSET Txs /\ IsFiniteSet(ts)
    BY <1>2, <1>3, FS_AddElement DEF IsPool
  <2> HIDE DEF as, ts
  <2>5. IsPool(pool') /\ pool'.txs = ts
    BY <1>2, <2>2, <2>3, <2>4 DEF IsPool
  <2>6. TxTypes'
    BY <1>1, <1>2, <2>1, <2>5 DEF MoneyTypes, TxTypes, ts
  <2> QED BY <1>1, <2>1, <2>5, <2>6
<1> QED BY <1>4, <1>5

\* create_local_delta keeps the types.
LEMMA CreateTypes ==
    ASSUME MoneyTypes, NEW ws \in Workers, CreateLocalDelta(ws)
    PROVE  /\ TxTypes' /\ IsPool(pool') /\ ChainTypes'
           /\ UNCHANGED <<accounts, policies, policies_local, job, height, clears>>
<1>1. UNCHANGED <<accounts, policies, policies_local, job, height, clears, seen, calendar>> /\ pool' = EmptyPool
  BY DEF CreateLocalDelta, db
<1>2. PICK b : \E p \in {pool, EmptyPool} : chain' = Append(chain, b) /\ IsBlockOf(b, p, ws)
  BY NewBlock
<1>3. chain' = Append(chain, b) /\ IsBlock(b)
  BY <1>2 DEF IsBlockOf
<1>4. /\ Len(chain) \in Nat /\ DOMAIN chain = 1..Len(chain)
      /\ chain' \in Seq(Range(chain'))
      /\ Len(chain') = Len(chain) + 1 /\ DOMAIN chain' = 1..(Len(chain) + 1)
      /\ \A k \in 1..Len(chain) : chain'[k] = chain[k]
      /\ chain'[Len(chain) + 1] = b
  BY <1>3, ChainGrows DEF MoneyTypes
<1>5. \A k \in DOMAIN chain' : IsBlock(chain'[k])
  <2> SUFFICES ASSUME NEW k \in DOMAIN chain' PROVE IsBlock(chain'[k])
    OBVIOUS
  <2>1. CASE k \in 1..Len(chain)
    <3>1. chain'[k] = chain[k] /\ IsBlock(chain[k])
      BY <1>4, <2>1 DEF MoneyTypes, ChainTypes
    <3> QED BY <3>1
  <2>2. CASE k = Len(chain) + 1
    BY <1>3, <1>4, <2>2
  <2> QED BY <1>4, <2>1, <2>2
<1>6. height' \in 0..Len(chain') /\ Len(chain') <= MaxBlocks /\ clears' \in 0..MaxClears
  <2>1. Len(chain) < MaxBlocks /\ height \in 0..Len(chain) /\ clears \in 0..MaxClears
    BY DEF CreateLocalDelta, MoneyTypes, ChainTypes
  <2> QED BY <1>1, <1>4, <2>1, MaxAssumption
<1>7. ChainTypes'
  BY <1>4, <1>5, <1>6 DEF ChainTypes, IsBlock
<1>8. IsPool(pool') /\ pool'.txs = {}
  BY <1>1, EmptyIsPool DEF EmptyPool
<1>9. TxTypes'
  BY <1>1, <1>8 DEF MoneyTypes, TxTypes
<1> QED BY <1>1, <1>7, <1>8, <1>9

\* import keeps the types.
LEMMA ImportTypes ==
    ASSUME MoneyTypes, Import
    PROVE  /\ IsBook(accounts') /\ policies' \in Int /\ ChainTypes'
           /\ UNCHANGED <<policies_local, pool, calendar, seen, job>>
<1>1. UNCHANGED <<policies_local, pool, calendar, seen, job, chain, clears>> /\ height' = height + 1
  BY DEF Import
<1>2. /\ height + 1 \in 1..Len(chain) /\ height \in Nat /\ IsBlock(chain[height + 1])
      /\ accounts' = After(accounts, chain[height + 1], NewAt(height)) /\ NewAt(height) \in Nat
  BY ImportIs
<1>3. IsBook(accounts')
  BY <1>2, AfterBook DEF MoneyTypes
<1>4. policies' \in Int
  BY <1>2 DEF Import, IsBlock
<1>5. ChainTypes'
  BY <1>1, <1>2 DEF MoneyTypes, ChainTypes
<1> QED BY <1>1, <1>3, <1>4, <1>5

\* Every step keeps the types.
LEMMA TypesStep ==
    ASSUME MoneyTypes, [Next]_vars
    PROVE  MoneyTypes'
<1>0. ScheduleOK'
  BY ScheduleStep DEF MoneyTypes
<1> USE DEF MoneyTypes
<1>1. ASSUME NEW t \in Txs, ParseEvidence(t) PROVE MoneyTypes'
  <2>1. TxTypes' /\ UNCHANGED <<accounts, policies, policies_local, pool, job, chain, height, clears>>
    BY <1>1, ParseTypes
  <2> QED BY <1>0, <2>1 DEF ChainTypes
<1>2. ASSUME NEW t \in Txs, BeginProcess(t) PROVE MoneyTypes'
  <2>1. /\ TxTypes' /\ (job' = Idle \/ IsWork(job'))
        /\ UNCHANGED <<accounts, policies, policies_local, pool, chain, height, clears>>
    BY <1>2, BeginTypes
  <2> QED BY <1>0, <2>1 DEF ChainTypes
<1>3. CASE ProcessInput \/ ProcessOutput
  <2>1. /\ TxTypes' /\ (job' = Idle \/ IsWork(job'))
        /\ UNCHANGED <<accounts, policies, policies_local, pool, chain, height, clears>>
    BY <1>3, ItemTypes
  <2> QED BY <1>0, <2>1 DEF ChainTypes
<1>4. CASE CommitFees \/ CommitAccounts
  <2>1. /\ TxTypes' /\ (job' = Idle \/ IsWork(job')) /\ IsPool(pool')
        /\ UNCHANGED <<accounts, policies, policies_local, chain, height, clears>>
    BY <1>4, CommitTypes
  <2> QED BY <1>0, <2>1 DEF ChainTypes
<1>5. ASSUME NEW ws \in Workers, CreateLocalDelta(ws) PROVE MoneyTypes'
  <2>1. /\ TxTypes' /\ IsPool(pool') /\ ChainTypes'
        /\ UNCHANGED <<accounts, policies, policies_local, job, height, clears>>
    BY <1>5, CreateTypes
  <2> QED BY <1>0, <2>1
<1>6. CASE Import
  <2>1. /\ IsBook(accounts') /\ policies' \in Int /\ ChainTypes'
        /\ UNCHANGED <<policies_local, pool, calendar, seen, job>>
    BY <1>6, ImportTypes
  <2> QED BY <1>0, <2>1 DEF TxTypes
<1>7. CASE Clear
  <2>1. /\ accounts' = NoAccounts /\ policies' = 0 /\ height' = 0 /\ clears' \in 0..MaxClears
        /\ UNCHANGED <<policies_local, pool, calendar, seen, job, chain>>
    BY <1>7, MaxAssumption DEF Clear, ChainTypes, NoPolicies
  <2>2. IsBook(accounts') /\ policies' \in Int
    BY <2>1, EmptyBook
  <2>3. ChainTypes'
    BY <2>1 DEF ChainTypes
  <2>4. TxTypes'
    BY <2>1 DEF TxTypes
  <2> QED BY <1>0, <2>1, <2>2, <2>3, <2>4
<1>8. ASSUME NEW v \in MinFees, SetPolicy(v) PROVE MoneyTypes'
  <2>1. policies_local' \in Nat /\ UNCHANGED <<accounts, policies, pool, calendar, seen, job, chain, height, clears>>
    BY <1>8, MinFeesAssumption DEF SetPolicy, db
  <2> QED BY <1>0, <2>1 DEF ChainTypes, TxTypes
<1>9. CASE UNCHANGED vars
  BY <1>0, <1>9 DEF ChainTypes, TxTypes, vars
<1> QED BY <1>1, <1>2, <1>3, <1>4, <1>5, <1>6, <1>7, <1>8, <1>9 DEF Next

-----------------------------------------------------------------------------
(***************************************************************************)
(* The books, step by step.                                                *)
(***************************************************************************)

\* Layers of accounts.
LEMMA OverAssoc ==
    ASSUME NEW f, NEW g, NEW h
    PROVE  Over(Over(f, g), h) = Over(f, Over(g, h))
BY DEF Over

\* An account that is the same below is the same through a layer.
LEMMA SameOver ==
    ASSUME NEW f, NEW g, NEW h, NEW x, SameAt(f, g, x)
    PROVE  SameAt(Over(h, f), Over(h, g), x)
BY DEF SameAt, Over

\* The same account, the same balance.
LEMMA SameBalance ==
    ASSUME NEW f, NEW g, NEW x, SameAt(f, g, x)
    PROVE  Balance(f, x) = Balance(g, x)
BY DEF SameAt, Balance

\* An empty layer changes nothing.
LEMMA EmptyOver ==
    ASSUME NEW g, IsBook(g)
    PROVE  IsBook(Over(NoAccounts, g)) /\ Total(Over(NoAccounts, g)) = Total(g) /\ \A x : Balance(Over(NoAccounts, g), x) = Balance(g, x)
<1>1. DOMAIN NoAccounts = {}
  BY DEF NoAccounts
<1>2. IsBook(Over(NoAccounts, g)) /\ IsOver(Over(NoAccounts, g), NoAccounts, g)
  BY EmptyBook, OverBook
<1>3. \A x : Balance(Over(NoAccounts, g), x) = Balance(g, x)
  BY <1>1, <1>2 DEF IsOver
<1>4. Total(Over(NoAccounts, g)) = Total(g)
  BY <1>2, <1>3, TotalSame
<1> QED BY <1>2, <1>3, <1>4

\* The accounts after the whole chain, with the pool and with the batch over
\* them.
LEMMA FinalBooks ==
    ASSUME MoneyTypes, NEW A, IsHistory(A, chain)
    PROVE  LET F == A[Len(chain)]
               P == Over(pool.accounts, F)
           IN  /\ Len(chain) \in Nat /\ height \in 0..Len(chain)
               /\ IsBook(F) /\ IsBook(P) /\ IsBook(Over(job.batch, P))
<1>1. Len(chain) \in Nat /\ height \in 0..Len(chain) /\ Len(chain) \in 0..Len(chain)
  BY DEF MoneyTypes, ChainTypes
<1>2. IsBook(A[Len(chain)])
  BY <1>1 DEF IsHistory
<1>3. IsBook(Over(pool.accounts, A[Len(chain)]))
  BY <1>2, OverBook DEF MoneyTypes, IsPool
<1>4. IsBook(Over(job.batch, Over(pool.accounts, A[Len(chain)])))
  BY <1>3, WorkBook, OverBook
<1> QED BY <1>1, <1>2, <1>3, <1>4

\* No fees are early when no tx is in process.
LEMMA EarlyNone ==
    ASSUME NEW j, j = Idle \/ (NumItems(j.tx) \in Nat /\ j.at \in 1..(NumItems(j.tx) + 1))
    PROVE  Early(j) = 0
<1>1. CASE j = Idle
  BY <1>1 DEF Early
<1>2. CASE NumItems(j.tx) \in Nat /\ j.at \in 1..(NumItems(j.tx) + 1)
  <2>1. j.at # NumItems(j.tx) + 2
    BY <1>2
  <2> QED BY <2>1 DEF Early
<1> QED BY <1>1, <1>2

\* process of an item: the batch moves what the item says.
LEMMA MoneyItem ==
    ASSUME MoneyTypes, NEW A, MoneyAt(A), ProcessInput \/ ProcessOutput
    PROVE  MoneyAt(A)'
<1> DEFINE F == A[Len(chain)]
           P == Over(pool.accounts, F)
           B == Over(job.batch, P)
<1>1. UNCHANGED <<accounts, pool, chain, height>>
  BY DEF ProcessInput, ProcessOutput, db
<1>2. /\ IsHistory(A, chain) /\ accounts = A[height] /\ PoolMoney(pool, Early(job), F)
      /\ job # Idle => /\ AddrsOf(job.tx) \cap ChangedAfter(chain, height) = {}
                       /\ JobMoney(job, P)
  BY DEF MoneyAt
<1>3. IsWork(job) /\ job.at \in 1..NumItems(job.tx) /\ job # Idle
  <2>1. IsWork(job) /\ job.at \in 1..NumItems(job.tx)
    BY ItemsLeft
  <2> QED BY <2>1, IdleIs
<1>4. job.tx \in Txs /\ NumItems(job.tx) \in Nat /\ job.at \in Int
  <2>1. job.tx \in Txs /\ NumItems(job.tx) \in Nat
    BY <1>3, TxItems DEF IsWork
  <2> QED BY <1>3, <2>1
<1>5. Early(job) = 0
  BY <1>3, <1>4, EarlyNone
<1>6. IsBook(F) /\ IsBook(P) /\ IsBook(B) /\ height \in 0..Len(chain)
  BY <1>2, FinalBooks
<1>7. CASE job' = Idle
  <2>1. Early(job') = 0
    BY <1>7, EarlyNone
  <2> QED BY <1>1, <1>2, <1>5, <1>7, <2>1 DEF MoneyAt
<1>8. CASE job' # Idle
  <2>1. PICK c \in AddrsOf(job.tx), v \in Account, w \in Int : PutsItem(c, v, w)
    BY <1>8, InputItem, OutputItem
  <2>2. c \in Addrs
    BY <1>4, TxItems DEF AddrsOf
  <2>3. job' = [tx |-> job.tx, at |-> job.at + 1, batch |-> Over(Single(c, v), job.batch)]
    BY <2>1 DEF PutsItem
  <2>4. job'.tx = job.tx /\ job'.at = job.at + 1 /\ job'.batch = Over(Single(c, v), job.batch)
    BY <2>3
  <2>5. Early(job') = 0
    <3>1. job.at + 1 \in 1..(NumItems(job.tx) + 1)
      BY <1>3, <1>4
    <3> QED BY <1>4, <2>4, <3>1, EarlyNone
  <2>6. Balance(AccountState, c) = Balance(B, c)
    <3>1. c \notin ChangedAfter(chain, height)
      BY <1>2, <1>3
    <3>2. SameAt(A[height], F, c)
      BY <1>2, <1>6, <3>1 DEF IsHistory
    <3>3. SameAt(Over(pool.accounts, accounts), P, c)
      BY <1>2, <3>2, SameOver
    <3>4. SameAt(AccountState, B, c)
      BY <3>3, SameOver DEF AccountState
    <3> QED BY <3>4, SameBalance
  <2> DEFINE C == Over(job'.batch, P)
  <2>7. C = Over(Single(c, v), B)
    BY <2>4, OverAssoc
  <2>8. JobMoney(job, P)
    BY <1>2, <1>3
  <2> HIDE DEF F, P
  <2>9. Total(B) = Total(P) + Moved(job.tx, job.at) /\ \A x : Balance(B, x) = Balance(P, x) + MovedAt(job.tx, job.at, x)
    BY <2>8 DEF JobMoney
  <2> HIDE DEF B
  <2>10. IsBook(C) /\ \A x : Balance(C, x) = IF x = c THEN v.box ELSE Balance(B, x)
    <3>1. IsBook(C) /\ IsPut(C, c, v, B)
      BY <1>6, <2>2, <2>7, PutBook
    <3> QED BY <3>1 DEF IsPut
  <2>11. v.box = Balance(B, c) + w
    BY <2>1, <2>6 DEF PutsItem
  <2> HIDE DEF C
  <2>12. \A x : Balance(B, x) \in Int
    BY <1>6, BalanceInt
  <2>13. \A x : Balance(C, x) = Balance(B, x) + (IF x = c THEN w ELSE 0)
    BY <2>10, <2>11, <2>12
  <2>14. Total(C) = Total(B) + w
    <3>1. \A x : x # c => Balance(C, x) = Balance(B, x)
      BY <2>10
    <3>2. Total(C) - Total(B) = Balance(C, c) - Balance(B, c)
      BY <1>6, <2>10, <3>1, TotalOne
    <3>3. Total(C) \in Int /\ Total(B) \in Int /\ Balance(B, c) \in Int /\ Balance(C, c) = Balance(B, c) + w
      BY <1>6, <2>10, <2>12, <2>13, TotalInt
    <3> DEFINE tc == Total(C)
               tb == Total(B)
               bb == Balance(B, c)
    <3>4. tc \in Int /\ tb \in Int /\ bb \in Int /\ tc - tb = (bb + w) - bb
      BY <3>2, <3>3
    <3> HIDE DEF tc, tb, bb
    <3>5. tc = tb + w
      BY <3>4
    <3> QED BY <3>5 DEF tc, tb
  <2>15. Moves(job.tx, job.at, c, w)
    BY <2>1 DEF PutsItem
  <2>16. Total(P) \in Int /\ \A x : Balance(P, x) \in Int
    BY <1>6, TotalInt, BalanceInt
  <2>17. Moved(job.tx, job.at) \in Int /\ \A x : MovedAt(job.tx, job.at, x) \in Int
    <3>1. ASSUME NEW x PROVE Moved(job.tx, job.at) \in Int /\ MovedAt(job.tx, job.at, x) \in Int
      BY <1>4, MovedInt
    <3> QED BY <3>1
  <2>18. Total(C) = Total(P) + Moved(job.tx, job.at + 1)
    <3>1. Moved(job.tx, job.at + 1) = Moved(job.tx, job.at) + w
      BY <2>15 DEF Moves
    <3> QED BY <2>9, <2>14, <2>16, <2>17, <3>1
  <2>19. \A x : Balance(C, x) = Balance(P, x) + MovedAt(job.tx, job.at + 1, x)
    <3> SUFFICES ASSUME NEW x PROVE Balance(C, x) = Balance(P, x) + MovedAt(job.tx, job.at + 1, x)
      OBVIOUS
    <3> DEFINE d == IF x = c THEN w ELSE 0
    <3>1. MovedAt(job.tx, job.at + 1, x) = MovedAt(job.tx, job.at, x) + d /\ Balance(C, x) = Balance(B, x) + d /\ d \in Int
      BY <2>13, <2>15 DEF Moves
    <3>2. Balance(B, x) = Balance(P, x) + MovedAt(job.tx, job.at, x)
      BY <2>9
    <3>3. Balance(P, x) \in Int /\ MovedAt(job.tx, job.at, x) \in Int
      BY <2>16, <2>17
    <3> HIDE DEF d
    <3> QED BY <3>1, <3>2, <3>3
  <2>20. JobMoney(job', P)
    BY <2>4, <2>18, <2>19 DEF JobMoney, C
  <2>21. AddrsOf(job'.tx) \cap ChangedAfter(chain, height) = {}
    BY <1>2, <1>3, <2>4
  <2>22. PoolMoney(pool, Early(job'), F)
    BY <1>2, <1>5, <2>5
  <2> QED BY <1>1, <1>2, <2>20, <2>21, <2>22 DEF MoneyAt, F, P
<1> QED BY <1>7, <1>8

\* A tx begins with nothing moved.
LEMMA MoneyBegin ==
    ASSUME MoneyTypes, NEW A, MoneyAt(A), ~straddled', NEW t \in Txs, BeginProcess(t)
    PROVE  MoneyAt(A)'
<1> DEFINE F == A[Len(chain)]
           P == Over(pool.accounts, F)
<1>1. UNCHANGED <<accounts, pool, chain, height>> /\ job = Idle
  BY DEF BeginProcess, db
<1>2. CASE job' = job
  BY <1>1, <1>2 DEF MoneyAt
<1>3. CASE job' = [tx |-> t, at |-> 1, batch |-> NoAccounts] /\ AddrsOf(t) \cap InFlight = {}
  <2>1. job'.tx = t /\ job'.at = 1 /\ job'.batch = NoAccounts
    BY <1>3
  <2>2. IsHistory(A, chain) /\ accounts = A[height] /\ PoolMoney(pool, Early(job), F)
    BY DEF MoneyAt
  <2>3. Early(job) = 0 /\ Early(job') = 0
    <3>1. NumItems(t) \in Nat
      BY TxItems
    <3>2. 1 \in 1..(NumItems(t) + 1)
      BY <3>1
    <3> QED BY <1>1, <2>1, <3>1, <3>2, EarlyNone
  <2>4. IsBook(P)
    BY <2>2, FinalBooks
  <2> HIDE DEF F, P
  <2>5. JobMoney(job', P)
    <3>1. Total(Over(NoAccounts, P)) = Total(P) /\ \A x : Balance(Over(NoAccounts, P), x) = Balance(P, x)
      BY <2>4, EmptyOver
    <3>2. Total(P) \in Int /\ \A x : Balance(P, x) \in Int
      BY <2>4, TotalInt, BalanceInt
    <3>3. ASSUME NEW x PROVE Moved(t, 1) = 0 /\ MovedAt(t, 1, x) = 0
      BY MovedStart
    <3> QED BY <2>1, <3>1, <3>2, <3>3 DEF JobMoney
  <2>6. AddrsOf(job'.tx) \cap ChangedAfter(chain, height) = {}
    BY <1>3, <2>1 DEF InFlight, ChangedAfter, Changes
  <2>7. PoolMoney(pool, Early(job'), F)
    BY <2>2, <2>3
  <2> QED BY <1>1, <2>2, <2>5, <2>6, <2>7 DEF MoneyAt, F, P
<1> QED BY <1>2, <1>3 DEF BeginProcess

\* All items of a tx that is being committed are in its batch.
LEMMA WholeTx ==
    ASSUME MoneyTypes, NEW A, MoneyAt(A), job # Idle, job.at > NumItems(job.tx)
    PROVE  LET P == Over(pool.accounts, A[Len(chain)])
               B == Over(job.batch, P)
           IN  /\ Check(job.tx) \in Int /\ Total(B) = Total(P) - Check(job.tx)
               /\ \A x : Balance(B, x) = Balance(P, x) + NetOf(job.tx, x)
               /\ \A x : NetOf(job.tx, x) = MovedAt(job.tx, job.at, x)
               /\ NumItems(job.tx) \in Nat /\ job.tx \in Txs
<1> DEFINE P == Over(pool.accounts, A[Len(chain)])
           B == Over(job.batch, P)
<1>1. job.tx \in Txs /\ Check(job.tx) >= 0 /\ job.at \in 1..(NumItems(job.tx) + 2) /\ JobMoney(job, P) /\ IsHistory(A, chain)
  BY DEF MoneyTypes, IsWork, MoneyAt
<1>2. NumItems(job.tx) \in Nat /\ job.at \in Int
  <2>1. NumItems(job.tx) \in Nat
    BY <1>1, TxItems
  <2> QED BY <1>1, <2>1
<1>3. ASSUME NEW x
      PROVE  /\ Check(job.tx) \in Int /\ Moved(job.tx, job.at) = 0 - Check(job.tx)
             /\ MovedAt(job.tx, job.at, x) = NetOf(job.tx, x)
  BY <1>1, <1>2, MovedEnd
<1>4. Total(P) \in Int
  BY <1>1, FinalBooks, TotalInt
<1>5. Total(B) = Total(P) + Moved(job.tx, job.at) /\ \A x : Balance(B, x) = Balance(P, x) + MovedAt(job.tx, job.at, x)
  BY <1>1 DEF JobMoney
<1> HIDE DEF P, B
<1>6. Check(job.tx) \in Int /\ Moved(job.tx, job.at) = 0 - Check(job.tx)
  BY <1>3
<1>7. Total(B) = Total(P) - Check(job.tx)
  BY <1>4, <1>5, <1>6
<1>8. \A x : Balance(B, x) = Balance(P, x) + NetOf(job.tx, x)
  BY <1>3, <1>5
<1>9. \A x : NetOf(job.tx, x) = MovedAt(job.tx, job.at, x)
  BY <1>3
<1> QED BY <1>1, <1>2, <1>6, <1>7, <1>8, <1>9 DEF P, B

\* The fees are in the pool, the accounts are not yet.
LEMMA MoneyFees ==
    ASSUME MoneyTypes, NEW A, MoneyAt(A), CommitFees
    PROVE  MoneyAt(A)'
<1> DEFINE F == A[Len(chain)]
           P == Over(pool.accounts, F)
<1>1. UNCHANGED <<accounts, chain, height>> /\ job # Idle /\ job.at = NumItems(job.tx) + 1
  BY DEF CommitFees, db
<1>2. IsWork(job) /\ IsPool(pool)
  BY <1>1 DEF MoneyTypes
<1>3. job.tx \in Txs /\ NumItems(job.tx) \in Nat
  BY <1>2, TxItems DEF IsWork
<1>4. job.at > NumItems(job.tx) /\ job.at \in Int /\ job.at + 1 = NumItems(job.tx) + 2
  BY <1>1, <1>3
<1>5. job' = [tx |-> job.tx, at |-> job.at + 1, batch |-> job.batch]
  BY <1>2 DEF CommitFees, IsWork
<1>6. pool' = [accounts |-> pool.accounts, fees |-> pool.fees + Check(job.tx), min_fee |-> pool.min_fee, txs |-> pool.txs]
  BY <1>2 DEF CommitFees, IsPool
<1>7. job'.tx = job.tx /\ job'.at = job.at + 1 /\ job'.batch = job.batch /\ job' # Idle
  <2>1. job'.at = job.at + 1 /\ job.at + 1 # 0
    BY <1>1, <1>3, <1>5
  <2> QED BY <1>5, <2>1, IdleIs
<1>8. /\ IsHistory(A, chain) /\ accounts = A[height] /\ PoolMoney(pool, Early(job), F)
      /\ AddrsOf(job.tx) \cap ChangedAfter(chain, height) = {} /\ JobMoney(job, P)
  BY <1>1 DEF MoneyAt
<1>9. Early(job) = 0
  <2>1. job.at \in 1..(NumItems(job.tx) + 1)
    BY <1>1, <1>3
  <2> QED BY <1>3, <2>1, EarlyNone
<1>10. Early(job') = Check(job.tx)
  BY <1>4, <1>7 DEF Early
<1>11. /\ Check(job.tx) \in Int
       /\ \A x : NetOf(job.tx, x) = MovedAt(job.tx, job.at, x)
  BY <1>1, <1>4, WholeTx
<1>12. PoolMoney(pool', Early(job'), F)
  <2>1. pool'.accounts = pool.accounts /\ pool'.fees = pool.fees + Check(job.tx) /\ pool'.txs = pool.txs
    BY <1>6
  <2>2. Total(F) \in Int /\ pool.fees \in Int
    BY <1>2, <1>8, FinalBooks, TotalInt DEF IsPool
  <2> HIDE DEF F
  <2>3. Total(Over(pool.accounts, F)) = Total(F) - pool.fees
    BY <1>8, <1>9, <2>2 DEF PoolMoney
  <2>4. Total(F) - pool.fees = Total(F) - (pool.fees + Check(job.tx)) + Check(job.tx)
    BY <1>11, <2>2
  <2>5. \A x : Balance(Over(pool.accounts, F), x) = Balance(F, x) + Net(pool.txs, x)
    BY <1>8 DEF PoolMoney
  <2> QED BY <1>10, <2>1, <2>3, <2>4, <2>5 DEF PoolMoney
<1>13. JobMoney(job', P)
  <2>1. Moved(job.tx, job.at + 1) = Moved(job.tx, job.at)
    <3>1. Check(job.tx) >= 0 /\ job.at + 1 > NumItems(job.tx) /\ job.at + 1 \in Int
      BY <1>2, <1>3, <1>4 DEF IsWork
    <3>2. Moved(job.tx, job.at) = 0 - Check(job.tx)
      BY <1>3, <1>4, <3>1, MovedEnd
    <3>3. Moved(job.tx, job.at + 1) = 0 - Check(job.tx)
      <4> DEFINE at == job.at + 1
      <4>1. at \in Int /\ at > NumItems(job.tx)
        BY <3>1
      <4> HIDE DEF at
      <4>2. Moved(job.tx, at) = 0 - Check(job.tx)
        BY <1>3, <3>1, <4>1, MovedEnd
      <4> QED BY <4>2 DEF at
    <3> QED BY <3>2, <3>3
  <2>2. \A x : MovedAt(job.tx, job.at + 1, x) = MovedAt(job.tx, job.at, x)
    <3> DEFINE at == job.at + 1
    <3>1. at \in Int /\ at > NumItems(job.tx)
      BY <1>3, <1>4
    <3> HIDE DEF at
    <3>2. ASSUME NEW x PROVE MovedAt(job.tx, at, x) = NetOf(job.tx, x)
      BY <1>3, <3>1, MovedEnd
    <3> QED BY <1>11, <3>2 DEF at
  <2> HIDE DEF P
  <2> QED BY <1>7, <1>8, <2>1, <2>2 DEF JobMoney
<1>14. pool'.accounts = pool.accounts /\ AddrsOf(job'.tx) \cap ChangedAfter(chain, height) = {}
  BY <1>6, <1>7, <1>8
<1> QED BY <1>1, <1>8, <1>12, <1>13, <1>14 DEF MoneyAt

\* The batch goes into the pool.
LEMMA MoneyAccounts ==
    ASSUME MoneyTypes, NEW A, MoneyAt(A), CommitAccounts
    PROVE  MoneyAt(A)'
<1> DEFINE F == A[Len(chain)]
           P == Over(pool.accounts, F)
           B == Over(job.batch, P)
<1>1. UNCHANGED <<accounts, chain, height>> /\ job # Idle /\ job.at = NumItems(job.tx) + 2 /\ job' = Idle
  BY DEF CommitAccounts, db
<1>2. IsWork(job) /\ IsPool(pool)
  BY <1>1 DEF MoneyTypes
<1>3. pool' = [accounts |-> Over(job.batch, pool.accounts), fees |-> pool.fees, min_fee |-> pool.min_fee, txs |-> pool.txs \cup {job.tx}]
  BY <1>2 DEF CommitAccounts, IsPool
<1>4. pool'.accounts = Over(job.batch, pool.accounts) /\ pool'.fees = pool.fees /\ pool'.txs = pool.txs \cup {job.tx}
  BY <1>3
<1>5. IsHistory(A, chain) /\ accounts = A[height] /\ PoolMoney(pool, Early(job), F)
  BY DEF MoneyAt
<1>6. job.at > NumItems(job.tx)
  <2>1. NumItems(job.tx) \in Nat
    BY <1>2, TxItems DEF IsWork
  <2> QED BY <1>1, <2>1
<1>7. /\ Check(job.tx) \in Int /\ Total(B) = Total(P) - Check(job.tx)
      /\ \A x : Balance(B, x) = Balance(P, x) + NetOf(job.tx, x)
      /\ job.tx \in Txs
  BY <1>1, <1>6, WholeTx
<1>8. Early(job) = Check(job.tx) /\ Early(job') = 0
  BY <1>1 DEF Early
<1>9. Over(pool'.accounts, F) = B
  BY <1>4, OverAssoc
<1>10. Total(F) \in Int /\ pool.fees \in Int /\ \A x : Balance(F, x) \in Int
  BY <1>2, <1>5, FinalBooks, TotalInt, BalanceInt DEF IsPool
<1> HIDE DEF F
<1>11. Total(P) = Total(F) - pool.fees + Check(job.tx) /\ \A x : Balance(P, x) = Balance(F, x) + Net(pool.txs, x)
  BY <1>5, <1>8 DEF PoolMoney
<1> HIDE DEF P, B
<1>12. Total(B) = Total(F) - pool.fees + 0
  BY <1>7, <1>10, <1>11
<1>13. \A x : Balance(B, x) = Balance(F, x) + Net(pool.txs \cup {job.tx}, x)
  <2> SUFFICES ASSUME NEW x PROVE Balance(B, x) = Balance(F, x) + Net(pool.txs \cup {job.tx}, x)
    OBVIOUS
  <2>1. pool.txs \in SUBSET Txs /\ IsFiniteSet(pool.txs) /\ job.tx \notin pool.txs
    BY <1>1, <1>2 DEF IsPool, MoneyTypes, TxTypes
  <2>2. Net(pool.txs, x) \in Int /\ Net(pool.txs \cup {job.tx}, x) = Net(pool.txs, x) + NetOf(job.tx, x)
    BY <1>7, <2>1, NetMore
  <2>3. NetOf(job.tx, x) \in Int
    BY <1>7, NetInt
  <2>4. Balance(B, x) = Balance(P, x) + NetOf(job.tx, x) /\ Balance(P, x) = Balance(F, x) + Net(pool.txs, x) /\ Balance(F, x) \in Int
    BY <1>7, <1>10, <1>11
  <2> QED BY <2>2, <2>3, <2>4
<1>14. PoolMoney(pool', Early(job'), F)
  BY <1>4, <1>8, <1>9, <1>12, <1>13 DEF PoolMoney
<1> QED BY <1>1, <1>5, <1>14 DEF MoneyAt, F

\* An empty pool says nothing of the accounts below it.
LEMMA EmptyPoolMoney ==
    ASSUME NEW F, IsBook(F)
    PROVE  PoolMoney(EmptyPool, 0, F)
<1>1. EmptyPool.accounts = NoAccounts /\ EmptyPool.fees = 0 /\ EmptyPool.txs = {}
  BY DEF EmptyPool
<1>2. Total(Over(NoAccounts, F)) = Total(F) /\ \A x : Balance(Over(NoAccounts, F), x) = Balance(F, x)
  BY EmptyOver
<1>3. Total(F) \in Int /\ \A x : Balance(F, x) \in Int
  BY TotalInt, BalanceInt
<1>4. \A x : Net({}, x) = 0
  BY NetNone
<1>5. Total(Over(NoAccounts, F)) = Total(F) - 0 + 0
  BY <1>2, <1>3
<1>6. \A x : Balance(Over(NoAccounts, F), x) = Balance(F, x) + Net({}, x)
  BY <1>2, <1>3, <1>4
<1> QED BY <1>1, <1>5, <1>6 DEF PoolMoney

\* The accounts after a block that is made of p.
LEMMA NewAccounts ==
    ASSUME NEW F, IsBook(F), NEW p, IsPool(p), PoolMoney(p, 0, F), NEW b, NEW ws, IsBlockOf(b, p, ws),
           NEW h \in Nat, Total(F) + LeftAt(h) = Supply
    PROVE  LET new == After(F, b, NewAt(h))
           IN  /\ IsBook(new) /\ Total(new) + LeftAt(h + 1) = Supply
               /\ Applies(F, new, b)
               /\ \A x : x \notin Changes(b) => SameAt(new, F, x)
<1> DEFINE new == After(F, b, NewAt(h))
           delta == DeltaOf(b).accounts
           over == Over(p.accounts, F)
<1>1. IsBlock(b) /\ delta = p.accounts /\ DeltaOf(b).fees = p.fees /\ DeltaOf(b).txs = p.txs
  BY DEF IsBlockOf
<1>2. LeftAt(h) \in Nat /\ NewAt(h) \in Nat /\ LeftAt(h + 1) = LeftAt(h) - NewAt(h)
  BY LeftNext
<1>3. IsBook(new) /\ IsAfter(new, F, b, NewAt(h))
  BY <1>1, <1>2, AfterBook
<1>4. Total(F) \in Int /\ p.fees \in Int /\ \A x : Balance(F, x) \in Int
  BY TotalInt, BalanceInt DEF IsPool
<1> HIDE DEF new
<1>5. Total(over) = Total(F) - p.fees + 0 /\ \A x : Balance(over, x) = Balance(F, x) + Net(p.txs, x)
  BY DEF PoolMoney
<1>6. /\ Total(new) = Total(over) + (NewAt(h) + p.fees)
      /\ \A x : x \notin DOMAIN delta \cup Rewarded(b) => SameAt(new, F, x)
      /\ \A x : /\ Balance(new, x) >= Balance(over, x)
                /\ x \notin Rewarded(b) => Balance(new, x) = Balance(over, x)
  BY <1>1, <1>3 DEF IsAfter
<1>7. Total(new) + LeftAt(h + 1) = Supply
  <2> HIDE DEF over
  <2> QED BY <1>2, <1>4, <1>5, <1>6, SupplyAssumption
<1>8. \A x : x \notin Changes(b) => SameAt(new, F, x)
  BY <1>1, <1>6 DEF Changes, IsBlock
<1>9. Applies(F, new, b)
  <2> SUFFICES ASSUME NEW x
               PROVE  LET diff == Balance(new, x) - Balance(F, x) - Net(p.txs, x)
                      IN  IF x \in Rewarded(b) THEN diff >= 0 ELSE diff = 0
    BY <1>1 DEF Applies
  <2>1. Net(p.txs, x) \in Int
    <3>1. Net(p.txs, x) = SumFunctionOnSet([t \in p.txs |-> NetOf(t, x)], p.txs)
      BY NetIs
    <3> DEFINE f == [t \in p.txs |-> NetOf(t, x)]
    <3>2. \A t \in p.txs : f[t] \in Int
      BY NetInt DEF IsPool
    <3> HIDE DEF f
    <3>3. SumFunctionOnSet(f, p.txs) \in Int
      BY <3>2, SumType DEF IsPool
    <3> QED BY <3>1, <3>3 DEF f
  <2>2. /\ Balance(over, x) = Balance(F, x) + Net(p.txs, x) /\ Balance(F, x) \in Int
        /\ Balance(new, x) >= Balance(over, x) /\ Balance(new, x) \in Int
        /\ x \notin Rewarded(b) => Balance(new, x) = Balance(over, x)
    BY <1>3, <1>4, <1>5, <1>6, BalanceInt
  <2> HIDE DEF over
  <2> QED BY <2>1, <2>2
<1> QED BY <1>3, <1>7, <1>8, <1>9 DEF new

\* What the chain changes, with a block more.
LEMMA MoreChanges ==
    ASSUME ChainTypes, NEW b, chain' = Append(chain, b), NEW h \in 0..Len(chain), NEW x, x \notin ChangedAfter(chain', h)
    PROVE  x \notin ChangedAfter(chain, h) /\ x \notin Changes(b)
<1>1. /\ Len(chain) \in Nat
      /\ Len(chain') = Len(chain) + 1
      /\ \A k \in 1..Len(chain) : chain'[k] = chain[k]
      /\ chain'[Len(chain) + 1] = b
  BY ChainGrows
<1>2. \A k \in (h + 1)..Len(chain') : x \notin Changes(chain'[k])
  BY DEF ChangedAfter
<1>3. x \notin Changes(b)
  <2>1. Len(chain) + 1 \in (h + 1)..Len(chain')
    BY <1>1
  <2> QED BY <1>1, <1>2, <2>1
<1>4. ASSUME NEW k \in (h + 1)..Len(chain) PROVE x \notin Changes(chain[k])
  <2>1. k \in (h + 1)..Len(chain') /\ k \in 1..Len(chain)
    BY <1>1
  <2> QED BY <1>1, <1>2, <2>1
<1> QED BY <1>3, <1>4 DEF ChangedAfter

\* create_local_delta: one more block in the history.
LEMMA MoneyCreate ==
    ASSUME MoneyTypes, ~straddled', NEW A, MoneyAt(A), NEW ws \in Workers, CreateLocalDelta(ws)
    PROVE  \E D : MoneyAt(D)'
<1> DEFINE L == Len(chain)
           F == A[L]
<1>1. /\ UNCHANGED <<accounts, height, job>> /\ pool' = EmptyPool /\ job = Idle
      /\ ~(height < L)
  BY DEF CreateLocalDelta, db, Pending
<1>2. IsHistory(A, chain) /\ accounts = A[height] /\ PoolMoney(pool, Early(job), F)
  BY DEF MoneyAt
<1>3. L \in Nat /\ height = L /\ IsBook(F)
  <2>1. L \in Nat /\ height \in 0..L /\ IsBook(F)
    BY <1>2, FinalBooks
  <2> HIDE DEF L
  <2> QED BY <1>1, <2>1
<1>4. PICK b : \E p \in {pool, EmptyPool} : chain' = Append(chain, b) /\ IsBlockOf(b, p, ws)
  BY NewBlock
<1>5. PICK p \in {pool, EmptyPool} : chain' = Append(chain, b) /\ IsBlockOf(b, p, ws)
  BY <1>4
<1>6. IsPool(p) /\ PoolMoney(p, 0, F)
  <2>1. PoolMoney(EmptyPool, 0, F)
    BY <1>3, EmptyPoolMoney
  <2>2. PoolMoney(pool, 0, F)
    BY <1>1, <1>2, EarlyNone
  <2> QED BY <2>1, <2>2, EmptyIsPool DEF MoneyTypes
<1> DEFINE new == After(F, b, NewAt(L))
           D == [k \in 0..(L + 1) |-> IF k = L + 1 THEN new ELSE A[k]]
<1>7. /\ A[0] = NoAccounts
      /\ \A k \in 0..L : IsBook(A[k]) /\ Total(A[k]) + LeftAt(k) = Supply
      /\ \A k \in 1..L : A[k] = After(A[k-1], chain[k], NewAt(k-1)) /\ Applies(A[k-1], A[k], chain[k])
      /\ \A h \in 0..L : \A x : x \notin ChangedAfter(chain, h) => SameAt(A[h], A[L], x)
  BY <1>2 DEF IsHistory
<1>8. /\ Len(chain') = L + 1
      /\ \A k \in 1..L : chain'[k] = chain[k]
      /\ chain'[L + 1] = b
  BY <1>5, ChainGrows DEF MoneyTypes
<1> HIDE DEF L
<1>9. L \in 0..L
  BY <1>3
<1>10. /\ IsBook(new) /\ Total(new) + LeftAt(L + 1) = Supply
       /\ Applies(F, new, b)
       /\ \A x : x \notin Changes(b) => SameAt(new, F, x)
  <2>1. Total(F) + LeftAt(L) = Supply
    BY <1>7, <1>9
  <2> HIDE DEF F
  <2> QED BY <1>3, <1>5, <1>6, <2>1, NewAccounts
<1>11. D[L + 1] = new /\ \A k \in 0..L : D[k] = A[k]
  <2>1. L + 1 \in 0..(L + 1) /\ \A k \in 0..L : k \in 0..(L + 1) /\ k # L + 1
    BY <1>3
  <2> HIDE DEF new
  <2> QED BY <2>1
<1>12. new = After(F, b, NewAt(L))
  OBVIOUS
<1> HIDE DEF D, new
<1>13. IsHistory(D, chain')
  <2>1. D[0] = NoAccounts
    <3>1. 0 \in 0..L
      BY <1>3
    <3> QED BY <1>7, <1>11, <3>1
  <2>2. ASSUME NEW k \in 0..(L + 1) PROVE IsBook(D[k]) /\ Total(D[k]) + LeftAt(k) = Supply
    <3>1. CASE k = L + 1
      BY <1>10, <1>11, <3>1
    <3>2. CASE k \in 0..L
      BY <1>7, <1>11, <3>2
    <3>3. k = L + 1 \/ k \in 0..L
      BY <1>3
    <3> QED BY <3>1, <3>2, <3>3
  <2>3. ASSUME NEW k \in 1..(L + 1)
        PROVE  D[k] = After(D[k-1], chain'[k], NewAt(k-1)) /\ Applies(D[k-1], D[k], chain'[k])
    <3>1. CASE k = L + 1
      <4>1. k - 1 = L
        BY <1>3, <3>1
      <4>2. D[k-1] = F /\ D[k] = new /\ chain'[k] = b
        BY <1>8, <1>9, <1>11, <3>1, <4>1
      <4> QED BY <1>10, <1>12, <4>1, <4>2
    <3>2. CASE k \in 1..L
      <4>1. k - 1 \in 0..L /\ k \in 0..L
        BY <1>3, <3>2
      <4>2. D[k-1] = A[k-1] /\ D[k] = A[k] /\ chain'[k] = chain[k]
        BY <1>8, <1>11, <3>2, <4>1
      <4> QED BY <1>7, <3>2, <4>2
    <3>3. k = L + 1 \/ k \in 1..L
      BY <1>3
    <3> QED BY <3>1, <3>2, <3>3
  <2>4. ASSUME NEW h \in 0..(L + 1), NEW x, x \notin ChangedAfter(chain', h)
        PROVE  SameAt(D[h], D[L + 1], x)
    <3>1. CASE h = L + 1
      BY <3>1 DEF SameAt
    <3>2. CASE h \in 0..L
      <4>1. x \notin ChangedAfter(chain, h) /\ x \notin Changes(b)
        BY <1>5, <2>4, <3>2, MoreChanges DEF MoneyTypes, L
      <4>2. SameAt(A[h], F, x) /\ SameAt(new, F, x)
        BY <1>7, <1>10, <3>2, <4>1
      <4>3. SameAt(A[h], new, x)
        BY <4>2 DEF SameAt
      <4> QED BY <1>11, <3>2, <4>3
    <3>3. h = L + 1 \/ h \in 0..L
      BY <1>3
    <3> QED BY <3>1, <3>2, <3>3
  <2> QED BY <1>8, <2>1, <2>2, <2>3, <2>4 DEF IsHistory
<1>14. accounts' = D[height']
  BY <1>1, <1>2, <1>3, <1>9, <1>11
<1>15. PoolMoney(pool', Early(job'), D[Len(chain')])
  <2>1. PoolMoney(EmptyPool, 0, new)
    BY <1>10, EmptyPoolMoney
  <2>2. Early(job') = 0
    BY <1>1, EarlyNone
  <2> QED BY <1>1, <1>8, <1>11, <2>1, <2>2
<1>16. PICK E : E = D
  OBVIOUS
<1>17. IsHistory(E, chain') /\ accounts' = E[height'] /\ PoolMoney(pool', Early(job'), E[Len(chain')])
  BY <1>13, <1>14, <1>15, <1>16
<1>18. MoneyAt(E)'
  BY <1>1, <1>17 DEF MoneyAt
<1> QED BY <1>18

\* import: the next accounts of the history.
LEMMA MoneyImport ==
    ASSUME MoneyTypes, NEW A, MoneyAt(A), Import
    PROVE  MoneyAt(A)'
<1>1. UNCHANGED <<pool, job, chain>> /\ height' = height + 1
  BY DEF Import
<1>2. /\ height + 1 \in 1..Len(chain) /\ height \in Nat
      /\ accounts' = After(accounts, chain[height + 1], NewAt(height))
  BY ImportIs
<1>3. /\ IsHistory(A, chain) /\ accounts = A[height]
      /\ PoolMoney(pool, Early(job), A[Len(chain)])
      /\ job # Idle => /\ AddrsOf(job.tx) \cap ChangedAfter(chain, height) = {}
                       /\ JobMoney(job, Over(pool.accounts, A[Len(chain)]))
  BY DEF MoneyAt
<1>4. accounts' = A[height + 1]
  <2>1. A[height + 1] = After(A[(height + 1) - 1], chain[height + 1], NewAt((height + 1) - 1))
    BY <1>2, <1>3 DEF IsHistory
  <2>2. (height + 1) - 1 = height
    BY <1>2
  <2> QED BY <1>2, <1>3, <2>1, <2>2
<1>5. ChangedAfter(chain, height + 1) \subseteq ChangedAfter(chain, height)
  <2>1. Len(chain) \in Nat
    BY DEF MoneyTypes, ChainTypes
  <2>2. \A k \in (height + 1 + 1)..Len(chain) : k \in (height + 1)..Len(chain)
    BY <1>2, <2>1
  <2> QED BY <2>2 DEF ChangedAfter
<1>6. job # Idle => AddrsOf(job.tx) \cap ChangedAfter(chain, height + 1) = {}
  BY <1>3, <1>5
<1> QED BY <1>1, <1>3, <1>4, <1>6 DEF MoneyAt

\* clear: the accounts before the first block.
LEMMA MoneyClear ==
    ASSUME MoneyTypes, ~straddled', NEW A, MoneyAt(A), Clear
    PROVE  MoneyAt(A)'
<1>1. UNCHANGED <<pool, job, chain>> /\ height' = 0 /\ accounts' = NoAccounts /\ job = Idle
  BY DEF Clear
<1>2. IsHistory(A, chain) /\ PoolMoney(pool, Early(job), A[Len(chain)]) /\ A[0] = NoAccounts
  BY DEF MoneyAt, IsHistory
<1> QED BY <1>1, <1>2 DEF MoneyAt

\* Once a tx has straddled, it has.
LEMMA Straddling ==
    ASSUME straddled \in BOOLEAN, [Next]_vars
    PROVE  straddled' \in BOOLEAN /\ (~straddled' => ~straddled)
<1>1. ASSUME NEW t \in Txs, BeginProcess(t)
      PROVE  straddled' = straddled \/ straddled' = (straddled \/ AddrsOf(t) \cap InFlight # {})
  BY <1>1 DEF BeginProcess
<1>2. ASSUME NEW ws \in Workers, CreateLocalDelta(ws)
      PROVE  straddled' = (straddled \/ job # Idle)
  BY <1>2 DEF CreateLocalDelta
<1>3. CASE Clear
  <2>1. straddled' = (straddled \/ job # Idle)
    BY <1>3 DEF Clear
  <2> QED BY <2>1
<1>4. CASE ProcessInput \/ ProcessOutput \/ CommitFees \/ CommitAccounts \/ Import \/ UNCHANGED vars
  BY <1>4 DEF ProcessInput, ProcessOutput, CommitFees, CommitAccounts, Import, vars
<1>5. ASSUME NEW t \in Txs, ParseEvidence(t) PROVE straddled' = straddled
  BY <1>5 DEF ParseEvidence
<1>6. ASSUME NEW v \in MinFees, SetPolicy(v) PROVE straddled' = straddled
  BY <1>6 DEF SetPolicy
<1>7. ASSUME NEW t \in Txs, BeginProcess(t)
      PROVE  straddled' \in BOOLEAN /\ (~straddled' => ~straddled)
  BY <1>1, <1>7
<1>8. ASSUME NEW ws \in Workers, CreateLocalDelta(ws)
      PROVE  straddled' \in BOOLEAN /\ (~straddled' => ~straddled)
  BY <1>2, <1>8
<1> QED BY <1>3, <1>4, <1>5, <1>6, <1>7, <1>8 DEF Next

\* Every step that lets no tx straddle keeps the books.
LEMMA MoneyStep ==
    ASSUME MoneyTypes, ~straddled', NEW A, MoneyAt(A), [Next]_vars
    PROVE  \E D : MoneyAt(D)'
<1>1. ASSUME NEW t \in Txs, ParseEvidence(t) PROVE MoneyAt(A)'
  BY <1>1 DEF ParseEvidence, db, MoneyAt
<1>2. ASSUME NEW t \in Txs, BeginProcess(t) PROVE MoneyAt(A)'
  BY <1>2, MoneyBegin
<1>3. CASE ProcessInput \/ ProcessOutput
  <2>1. MoneyAt(A)'
    BY <1>3, MoneyItem
  <2> QED BY <2>1
<1>4. CASE CommitFees
  <2>1. MoneyAt(A)'
    BY <1>4, MoneyFees
  <2> QED BY <2>1
<1>5. CASE CommitAccounts
  <2>1. MoneyAt(A)'
    BY <1>5, MoneyAccounts
  <2> QED BY <2>1
<1>6. ASSUME NEW v \in MinFees, SetPolicy(v) PROVE MoneyAt(A)'
  BY <1>6 DEF SetPolicy, db, MoneyAt
<1>7. ASSUME NEW ws \in Workers, CreateLocalDelta(ws) PROVE \E D : MoneyAt(D)'
  BY <1>7, MoneyCreate
<1>8. CASE Import
  <2>1. MoneyAt(A)'
    BY <1>8, MoneyImport
  <2> QED BY <2>1
<1>9. CASE Clear
  <2>1. MoneyAt(A)'
    BY <1>9, MoneyClear
  <2> QED BY <2>1
<1>10. CASE UNCHANGED vars
  <2>1. MoneyAt(A)'
    BY <1>10 DEF vars, MoneyAt
  <2> QED BY <2>1
<1> QED BY <1>1, <1>2, <1>3, <1>4, <1>5, <1>6, <1>7, <1>8, <1>9, <1>10 DEF Next

\* The books at genesis.
LEMMA MoneyInit == Init => MoneyInv
<1> SUFFICES ASSUME Init PROVE MoneyInv
  OBVIOUS
<1>1. ScheduleOK
  <2>1. 0 * Reward = 0
    BY SupplyAssumption
  <2> QED BY <2>1, SupplyAssumption DEF Init, Genesis, ScheduleOK
<1>2. chain = <<>> /\ Len(chain) = 0 /\ DOMAIN chain = {} /\ height = 0 /\ clears = 0
  BY DEF Init
<1>3. ChainTypes
  BY <1>2, MaxAssumption DEF ChainTypes
<1>4. MoneyTypes
  <2>1. IsBook(accounts) /\ policies \in Int /\ policies_local \in Nat
    BY EmptyBook DEF Init, Genesis, TempLoad
  <2>2. IsPool(pool) /\ pool.txs = {}
    BY EmptyIsPool DEF Init, EmptyPool
  <2>3. TxTypes
    BY <2>2 DEF Init, TxTypes
  <2> QED BY <1>1, <1>3, <2>1, <2>2, <2>3 DEF Init, MoneyTypes
<1>5. \E A : MoneyAt(A)
  <2> DEFINE A == [k \in {0} |-> NoAccounts]
  <2>1. A[0] = NoAccounts
    OBVIOUS
  <2> HIDE DEF A
  <2>2. LeftAt(0) = Supply
    <3>1. 0 * Reward = 0
      BY SupplyAssumption
    <3> QED BY <3>1, SupplyAssumption DEF LeftAt
  <2>3. IsHistory(A, chain)
    <3>1. \A k \in 0..Len(chain) : k = 0
      BY <1>2
    <3>2. IsBook(A[0]) /\ Total(A[0]) + LeftAt(0) = Supply
      BY <2>1, <2>2, EmptyBook, SupplyAssumption
    <3>3. \A h \in 0..Len(chain) : \A x : SameAt(A[h], A[Len(chain)], x)
      BY <1>2, <3>1 DEF SameAt
    <3>4. \A k \in 1..Len(chain) : FALSE
      BY <1>2
    <3> QED BY <2>1, <3>1, <3>2, <3>3, <3>4 DEF IsHistory
  <2>4. PoolMoney(pool, Early(job), A[Len(chain)])
    <3>1. Early(job) = 0 /\ pool = EmptyPool
      BY EarlyNone DEF Init
    <3>2. IsBook(A[0])
      BY <2>1, EmptyBook
    <3> QED BY <1>2, <3>1, <3>2, EmptyPoolMoney
  <2>5. accounts = A[height] /\ job = Idle
    BY <1>2, <2>1 DEF Init, Genesis
  <2>6. MoneyAt(A)
    BY <2>3, <2>4, <2>5 DEF MoneyAt
  <2> QED BY <2>6
<1>6. straddled \in BOOLEAN
  BY DEF Init
<1> QED BY <1>4, <1>5, <1>6 DEF MoneyInv

\* Every step keeps the invariant.
LEMMA MoneyInvStep == MoneyInv /\ [Next]_vars => MoneyInv'
<1> SUFFICES ASSUME MoneyInv, [Next]_vars PROVE MoneyInv'
  OBVIOUS
<1>1. MoneyTypes'
  BY TypesStep DEF MoneyInv
<1>2. ASSUME ~straddled' PROVE (\E A : MoneyAt(A))'
  <2>1. PICK A : MoneyAt(A)
    BY <1>2, Straddling DEF MoneyInv
  <2>2. \E D : MoneyAt(D)'
    BY <1>2, <2>1, MoneyStep DEF MoneyInv
  <2> QED BY <2>2
<1>3. straddled' \in BOOLEAN
  BY Straddling DEF MoneyInv
<1> QED BY <1>1, <1>2, <1>3 DEF MoneyInv

\* The types, from MoneyTypes.
LEMMA TypesOfMoney == MoneyTypes /\ straddled \in BOOLEAN => TypeOK
<1> SUFFICES ASSUME MoneyTypes, straddled \in BOOLEAN PROVE TypeOK
  OBVIOUS
<1>1. IsAccounts(accounts) /\ IsAccounts(pool.accounts) /\ IsAccounts(job.batch)
  BY WorkBook DEF MoneyTypes, IsBook, IsPool
<1>2. supply_left \in Nat /\ block_reward \in Nat
  <2>1. height \in Nat /\ supply_left = LeftAt(height) /\ block_reward \in Nat
    BY LeftIs DEF MoneyTypes, ScheduleOK
  <2> QED BY <2>1, LeftNext
<1>3. job.tx \in Txs \cup {NoTx} /\ job.at \in Nat
  <2>1. CASE job = Idle
    BY <2>1, IdleIs
  <2>2. CASE IsWork(job)
    <3>1. job.tx \in Txs /\ job.at \in 1..(NumItems(job.tx) + 2)
      BY <2>2 DEF IsWork
    <3>2. NumItems(job.tx) \in Nat
      BY <3>1, TxItems
    <3> QED BY <3>1, <3>2
  <2> QED BY <2>1, <2>2 DEF MoneyTypes
<1>4. \A k \in DOMAIN chain : {w[1] : w \in chain[k].file.pow} \in Workers
  BY DEF MoneyTypes, ChainTypes, IsBlock
<1> QED BY <1>1, <1>2, <1>3, <1>4 DEF TypeOK, MoneyTypes, IsPool, TxTypes, ChainTypes

\* For any txs, addresses, workers, supply and reward, any number of blocks
\* and resets, and any interleaving of the evidence processor with the main
\* loop: no unit of cash is made or lost until a tx straddles stage3, a
\* reset, or a block that changes its accounts; and then too, every variable
\* keeps its type (app::process, create_local_delta, import, clear).
THEOREM CashConserved == Spec => []Conserved
<1>1. MoneyInv => Conserved
  <2> SUFFICES ASSUME MoneyInv PROVE Conserved
    OBVIOUS
  <2>1. TypeOK
    BY TypesOfMoney DEF MoneyInv
  <2>2. ASSUME ~straddled PROVE Total(accounts) + supply_left = Supply
    <3>1. PICK A : MoneyAt(A)
      BY <2>2 DEF MoneyInv
    <3>2. height \in 0..Len(chain) /\ IsHistory(A, chain) /\ accounts = A[height]
      BY <3>1 DEF MoneyInv, MoneyTypes, ChainTypes, MoneyAt
    <3>3. Total(A[height]) + LeftAt(height) = Supply
      BY <3>2 DEF IsHistory
    <3>4. supply_left = LeftAt(height)
      BY LeftIs DEF MoneyInv, MoneyTypes
    <3> QED BY <3>2, <3>3, <3>4
  <2> QED BY <2>1, <2>2 DEF Conserved
<1> QED BY <1>1, MoneyInit, MoneyInvStep, PTL DEF Spec

\* In the same generality, until a tx straddles: the block that is imported,
\* the first time or again after a reset, changes the balance of everybody who is not rewarded
\* by what the txs processed in its cycle say, and gives the others no less.
THEOREM BlocksApplyTheirTxs == Spec => BlockAppliesItsTxs
<1> DEFINE Step == ~straddled /\ height' = height + 1 =>
         LET block == ReadDiff(chain[height'].file) IN
         \A a \in Addrs : LET diff == Balance(accounts', a) - Balance(accounts, a) - Net(block.delta.g.txs, a)
                          IN  IF a \in DOMAIN block.pow THEN diff >= 0 ELSE diff = 0
<1>1. MoneyInv /\ [Next]_vars => [Step]_vars
  <2> SUFFICES ASSUME MoneyInv, Next, ~straddled, height' = height + 1 PROVE Step
    OBVIOUS
  <2>1. height \in Nat
    BY DEF MoneyInv, MoneyTypes, ScheduleOK
  <2>2. Import
    <3>1. height' # height /\ (height' # 0)
      BY <2>1
    <3> QED BY <3>1 DEF Next, ParseEvidence, BeginProcess, ProcessInput, ProcessOutput, CommitFees, CommitAccounts,
              SetPolicy, CreateLocalDelta, Clear
  <2>3. PICK A : MoneyAt(A)
    BY DEF MoneyInv
  <2>4. MoneyAt(A)'
    BY <2>2, <2>3, MoneyImport DEF MoneyInv
  <2>5. /\ height + 1 \in 1..Len(chain)
        /\ accounts = A[height] /\ accounts' = A[height + 1] /\ IsHistory(A, chain)
    BY <2>2, <2>3, <2>4, ImportIs DEF MoneyAt, MoneyInv
  <2>6. Applies(accounts, accounts', chain[height + 1])
    <3>1. Applies(A[(height + 1) - 1], A[height + 1], chain[height + 1])
      BY <2>5 DEF IsHistory
    <3>2. (height + 1) - 1 = height
      BY <2>1
    <3> QED BY <2>5, <3>1, <3>2
  <2> QED BY <2>6 DEF Applies, DeltaOf, Rewarded
<1> QED BY <1>1, MoneyInit, MoneyInvStep, PTL DEF Spec, BlockAppliesItsTxs
=============================================================================
