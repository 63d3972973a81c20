# Verification of ac-core

TLA+ models of ac-core (the node `gov/`, the wallet `wallet/`, the exchange `tex/cex/`, the Java SDK `sdk/java/`), TLC
configurations that check them on small instances, and TLAPS proofs for all instances.  Paths below are those of the
repository (`src/` in `PROJECT.json` stands for its root).

## 1. The system

ac-core is a blockchain without mining.  Every node runs a one-minute cycle on the wall clock:

| stage | second | what `engine::daemon::run` does (`gov/engine/daemon.cpp`) |
|---|---|---|
| 1 | 0  | vote for the block (`cycle.new_diff`) built in the last cycle |
| 2 | 10 | count the votes (`votes.select`), `eat_diff`: save and import one's own block if it won, point syncd at the elected tip |
| 3 | 20 | if the node is a *node* and in sync: `create_local_deltas`, send them, add them to the pool |
| 4 | 40 | turn the pool (all local deltas received) into `cycle.new_diff`, start a new pool |

Around this loop run the threads `syncd` (fetch the chain to the elected tip from disk or from peers and import it),
`evidence_processor` (feed transactions to the apps in order of time), and the network: a server thread that selects, a pool
of workers that handle datagrams, and a timer thread that keeps connections up.  Wallets (the C++ `walletx`, or programs that use
the Java SDK) talk to a wallet daemon, which talks to a node.  The exchange is a program of its own.

### Components, their state and their operations

| component | state | operations | hard part |
|---|---|---|---|
| main loop (`engine/daemon.cpp`, `cycle.*`) | `cycle.new_diff`, `pool`, `chaininfo.tip` | stages 1-4, `eat_diff`, `load_head` | stages assume that nothing of the last one is still under way |
| syncd (`engine/syncd.cpp`) | `head`, `cur`, `tail`, `resume`; local `patches`, `query_reps` | `update`, walk back, `query_block`, `patch_db`, resets | state read under one lock and used under the next; retries |
| block files (`engine/daemon.cpp`) | `blocks/<hash>`, `blocks/head` | `save`, `process_block`, `get_prev`, removal of bad files | writes are not atomic; crashes |
| ledger (`import`, `clear`) | apps' databases, `last_block_imported` | `import`, `clear` | two threads; `clear` in two halves |
| evidences (`relay/daemon.cpp`, `engine/daemon.cpp`) | seen hashes, `evidences_on_hold`, `calendar`, `last_ev_ts` | `process_work`, `process_evidence`, flush, processor | duplicates, hold and flush against the processor |
| local deltas (`engine/diff.cpp`, `daemon.cpp`) | `pool->proof_of_work`, merged deltas | `allow`, `add`, relay, stage 3, stage 4 | the pool is swapped under the workers |
| votes (`engine/daemon.cpp`) | `votes`: voter -> hash | `vote_tip`, `process_vote_tip`, `select` | flooding over loops of connections; ties |
| auth app (`engine/auth_app.*`) | hall, nodes, policies | lookup of peers, delta, `merge`, `import`, growth | lookups under two locks; order of merges; a draw that may not end |
| cash app (`cash/app.*`, `cash/tx.*`) | mempool, accounts, supply | `parse_evidence`, `process`, local delta, `merge`, `import`, rewards | balances read at one time, written at another; rounding |
| sysop shell (`engine/shell.cpp`) | the app each sysop is in | `app`, `p`, `exit` | shells outlive connections |
| socket server and peer daemon (`socket/*`, `peer/*`) | clients, `wadd`, `wremove`, attic, pool | scan, select, serve, grow, shrink, purge; dial, purge excess | the life of a client is shared by three kinds of threads |
| handshake (`id/peer_t.cpp`, `auth/peer_t.cpp`) | message, stage of the peer, key | request, challenge, response, verdict | two ends, two connections, several workers |
| wallet (`wallet/*`, `walletx`) | keys, devices, their files, the backend's endpoint | requests of devices, signing, selection of inputs, pairing | files shared by processes, an endpoint shared by workers, exact sums |
| SDK (`sdk/java/us`) | socket, the datagram being read | connect, prove, ask, receive | a stream that splits and joins; timeouts; reuse of a closed connection |
| exchange (`tex/cex/*`) | accounts, orders, queues, their files | trade, match, cancel, update, deposit, withdraw, restart | money moved in several steps, indexes kept by hand, rounding |

How they interact: the main loop calls `syncd.update` after every election; syncd calls `import`/`clear` and,
after every round, `on_sync`, which flushes held evidences through the same `process_evidence` the network workers use;
apps take evidences from the processor, hand their delta to stage 3 and get it back, merged with all others,
through `import`.  Votes and deltas are flooded by the nodes.  A worker that has completed a handshake asks the auth app what the
peer is.  The wallet daemon is served by the same socket server, verifies devices by the same handshake, and
asks the node's cash app for balances.

### Properties that make them correct

* ledger: the databases are one chain of linked blocks ending in `last_block_imported`; they only grow by a
  linked block or are discarded; what was imported can be read back from disk;
* syncd: once the votes settle, the node imports the tip and stays in sync;
* main loop: the block of a cycle is used up before the next one is made;
* evidences: handled once per window, in order, none kept for ever;
* local deltas: one per node and block, rewards for exactly those merged, bounded relaying;
* votes: all nodes elect the same tip although they see votes by different routes, and relaying ends;
* auth app: nodes that merged the same deltas make the same block; nobody is taken for a node who is not; growth ends;
* cash app: money is conserved, blocks apply their txs and nothing else, what was signed is what is applied, the supply is paid out on
  schedule;
* sockets: a client is in one container and freed once, never under its worker; input and disconnections are attended to;
* handshake: a verified key is the peer's; one connection per peer; both ends come to one verdict;
* wallet: a payment spends what was asked, keys and devices outlive the process, an answer is the answer of its request;
* SDK: datagrams come out whole, an answer belongs to the request that waits, a call returns;
* exchange: no request creates or destroys money, indexes and files agree with memory, price and age decide who is served.

`PROJECT.json` lists the hazards behind these, line by line ("hazards"), with the properties that watch each one.

## 2. Modules

| module | models | constants |
|---|---|---|
| `ChainSync` | ledger, block files, main loop, syncd, workers that store blocks, crashes | the tree of blocks (`Blocks`, `Prev`), the blocks after which the node is a member (`NodeAt`), `Reps`, `Timely` |
| `Ledger` | what the node promises of its ledger (abstract specification; `ChainSync` implements it) | `Prev` |
| `Evidences` | relay's deduplication, `process_evidence`, hold, flush, calendar, processor | datagrams, their hash and time; which the apps accept and which they may refuse |
| `LocalDeltas` | one node's pool | datagrams and their signers, `MaxPools` |
| `Votes` | the election among all peers | peers, nodes, connections, hashes |
| `Cash` | mempool, accounts, blocks, rewards of one node | txs, what operators vote for, supply, reward |
| `AuthApp` | hall and nodes, deltas of all nodes, growth, the sysop's shell | pubkeys, their addresses, votes |
| `Clients` | client objects between server thread, workers, timer | numbers of objects and descriptors, workers, `edges` |
| `Handshake` | both dialogues of every connection, verdicts, disconnection | nodes, connections, who dials whom, who cannot sign |
| `Wallet` | wallet daemon, devices, backend, `walletx -local`, restarts | devices, workers, keys, balances, amounts, names, the devices of a home at the start |
| `Sdk` | Java SDK and daemon over a byte stream | the base of a byte, the longest datagram, arguments |
| `Matching` | `order`, `waiting_queue::match`, `front::match` as functions | the two currencies, the unit |
| `Exchange` | the engine: accounts, orders, requests, files, restarts (uses `Matching`) | accounts, rates, rulers, amounts, commission |
| `*_proofs` | theorems (section 4) | |
| `MC*` | instances for TLC | |

### ChainSync

One action is one critical section (`syncd_t::mx`, `mx_import`, or a file operation) and the thread-local code
behind it, so every point at which the other thread may come in between is a state.

* `db` is the sequence of blocks imported since the databases were last cleared; the contents of the apps'
  databases are a function of it.  `lbi` is `last_block_imported`, `headfile` is `blocks/head`.
* A block file is absent, cut short, or complete.  `save` and `process_block` first cut it short and then
  complete it; `get_prev` of a file cut short yields its predecessor or zero; `patch_db` finds it corrupt and removes
  it.  Two network workers in the same file at once are not modelled (they write the same bytes).
* `head`, `cur`, `tail`, `resume` are syncd's; `cu`, `prv`, `patches`, `pi` are locals of its run and of `patch_db`.
* `clear()` is two actions: the apps without a lock, then `last_block_imported` under `mx_import`.  `raced` is a
  history variable that remembers an import between the two.
* `Crash` loses the memory, keeps files as they are, and leaves the head file as it is or empty.
* The program starts in an empty home, or in one that `genesis` has made (`StartNewBlockchain`): one block without predecessor and
  the head file.
* The hash of a block is the block: hashes are taken as perfect, and a complete file holds the block its name says.

`Timely = FALSE` lets the threads interleave freely.  `Timely = TRUE` is the case the code is written for: stages are 10
to 20 seconds apart and disk work takes milliseconds, so a stage starts when syncd is asleep or waiting for a peer,
and syncd does not read a file in the middle of its being written.

### Evidences

A datagram carries its `phase`, which says where in the code it is.  `Key` is its hash, so that two
datagrams of one `Key` are two deliveries.  The mutex `calendar.mx` is explicit (`calmx`) because the processor keeps it
while it waits for the hold to be empty; the hold's condition variable is `notified`.  `Accepted` and `Refused` overlap: the least
fee changes between blocks, so the same tx may pass at one time and not at another.  The assertion of
`process_evidence` and the second deletion of a refused datagram, by the worker that brought it (`DropUnknown`) or by the flush, are
faults after which the process is gone; the heap may also not notice the second deletion.
In-sync changes (`UpdateSyncd`, `OnSync`) are what `ChainSync` can do to `in_sync()`; a round never ends less in
sync than it began.  An iterator of the flush may or may not visit what is added while it runs.

### LocalDeltas

A delta is known by the datagram that brought it.  `Allow` and `AddDelta` are the two critical sections of
`process_incoming_local_deltas`, and `Relay` the send after the first one, when `mx_pool` is released: `allowed` holds the deltas between the
two sections and `torelay` those of them not relayed yet.  `relays` counts, for every pubkey, what was relayed since the start, and `pools` the pools there have been (up to `MaxPools`).  Stage 4
swaps the pool 20 seconds after the deltas were sent, and nothing else keeps it from overtaking a worker between its two sections, which then relays and adds
in the next cycle: the history variable `overtaken` says that this has happened, and the properties about one block hold until then.  Null pool and end iterator are faults.  `create_local_deltas` always has something to send, since the apps auth and cash never return 0.

### Votes

Peers on a common clock, each going through stages 1 and 2; votes travel over given connections and are
relayed by nodes.  Ten seconds suffice for the votes to arrive.  The unlocked
`votes_t::add` is taken as atomic.  `Select` is the code's walk over hashes in ascending order with `>=`; the
property compares it with a definition of the winner.

### Cash

One node with its mempool; the other nodes merged the same txs or none of them, and the block elected is what `majority_merger` makes of
the deltas.  `process` walks through the inputs and outputs of a tx one lock at a time (`ProcessInput`,
`ProcessOutput`, `CommitFees`, `CommitAccounts`), so that workers and the main loop come in between.  A tx is written, read, checked for
its bounds and for its signatures as in `tx.cpp` and `p2pkh.cpp`; a signature names who signed, which parts, and what they were.  A
datagram may be cut anywhere.  `clear` and the import of the same chain again are modelled.  Nothing keeps a tx from being half processed when
stage 3 takes the pool, the database is reset or a block is imported, or from using an account that a block under way changes: balances
are written as absolute values, and then overwrite each other.  The model goes on from there, and `straddled`, a history variable, remembers that it
happened; what is said of sums of money is said until then.  Balances may become negative: `process` does not
compare an input with the balance.  The policies of the block are written and unused by the cash app.

### AuthApp

All nodes imported the same chain and drew the same numbers, so there is one database; each node has its own pool, deltas, stages of its
peers and shells.  `LookupNode`, `LookupHall`, `UseLookup` are the critical sections of `basic_auth_completed`.  Growth draws one position
at a time (`Draw`), since its inner loop may fail to end.  A policy is the sum and the number of the votes; votes are taken to survive the
six digits they are printed with.  The shell has `app`, `p` and `exit`; commands that print are left out.

### Clients

Server thread, workers and timer as program counters; client objects are numbered and their memory is not reused, so that a stale pointer
is seen as such.  `rmlist::add` tests the socket, and inserts under its lock: these are two steps (`Disconnect`, `RmlistAdd`), and `asks` says which client each
thread, the server thread included, is about to insert in between.  A client that was closed or deleted meanwhile is inserted all the same; the
server thread then calls `on_detach` on freed memory (`DetachDeleted`, which ends in `crashed`).  A descriptor is reused as soon as it is closed.
`crashed` stands for an assertion or for the use of a deleted object by those who keep what `active()` gave them.
`purge_slow` and `check_latency` look for stages that no code sets, and are left out.

### Handshake

Each end of a connection is a state machine; its worker handles one datagram at a time, and `authorize` and `decide` are steps of their
own, because two workers of a node may verify the same key on two connections at once.  A new end is in `active_` when it is
connected; a closed one stays there until the next scan.  A node in `Broken` shows a key it cannot sign for.  The sysop's connection, which shows the
node's own key, is exempt from the test for duplicates.

### Wallet

Keys stand for their public keys and addresses; all accounts are p2pkh; the fee is always 1.  Each `rpc_api` object
remembers what the code remembers of an earlier connection (`object`), which is more than it should: a second connection does not begin a
dialogue.  The endpoint to the backend is one socket for all workers.

No mutex guards the keys.  A worker that adds one goes through four steps, with those of others in between: it puts the key in the table and sets `need_save`
(`ServeKeys`); it finds `need_save` set and truncates the file, or finds it taken back by another worker and returns (`SaveBegins`); what it has gone through of
the table is written (`SaveEnds`), and `need_save` is taken back; it answers (`Tell`).  `saving` says where each worker is and what it writes.  The daemon may be
killed at any step: with the file open, any part of the keys is left in it.

The model follows the program until one of the `flaws`: two workers share the endpoint (`mixed`); a save replaces the keys another process has
written (`overwritten`); a save ends, or is skipped, without a key that another worker believes saved (`unsaved`); a kill in the
middle of a save has lost a key that was told, or the file of devices (`cut`); a device was given a name that `load_` cannot read back (`names`).  The flaws
of the file are detected where a key is lost, so that concurrent saves and kills that lose none are followed.  The devices' file is written in one step, under the mutex of
`devices_t`, unless the daemon is killed in it.  `walletx -local` reads and writes the file whole while nobody else has it open, otherwise the
model stops.  Sending a payment to the backend may fail, which is answered with an error.  The dialogue with the daemon is one step (it is `Handshake`); so is a `-local` command.  The node is reduced to balances and
the transactions it was sent (`Block`): as in `Cash`, one goes into a block when its inputs have accounts and unlock them, whether or not these hold as
much, so that balances may become negative; `query_accounts` leaves such accounts out.

### Sdk

Every byte of the stream is in the model, with a base of 3 for 256 and datagrams below 10 bytes for 100000.  TCP hands over any number of the bytes
that have arrived.  The Java client connects at most once, since `isConnected` stays true after `close`.  The daemon is honest and
echoes the argument.  `Error` stands for all texts of errors.  The SDK's `msg` and `stage_peer` are `jmsg` and `jstage`, since one proof module
extends `Handshake` and `Sdk`.

### Matching and Exchange

Amounts are integers in units of `One`; `encode(decode(x) op decode(y))` is the exact quotient rounded down.  A request
is a function of the engine's record, so that `update` can cancel and trade again with files written where the code writes them; requests are
atomic because the FastCGI manager runs one at a time.  The market has its two fronts; each rate has a queue per priority with a cached
value.  `flaws` names the five paths on which the code loses its books: a refund of more than was
withdrawn (`refund`), an early return after a withdrawal (`short`), an order that a queue cannot find (`unfound`), an update that names an order of
another account (`foreign`), and a queue that a restart does not read (`missed`); the properties speak of everything before them.  A request that never returns makes the model stop (`hung`).
Unlike `cancel_order`, `update` does not compare the order's account with the caller's, and neither does the model: any order of the cache may be
named.  `AddSampleLiquidity` is the orders `cexapi` may place at the start, on the tick of each ruler.

## 3. Runs

| run | checks | on | distinct states |
|---|---|---|---|
| `chain_free` | `LedgerIsChain`, `ImplementsLedger` | all threads interleave freely; a chain of two blocks, two petitions before a reset | 1.59 million |
| `chain_live` | `NewDiffConsumed`, `ImportedOnDisk`, `SyncReachesTip` | a block that makes the node lose its membership, a competing one that keeps it; a crash, files cut short, resets | 1.27 million |
| `evidences` | `HandledOncePerWindow`, `TxOrderEnforced`, `ScheduledIsConsumed` | two deliveries of one evidence and an older one whose fee may be too low; one loss of sync, one new window | 453 thousand |
| `deltas` | `RelaysBounded`, `OneDeltaPerPubkey`, `ProofOfWorkMatches` | two deltas of one peer, one of another, an echo of the node's own; three pools, stage 4 may overtake workers | 1.24 million |
| `votes` | `ElectsTheWinner`, `FloodShrinks` | a loop of three nodes and a peer in the hall that knows one of them; two candidate blocks | 811 thousand |
| `cash` | `RewardSchedule`, `Conserved`, `AppliedAsSigned`, `BlockAppliesItsTxs` | five txs (fees, two inputs of one account, altered ones, zero amount, too many outputs), which may straddle stages and blocks; three blocks, one reset | 703 thousand |
| `auth` | `SameDeltasSameBlock`, `GrowthEnds`, `NodeStageIsTrue`, `MovesThroughHall` | two nodes, one peer in the hall, one that comes from two addresses; two blocks, votes to shrink by half | 625 thousand |
| `exchange` | `Reconciles`, `IndexesAgree`, `FilesAreCurrent`, `ServedInOrder`, `TradesMeet` | two accounts, two rates, two deposits, three requests, one restart, with and without sample liquidity; updates of anybody's orders | 251 thousand |
| `clients` | `WorkerOwnsItsClient`, `InOneContainer`, `InputIsServed`, `DetachIsServed` | two objects, three descriptors, one worker, the timer once | 249 thousand |
| `handshake` | `VerifiedIsPeer`, `OneConnectionPerPeer`, `Settles` | two nodes that dial each other, one that cannot sign, the sysop; three connections of four | 163 thousand |
| `wallet` | `SpendsAsAsked`, `RefusedForAReason`, `KeptAcrossRestarts`, `AnswersTheRequest` | two devices, paired before or not, two workers (both in `save` at once, too), three keys, two requests, a restart, a local command, kills at any step | 1.25 million |
| `sdk` | `WholeDatagrams`, `AnswersItsAsk`, `AskReturns` | three asks with arguments of one byte, of two, the longest and one too long; a timeout at any time | 62 thousand |

**Bounds.**  A chain of two blocks has every relation of a block to `last_block_imported` (zero, equal,
predecessor, unrelated after a reset); the third block adds the fork and the loss of membership.  `Reps` is 100
in the code; 1 and 2 pass through first petition, repetition, zero and below.  `MaxCrashes` = 1: a crash leaves a
disk like any other, the second starts from a state the first one covers.  In ChainSync the bound on new blocks is an action
(`Stage4Bound`): the cycle goes on without making one.  `MaxLosses`, `MaxResets`, `MaxClock` = 1 let evidences
be early or late, held or not, and in two windows.  Votes has no bounds but its constants.  `MaxPools` = 3 lets a worker be overtaken by
two swaps, and deltas come in each of three cycles.
Two hashes and three voters, who may abstain, give majorities, ties and elections without votes; the loop of nodes is the smallest
network in which a vote comes by two routes, the peer in the hall needs relays to hear of two of the voters.
Cash: a supply of 10 and a reward of 4 cut the third reward; fees of 2 among two workers are split with and without a rest; one reset imports blocks
again.  AuthApp: the hall is empty, of one and of two, so that growth takes all, some and none.  Exchange: with `One` = 2, rates 3/2 and 2
and amounts 1 and 4, the sample liquidity on one market, every division leaves a rest in some request; three requests after two deposits suffice to make two orders, match them and
update, cancel or restart.  Clients: one worker lets the pool be full, two objects and three descriptors let a descriptor be reused;
two workers (`MCWorker` changed by hand) let two clients be served at once, but then the pool is never full.
Handshake: three connections are the two that cross and one more.  Wallet: two requests let an answer come late; a payment of 2 with the fee of 1 and purses of 3, 1 and
4 empties the node's key, takes two inputs with the second key, is refused with the third (covered exactly with another account left, `RefusedForAReason`), and after
a block there is too little.  Two devices need a request each to be paired before two workers can be asked for keys at once, so homes may have both paired at the start (`Paired`).  `Draft`
is empty in the run: what is signed later are payments whose second input was signed over the message of the first.  Sdk: the second ask follows a timeout or a closed connection, the
third shows that it stays that way.

**Deadlock** is not checked where the system may stop: by a fault of the process (Evidences, LocalDeltas), at a flaw (Exchange, Wallet), or
because the bounds are used up (Cash, AuthApp, Clients, Handshake, Sdk).  ChainSync and Votes are checked for it.

**Fairness.**  `ChainSync`: main loop and syncd are threads the system schedules, the clock calls every stage, and a block
the node lacks is delivered in the end (peers answer the petitions repeated every 3 seconds): weak fairness of the main loop, of syncd and of
the network as a whole.  Of votes
and crashes nothing is assumed, and `SyncReachesTip` only speaks of behaviours in which the votes settle.
`Evidences`: workers, flush, processor and clock run; the main loop updates syncd in every cycle, and
with an attainable tip its round ends in sync (this is what `chain_live` shows).  `Votes` needs none: `FloodShrinks` gives a
measure that every delivery lowers, so the flood ends in any order of deliveries.  `Clients`: server thread, every worker and the
timer run; nothing is assumed of who connects or sends.  `Handshake`: some end's worker goes on as long as one has something to handle (TCP delivers), one weak fairness over all ends;
connections are made or not.  `Sdk`: the program's own thread goes on, whose reads end after 3 seconds; nothing is assumed of the daemon or the network.

**Mutants.**  Every property is violated by a plausible bug put into the model (`Mut_...` definitions, "mutants" in `PROJECT.json`).

## 4. What is proved

TLAPS proves, for every value of the constants that meets the `ASSUME`s:

* `ChainSync_proofs`: `TypeCorrect`, `LedgerCorrect` (`Spec => []LedgerIsChain`), `Refinement`
  (`Spec => ImplementsLedger`), for any tree of blocks, any number of crashes and free interleaving.  The inductive invariant is
  `IInv == TypeOK /\ LocalsOK /\ LedgerIsChain`.  `LocalsOK` says what a program counter tells of the thread's locals
  (the index into `patches` is in range while patching, `new_diff` is a block while importing); without it `import`
  could be applied to something that is not a block.  `LedgerIsChain` is inductive given these: an import checks under
  `mx_import` that the block links to `lbi`, hence to the end of the chain (`ExtendChain`), unless
  the other thread is half through `clear()`, and then the step sets `raced`.  The refinement follows step by step from
  `IInv`: the only steps that change `db` are imports, clears and crashes.
  `BlocksOnDisk` (`Timely` implies `Spec => []ImportedOnDisk`), from `DiskInv`: a file being written exists, and so does that of
  the block each of the two threads is about to import.  `NewDiffIsConsumed` (`Timely` implies `Spec => []NewDiffConsumed`): between stage 4 and the next one
  a block is voted on and imported, or dropped, unless the node stops being one of the nodes and starts again within a cycle.  That it does
  not, follows from what syncd may still do when the main loop leaves stage 2 (`ConsumedInv`): it sleeps with nothing to do, or walks towards a
  block that is not on disk.  That the latter cannot end in an import that makes the node a node again needs `WalkInv` (`patches` ends
  where the walk goes on, and the walk goes on to a block that is missing) and `KeptInv` (whatever was imported is on disk with all it builds
  on, in the sense of the set `Rooted`, so that a walk through stored blocks reaches the end).
* `Floods_proofs`, about `Votes` and `LocalDeltas`: `WinnerElected` (`Spec => []ElectsTheWinner`) for any connected network, any votes and
  any order of deliveries.  `FloodInv`: what is said was cast and its sender has heard it (`SaidAsCast`); what a node has heard its people
  have heard or are being told (`GoesRound`), from which, when nothing is under way, everybody has heard everything, since a set of peers closed under
  connections is all of them; and from the first election on all tables equal the votes cast or have been used up
  (`Electing`).  `SelectsTheWinner` shows that the walk of `votes_t::select` over hashes in ascending order, with `>=`, ends with the definition of the
  winner, by induction over its positions.  `FloodEnds` (`Spec => FloodShrinks`): the measure counts, for every vote, the peers that have not heard it.
  `DeltasTyped`; `RelayBounded` (`PoolSpec => []RelaysBounded`) for free interleaving, overtaken workers included, from `BoundInv` (of each
  pubkey, what was relayed and what workers are about to relay is at most one per pool there has been, and one less while the pool does not know the
  pubkey).  `OneDelta` and `RewardsMatch`, until stage 4 overtakes a worker, from `PoolInv` (what is merged and what workers are
  about to add are of distinct signers, and `proof_of_work` lists exactly these).
* `Evidences_proofs`: `TypeCorrect`; `TxOrder` (`Spec => TxOrderEnforced`), from
  `IInv == TypeOK /\ TakenOK /\ ProcessedBefore`: the processor compares an evidence with the last one only, and
  `ProcessedBefore` (no processed evidence is younger than `last_ev_ts`) makes this a comparison with all; and `OncePerWindow`
  (`Spec => []HandledOncePerWindow`), from `PassedOn` (a hash passed on in this window is in the table) and `CountOK` (of each hash,
  at most one delivery per window that ended, and one more if it is in the table): the step that passes one on
  finds the hash missing and enters it under the same lock.  All other steps are shown to pass nothing on.
* `Sessions_proofs`, about `Handshake` and `Sdk`: `TypeCorrect`; `PeerVerified` (`Spec => []VerifiedIsPeer`) and `OneConnection`
  (`Spec => []OneConnectionPerPeer`) for any nodes and connections.  The key of the first is `DialogueOK`: a connection has at most one
  datagram under way, of the kind its receiver waits for, whose key is the sender's, and whose signature is good only if the sender can sign.  The second needs
  `OneActive`, the same property for connections that are closed and still listed as active, because that is the list `is_duplicate`
  counts; and that a worker is on open ends only, and open ends are listed (`StepIsOpen`).
  `DatagramsWhole` (`SessionSpec => []WholeDatagrams`) and `AnswersBelong` (`SessionSpec => []AnswersItsAsk`), for any base of the bytes, sizes that fit in Java's
  int, arguments and number of asks.  `SdkInvariant` names what is on the way, `u` up and `v` down (the datagrams sent and not received yet, an existential
  quantifier): `Flow` says that the bytes put together so far and those under way are these datagrams, however they were cut, and
  `DialogueOf` that while the socket is open there are only those the ask under way needs; a socket that was closed is never used again, so that nothing
  a late answer could be taken for survives a timeout.  `TwoDigits`, `FourDigits` and `DatagramIs` show that sizes and services
  written as digits are read back in both languages; `FlowRead`, that a read of any length leaves a `Flow`.
* `AuthApp_proofs`: `StageIsTrue` (`Spec => []NodeStageIsTrue`): the invariant says nothing of stages while a block is imported, and
  `update_peers_state` looks everybody up before it is done; the lookup that writes "node" is under the lock of the nodes.  `ThroughHall`
  (`Spec => MovesThroughHall`), from the steps alone.  `SameBlock` (`Spec => []SameDeltasSameBlock`): what a node has merged is explained by
  what the nodes said in this cycle (`c`) and the sums of their votes (`F`, for every set of nodes): `Explains` says that the
  delta of n is `MergeOf` the deltas of `Has(c, n)`, those that made one and whose message is not under way to n any more.  `c` and `F`
  are bound by an existential quantifier and extended by one node whenever a node makes its delta (`OneMore`), so that no induction over
  sets of votes is needed.  When nothing is under way all have the same set.  `LoopEnds` (`HalfAtMost` implies `Spec => []GrowthEnds`):
  `DrawsOK` keeps `Cardinality(uniq) + 2 * s <= left + 1`; it holds at the begin because an average of votes of at
  most half moves at most half, rounded up (`AtMostHalf`, `SizeIs`), and a draw takes one from `left` and two from the left side but one.  That
  average is what the streams carry: `StreamRead` and `DeltaRead` show that what is read is what was written.  `Typed`, for any votes.
* `Cash_proofs`: `OnSchedule` (`Spec => []RewardSchedule`) for any supply, reward and number of blocks and resets.  `ScheduleOK` adds to the
  property that the reward is never negative after it was cut, without which the supply could grow again.  `SignedOnly`
  (`Spec => []AppliedAsSigned`), from `SignedInv`: an account that all outputs to it lock by p2pkh (`P2pkhOnly`) is locked so wherever
  `account_state` may find it (batch, pool, database, blocks: `Locked`, `PoolOK`, `ChainOK`), and the inputs a job has
  walked past were checked (`IsJob`).  `ReadsWhatWasWritten` shows that a datagram that was cut is refused and any other gives the tx that was written.
  `CashConserved` (`Spec => []Conserved`) and `BlocksApplyTheirTxs` (`Spec => BlockAppliesItsTxs`), for any txs, supply, fees and workers: `MoneyInv` says that, until
  a tx straddles stage 3, a reset or a block that changes its accounts, there are balances `A` which the database has at its height and from which every later block, the pool and the half-processed tx follow, each
  by what its txs move; the fees of the pool are what its txs take, and the new cash of a block is what the supply loses.  `straddled` is
  set by the step that lets it happen and never taken back (`Straddling`); the types, the reward's schedule and the signatures
  (`OnSchedule`, `SignedOnly`) hold beyond it.  The invariant rests on lemmas about
  `SumFunctionOnSet` (independence of the order, one element more, two functions added) and about the fees shared among workers with and without a rest.
* `Clients_proofs`: `WorkersOwn` (`Spec => []WorkerOwnsItsClient`) and `OneContainer` (`Spec => []InOneContainer`), for any number of objects,
  descriptors and workers.  The two need each other and are not inductive: `IInv` adds that an object exists exactly while it is in a
  container (`Placed`), that an open socket is kept under its own descriptor (`Sockets`), that pointers held by threads, those about to enter `wremove` included,
  are of objects that were created, if not that they still exist (`Created`), that a worker has a client at certain steps only (`Holding`), and that a descriptor still to be served is that of an open client
  nobody is on (`Watched`).  The timer is not one of the workers (`ClientsAssumption`).
* `Wallet_proofs`, all from `IInv`: `AnswersMatch` (`Spec => []AnswersTheRequest`), from `AnswersInv`: as long as a device's object is on its first connection, its
  request is in one place only (sent, in a worker, at the backend, or answered), because a timeout closes the connection.  `KeptAfterRestarts`
  (`Spec => []KeptAcrossRestarts`), until a flaw: `SavingInv` (a worker in `save` has its key in the table, and writes nothing else than the table),
  `ToldKeysInFile` and `RosterInv` (the file of devices is what `save_` makes of the roster).  `ToldKeysInFile` says of every
  key in memory that it is in the file, or in the hands of a worker that has the file open (`InFile`), or of one that is about to (`Kept`), and that `need_save` is
  down only when the workers about to save need not: which is why a save that returns at once, or ends beside another, loses nothing unless it is the flaw
  `unsaved`; `SettledFile` concludes for the moment at which nobody saves.  `LoadsWhatWasSaved` shows that
  `load_` reads back what `save_` wrote when every name is one word.  `PaymentsAsAsked` (`Spec => []SpendsAsAsked`) and `RefusalsHaveReasons`
  (`Spec => []RefusedForAReason`), for any accounts and amounts: `BackendInv` says that until a flaw one worker waits and the answer on its way is its
  own, for the addresses it asked (`BoxesAre`); `Selection` splits `select_sources` into the case in which all accounts are used up (`TakesAll`) and the one in
  which the k-th is not (`TakesSome`), and `BeforeIs` relates the running remainder to a sum over the smallest accounts; `SignAllUnlocks` follows each
  signature through `get_hash`, which does not depend on signatures (`HashIgnoresSigs`).

The inductive invariants were checked by TLC on the instances of the runs before they were proved; `Explained` and `SdkInvariant`, which quantify over functions and sequences, are proved only.

Assumptions on constants are those of the modules; those that are more than a type: pubkeys of `AuthApp`, peers of `Votes`
and the nodes rewarded by a block of `Cash` are finitely many, and so are the devices that a home has paired; the nodes of `Votes` are connected with each other and everybody else with a node
(`ConnectedAssumption`); the fee of the wallet is positive and the transactions made elsewhere are unsigned;
a datagram of `Sdk` is longer than its header and its sizes fit in Java's int (`SizeAssumption`), and a byte has at least three values, and no character that is sent is NUL (`AskAssumption`; the C++
`parse_string` would stop there).  `Timely` and `HalfAtMost` appear where a theorem or a property names them.  `HalfAtMost` (votes between -50 and 50 percent, a least growth of at most one) is needed:
beyond it the draw may have no number left.

Induction over sets, positions and folds is done without the library's induction theorems, whose parameter is an operator: `LeastNumber` gives a nonempty
set of numbers its least element, and from it `NumberInduction` and `SubsetInduction` follow, with the set of the instances for which a claim holds
in the place of a predicate.  The recursive functions behind `SumFunctionOnSet` and `FlattenSeq` are shown to exist before they are unfolded.

Only model-checked:

* liveness (`SyncReachesTip`, `ScheduledIsConsumed`, `InputIsServed`, `DetachIsServed`, `Settles`, `AskReturns`): fairness and `ENABLED` are outside
  of what the prover handles;
* the exchange (`Reconciles`, `IndexesAgree`, `FilesAreCurrent`, `ServedInOrder`, `TradesMeet`): a request is one function that composes a dozen
  recursive steps over queues with products and quotients of amounts, which the SMT solver does not handle.

## 5. What modelling brought to light

Behaviours of the code that the models have, or at which they stop, and that the properties therefore except.

*Node.*
1. An `import` between the halves of `clear()` (`engine/daemon.cpp:696`) leaves a block in databases that count as empty (`raced`).
2. A worker overtaken by `stage4` between `allow` and `add` (`daemon.cpp:491`, `500`) adds its delta to the new pool, whose `proof_of_work` does not
   have it: `OneDeltaPerPubkey` and `ProofOfWorkMatches` may fail from then on (`overtaken`).  It also relays it in that cycle, which may make two of one pubkey;
   over all cycles there is still no more than one per pool (`RelaysBounded`).
3. `process_evidence` asserts `in_sync()` (`daemon.cpp:579`) after it was checked, without a lock.
4. A flush after a round that did not catch up erases the evidences that `process_evidence` puts back on hold (`daemon.cpp:546`, `558`).
5. The processor waits for an empty hold with `calendar.mx` locked (`daemon.cpp:183`, `187`); the flush needs `calendar.mx`.
6. `assert(cycle.new_diff==0)` (`daemon.cpp:149`) can fail, with `Timely = FALSE`, on a node that lost and regained its
   membership by blocks syncd imports in the middle of a cycle.
7. Nodes that receive two proposals of one pubkey with different addresses in different orders make different blocks
   (`engine/auth_app.h:64`); a pubkey that is a node may be put in the hall again (`engine/auth_app.cpp:199`).
8. With votes that move more than half of the hall, the draw of positions (`engine/auth_app.cpp:127`) may have no number left.
9. Balances are not compared with inputs (`cash/app.cpp:467`), and txs that straddle stage 3, a reset or a block (`cash/app.cpp:426`) overwrite balances:
   `Conserved` and `BlockAppliesItsTxs` fail in the model once `straddled` is true.
10. A full pool leaves a connection busy for ever (`socket/daemon.cpp:70`); callers of `active()` may hold a client that is deleted
    (`socket/server.cpp:306`).  `rmlist::add` tests the socket before it takes the lock (`socket/server.cpp:351`), so that a client deleted
    in between enters `wremove` and is detached once more.
11. An evidence that no app accepts is deleted twice: by `process_evidence` (`daemon.cpp:583`), and by the worker (`socket/daemon.cpp:105`) or the flush
    (`daemon.cpp:555`) that called it.
12. A sysop that enters an app that does not exist cannot leave it (`engine/shell.cpp:110`, `daemon.cpp:796`).

*Wallet and SDK.*
1. `same_sigmsg_across_inputs` (`cash/tx.h:99`) is true for the codes whose messages differ: all but the first input of such a
   payment are signed over the wrong message.
2. Balances that add up exactly make `select_sources` add an empty input (`wallet/wallet.cpp:216`), and the payment is refused.
3. Names that are empty or of two words are not read back (`wallet/pairing.cpp:57`); two processes overwrite each other's keys
   (`wallet/wallet.cpp:65`); the files of keys and devices are truncated and written anew, so that a kill in
   between loses them (`wallet/wallet.cpp:65`, `wallet/pairing.cpp:44`); `need_save` is shared by workers without a mutex, so that one may skip the save of its key
   or have it overwritten (`wallet/wallet.cpp:69`), and the table may change while it is gone through; an unpaired device stays authorized until it reconnects (`wallet/pairing.cpp:99`).
4. The second connection of an `rpc_api` skips its dialogue (`id/peer_t.cpp:203`) and takes the daemon's challenge for an answer.
5. The Java SDK cannot connect again after its socket was closed (`client.java:46`).

*Exchange.*
1. `update` does not compare the order's account with the caller's (`engine.cpp:764`): the order of another account is cancelled to the caller's wallet or
   resized with the caller's money, and what `total_money` asserts (`TotalMoneyAgrees`, a conjunct of `IndexesAgree`) fails.  The flaw is `foreign`.
2. A refused trade is refunded in full, whatever of it was withdrawn (`engine.cpp:567`); a short update returns after its withdrawal (`engine.cpp:849`).
3. `could_match_provided_big_ordervalue` may call itself for ever with the same amount (`order.cpp:104`).
4. A queue of low priority without one of high priority at the same rate is not loaded (`front.cpp`), and `update` reads an order it has deleted (`engine.cpp:782`).

## 6. Plan

Done: all components of section 1 that carry the program's own state.  Next, in this order:

1. Proofs: `IndexesAgree` of the exchange, whose steps do not calculate.
2. `Consensus`: several nodes, each with pool, votes and databases, on a network that delays, reorders and loses; late votes.  Composes `LocalDeltas`,
   `Votes`, and the merges of `AuthApp` and `Cash`.
3. An abstract specification of the exchange (balances that move between accounts) and `Exchange` shown to implement it.
4. A crash of the exchange between the writing of its queues and of its wallets.

## 7. What is not modelled, and why

* Cryptography: hashes and signatures are taken as perfect.
* Command line, configuration and key files (`gov/input`), the API generator (`api/main.cpp`), the FastCGI front ends (`govx`,
  `walletx/fcgi.cpp`), the PHP interface, the Android app and the web pages: pure I/O or user interfaces without state of the system.
* `tex/fundsim`: a stand-alone simulation on random prices; `cexr`, `cexbot`: clients that print what the exchange answers.
* `dfs` and `loan`: stubs at this commit.
* Averaging of policies in `double`, and the last digits of amounts that doubles lose: TLC has no floating point.
* Data races on unlocked containers (`votes_t::add`, the flush's iterator), whose outcomes cannot be enumerated; section 2
  says what is assumed instead.
* Late and lost votes; a network of nodes that disagree about the chain (planned).
