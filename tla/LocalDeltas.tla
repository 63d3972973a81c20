---------------------------- MODULE LocalDeltas ----------------------------
(***************************************************************************)
(* The pool of one node: the diff under construction, into which the local *)
(* deltas of every node of the network are merged (engine::diff).          *)
(*   - network workers handle local_deltas that arrive                     *)
(*     (process_incoming_local_deltas): ask the pool whether the sender is *)
(*     new, relay, then add; asking and adding are critical sections of    *)
(*     their own, and nothing is locked while the worker relays;           *)
(*   - the main loop adds the node's own (stage3) and turns the pool into  *)
(*     the block it will vote for (stage4).                                *)
(*                                                                         *)
(* What a delta says is left out: a merge is known by the datagram that    *)
(* was merged.  A datagram stands for any delivery of a delta its signer   *)
(* made, in this cycle or an earlier one, and may be delivered again.      *)
(* Datagrams signed by Self are the node's own deltas, relayed back to it. *)
(***************************************************************************)
EXTENDS Naturals, FiniteSets

CONSTANTS
    Dgrams,       \* local_deltas datagrams that may arrive, properly signed
    Pub,          \* the pubkey that signed each
    Self,         \* the pubkey of this node
    Own,          \* what is merged for the node's own delta
    MaxPools      \* bound: pools made

ASSUME OwnAssumption == Own \notin Dgrams
ASSUME MaxPoolsAssumption == MaxPools \in Nat

PubKeys == {Self} \cup {Pub[d] : d \in Dgrams}

SignerOf(x) == IF x = Own THEN Self ELSE Pub[x]

VARIABLES
    mpc,       \* main loop: "start", "stage3", "own", "stage4"
    pow,       \* pubkeys in pool->proof_of_work
    merged,    \* what was merged into pool
    allowed,   \* what a worker has been allowed to add and has not added yet
    torelay,   \* those of them that it has not relayed yet
    new_diff,  \* the diff the last stage4 made, as [pow, merged]
    sent,      \* a delta of the node's own has been sent to the other nodes
    fault,     \* "none", or what the process did that is undefined
    \* history
    relays,    \* how many deltas of each pubkey were ever relayed
    pools,     \* how many pools there have been
    overtaken  \* a stage4 has swapped the pool under a worker; stages are 20
               \* seconds apart, and nothing else keeps them from it

log == <<relays, pools, overtaken>>

poolvars == <<mpc, pow, merged, allowed, torelay, new_diff, sent, fault, log>>

Deltas == Dgrams \cup {Own}

\* The types of the variables.
PoolTypeOK ==
    /\ mpc \in {"start", "stage3", "own", "stage4"}
    /\ pow \in SUBSET PubKeys
    /\ merged \in SUBSET Deltas
    /\ allowed \in SUBSET Dgrams /\ torelay \in SUBSET allowed
    /\ new_diff \in [pow : SUBSET PubKeys, merged : SUBSET Deltas]
    /\ sent \in BOOLEAN
    /\ relays \in [PubKeys -> Nat] /\ pools \in Nat
    /\ overtaken \in BOOLEAN
    /\ fault \in {"none", "null_pool", "end_iterator"}

\* The network thread is started 5 seconds before the pool is created.
PoolInit ==
    /\ mpc = "start"
    /\ pow = {} /\ merged = {} /\ allowed = {} /\ torelay = {}
    /\ new_diff = [pow |-> {}, merged |-> {}]
    /\ sent = FALSE
    /\ fault = "none"
    /\ relays = [k \in PubKeys |-> 0] /\ pools = 0
    /\ overtaken = FALSE

Running == fault = "none"

\* assert(pool==0); pool=new diff();
CreatePool ==
    /\ Running
    /\ mpc = "start"
    /\ mpc' = "stage3"
    /\ pools' = 1
    /\ UNCHANGED <<pow, merged, allowed, torelay, new_diff, sent, fault, relays, overtaken>>

-----------------------------------------------------------------------------
(***************************************************************************)
(* The network workers.                                                    *)
(***************************************************************************)

\* What may be on the wire: the node's own delta only once it was sent.
Arrives(d) == d \notin allowed /\ (Pub[d] = Self => sent)

\* A peer's delta finds the pool's pointer null.
ArriveTooEarly(d) ==
    /\ Running
    /\ mpc = "start"
    /\ Arrives(d)
    /\ fault' = "null_pool"
    /\ UNCHANGED <<mpc, pow, merged, allowed, torelay, new_diff, sent, log>>

\* Mutant: allow() does not note the pubkey.
Mut_Allow(d) ==
    /\ Running
    /\ mpc # "start"
    /\ Arrives(d)
    /\ Pub[d] \notin pow
    /\ allowed' = allowed \cup {d} /\ torelay' = torelay \cup {d}
    /\ UNCHANGED <<mpc, pow, merged, new_diff, sent, fault, log>>

\* First critical section: pool->allow refuses a pubkey it knows, else notes
\* it.
Allow(d) ==
    /\ Running
    /\ mpc # "start"
    /\ Arrives(d)
    /\ Pub[d] \notin pow
    /\ pow' = pow \cup {Pub[d]}
    /\ allowed' = allowed \cup {d} /\ torelay' = torelay \cup {d}
    /\ UNCHANGED <<mpc, merged, new_diff, sent, fault, log>>

\* Then the worker relays, with nothing locked.
Relay(d) ==
    /\ Running
    /\ d \in torelay
    /\ torelay' = torelay \ {d}
    /\ relays' = [relays EXCEPT ![Pub[d]] = @ + 1]
    /\ UNCHANGED <<mpc, pow, merged, allowed, new_diff, sent, fault, pools, overtaken>>

\* Second critical section: merge into what is the pool now, and write the
\* work through proof_of_work.find(), which points nowhere when the pool has
\* no entry of the pubkey: the write hurts or it does not.
AddDelta(d, hurts) ==
    /\ Running
    /\ d \in allowed \ torelay
    /\ allowed' = allowed \ {d}
    /\ merged' = merged \cup {d}
    /\ fault' = IF Pub[d] \notin pow /\ hurts THEN "end_iterator" ELSE fault
    /\ UNCHANGED <<mpc, pow, torelay, new_diff, sent, log>>

-----------------------------------------------------------------------------
(***************************************************************************)
(* The main loop.  Out of sync, or not a node, stage3 returns false and    *)
(* the pool stays for another cycle; nothing of it changes then.           *)
(***************************************************************************)

\* stage3: create_local_deltas and send.  There is always something to send:
\* the apps auth and cash never return 0.
Stage3Send ==
    /\ Running
    /\ mpc = "stage3"
    /\ sent' = TRUE
    /\ mpc' = "own"
    /\ UNCHANGED <<pow, merged, allowed, torelay, new_diff, fault, log>>

\* Mutant: the node adds its own delta without asking.
Mut_Stage3Add ==
    /\ Running
    /\ mpc = "own"
    /\ pow' = pow \cup {Self}
    /\ merged' = merged \cup {Own}
    /\ mpc' = "stage4"
    /\ UNCHANGED <<allowed, torelay, new_diff, sent, fault, log>>

\* stage3: allow and add in one critical section.  The node's own delta may
\* have come back already; then it is not added.
Stage3Add ==
    /\ Running
    /\ mpc = "own"
    /\ \/ /\ Self \notin pow
          /\ pow' = pow \cup {Self}
          /\ merged' = merged \cup {Own}
       \/ /\ Self \in pow
          /\ UNCHANGED <<pow, merged>>
    /\ mpc' = "stage4"
    /\ UNCHANGED <<allowed, torelay, new_diff, sent, fault, log>>

\* Mutant: the new pool inherits proof_of_work.
Mut_Stage4 ==
    /\ Running
    /\ mpc = "stage4" /\ pools < MaxPools
    /\ overtaken' = (overtaken \/ allowed # {})
    /\ new_diff' = [pow |-> pow, merged |-> merged]
    /\ merged' = {}
    /\ pools' = pools + 1
    /\ mpc' = "stage3"
    /\ UNCHANGED <<pow, allowed, torelay, sent, fault, relays>>

\* stage4: the pool becomes new_diff and a new pool takes its place.
Stage4 ==
    /\ Running
    /\ mpc = "stage4" /\ pools < MaxPools
    /\ overtaken' = (overtaken \/ allowed # {})
    /\ new_diff' = [pow |-> pow, merged |-> merged]
    /\ pow' = {} /\ merged' = {}
    /\ pools' = pools + 1
    /\ mpc' = "stage3"
    /\ UNCHANGED <<allowed, torelay, sent, fault, relays>>

Worker(d) == ArriveTooEarly(d) \/ Allow(d) \/ Relay(d) \/ \E h \in BOOLEAN : AddDelta(d, h)

Main == CreatePool \/ Stage3Send \/ Stage3Add \/ Stage4

PoolNext == Main \/ \E d \in Dgrams : Worker(d)

PoolSpec == PoolInit /\ [][PoolNext]_poolvars

-----------------------------------------------------------------------------
(***************************************************************************)
(* Properties.                                                             *)
(***************************************************************************)

\* No two members of S are signed by one node.
OnePerSigner(S) == \A x, y \in S : SignerOf(x) = SignerOf(y) => x = y

\* Deltas do not circulate for ever, however many peers deliver them, and even
\* when workers are overtaken by the swap of the pool and relay in a later
\* cycle: a node never relays more deltas of a pubkey than it has had pools
\* (diff::allow, process_incoming_local_deltas).
RelaysBounded == \A k \in PubKeys : relays[k] <= pools

\* "only one local_deltas per pubkey is allowed to be added": no diff merges
\* two deltas of one node, nor the node's own delta and its echo, until stage4
\* overtakes a worker (diff::add does not ask again).
OneDeltaPerPubkey == ~overtaken => OnePerSigner(merged) /\ OnePerSigner(new_diff.merged)

\* The pubkeys a block rewards (proof_of_work, which cash::app::import pays)
\* are those whose deltas were merged into it, until stage4 overtakes a worker.
ProofOfWorkMatches == ~overtaken => new_diff.pow = {SignerOf(x) : x \in new_diff.merged}
=============================================================================
