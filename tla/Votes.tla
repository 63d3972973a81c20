------------------------------- MODULE Votes -------------------------------
(***************************************************************************)
(* The election of the tip.  In stage1 every node of the network votes for *)
(* the block it made and sends the vote to its peers; peers that have not  *)
(* seen a vote of that voter keep it and, when they are nodes themselves,  *)
(* relay it to their other peers (vote_tip, process_vote_tip); in stage2   *)
(* each counts what it has (votes_t::select).                              *)
(*                                                                         *)
(* Hashes are numbers, ordered as std::map orders them.  The peers run on  *)
(* one clock: stage1 and stage2 are 10 seconds apart, and the votes of a   *)
(* cycle arrive in between.  Workers add votes one at a time: votes_t::add *)
(* takes no lock, and what two of them in one hash table would do is not   *)
(* modelled.                                                               *)
(***************************************************************************)
EXTENDS Naturals, FiniteSets, SequencesExt

CONSTANTS
    Peers,       \* the members of the network that run this program
    Nodes,       \* those that the auth app lists as nodes
    Edges,       \* connections, as two-element sets of peers
    Hashes       \* the blocks voted for

ASSUME NodesAssumption == Nodes \subseteq Peers /\ IsFiniteSet(Peers)
ASSUME EdgesAssumption == \A e \in Edges : e \subseteq Peers /\ Cardinality(e) = 2
ASSUME HashesAssumption == Hashes \subseteq Nat \ {0}

\* get_people: the peers a peer is connected with, whatever their stage.
GetPeople(n) == {m \in Peers : {n, m} \in Edges}

\* The nodes connect the network: what one of them says, and every node says
\* on to whom it is connected with, comes to everybody.
ASSUME ConnectedAssumption ==
    \A n \in Nodes, S \in SUBSET Peers :
        n \in S /\ (\A m \in S \cap Nodes : GetPeople(m) \subseteq S) => S = Peers

VARIABLES
    done,      \* the peers that are past stage1 / past stage2 of this cycle
    votes,     \* daemon::votes of every peer: voter -> hash
    wire,      \* votes under way, as [to, from, voter, hash]
    tip,       \* what every peer elected in its last stage2
    cast       \* history: the votes cast in this cycle

vars == <<done, votes, wire, tip, cast>>

Votings == UNION {[S -> Hashes] : S \in SUBSET Nodes}

Message == [to : Peers, from : Peers, voter : Nodes, hash : Hashes]

\* The types of the variables.
TypeOK ==
    /\ done \in [{"stage1", "stage2"} -> SUBSET Peers]
    /\ votes \in [Peers -> Votings]
    /\ wire \subseteq Message
    /\ tip \in [Peers -> Hashes \cup {0}]
    /\ cast \in Votings

NoVotes == [n \in {} |-> 0]

Init ==
    /\ done = [s \in {"stage1", "stage2"} |-> {}]
    /\ votes = [n \in Peers |-> NoVotes]
    /\ wire = {}
    /\ tip = [n \in Peers |-> 0]
    /\ cast = NoVotes

-----------------------------------------------------------------------------
\* votes_t::add keeps the first vote of a voter.
Add(vs, voter, h) ==
    IF voter \in DOMAIN vs THEN vs
    ELSE [v \in DOMAIN vs \cup {voter} |-> IF v = voter THEN h ELSE vs[v]]

Sent(n, people, voter, h) == [to : people, from : {n}, voter : {voter}, hash : {h}]

PastStage(s, n) == done' = [done EXCEPT ![s] = @ \cup {n}]

\* stage1 of a node that has a new_diff: vote for it.
VoteTip(n, h) ==
    /\ n \in Nodes \ done["stage1"]
    /\ PastStage("stage1", n)
    /\ votes' = [votes EXCEPT ![n] = Add(@, n, h)]
    /\ wire' = wire \cup Sent(n, GetPeople(n), n, h)
    /\ cast' = Add(cast, n, h)
    /\ UNCHANGED tip

\* stage1 of a peer that has no new_diff or is not a node.
Abstain(n) ==
    /\ n \in Peers \ done["stage1"]
    /\ PastStage("stage1", n)
    /\ UNCHANGED <<votes, wire, tip, cast>>

\* Mutant: votes are relayed whether they are new or not.
Mut_RelayAlways(m) ==
    /\ m \in wire
    /\ votes' = [votes EXCEPT ![m.to] = Add(@, m.voter, m.hash)]
    /\ wire' = (wire \ {m}) \cup
               (IF m.to \in Nodes
                THEN Sent(m.to, GetPeople(m.to) \ {m.from}, m.voter, m.hash)
                ELSE {})
    /\ UNCHANGED <<done, tip, cast>>

\* process_vote_tip: a vote that is new is relayed by nodes, to all but its sender.
ProcessVoteTip(m) ==
    /\ m \in wire
    /\ votes' = [votes EXCEPT ![m.to] = Add(@, m.voter, m.hash)]
    /\ wire' = (wire \ {m}) \cup
               (IF m.voter \notin DOMAIN votes[m.to] /\ m.to \in Nodes
                THEN Sent(m.to, GetPeople(m.to) \ {m.from}, m.voter, m.hash)
                ELSE {})
    /\ UNCHANGED <<done, tip, cast>>

-----------------------------------------------------------------------------
\* The keys of a std::map, in the order it is gone through.
InOrder(S) ==
    CHOOSE s \in [1..Cardinality(S) -> S] : \A i, j \in DOMAIN s : i < j => s[i] < s[j]

\* votes_t::select: count, then walk the hashes in ascending order, where a
\* later one with as many votes takes over.  Without votes the hash is zero.
Select(vs) ==
    LET count(h) == Cardinality({v \in DOMAIN vs : vs[v] = h})
        walk == InOrder(Range(vs))
        step(best, h) == IF count(h) >= best.max THEN [max |-> count(h), hash |-> h] ELSE best
    IN  FoldLeft(step, [max |-> 0, hash |-> 0], walk).hash

\* The votes of the cycle have had their 10 seconds.
VotesDelivered == done["stage1"] = Peers /\ wire = {}

\* Mutant: select leaves the votes in place.
Mut_Stage2(n) ==
    /\ n \in Peers \ done["stage2"]
    /\ VotesDelivered
    /\ tip' = [tip EXCEPT ![n] = Select(votes[n])]
    /\ PastStage("stage2", n)
    /\ UNCHANGED <<votes, wire, cast>>

\* stage2: elect the tip and forget the votes.
Stage2(n) ==
    /\ n \in Peers \ done["stage2"]
    /\ VotesDelivered
    /\ tip' = [tip EXCEPT ![n] = Select(votes[n])]
    /\ votes' = [votes EXCEPT ![n] = NoVotes]
    /\ PastStage("stage2", n)
    /\ UNCHANGED <<wire, cast>>

\* The next minute begins.
NewCycle ==
    /\ done["stage2"] = Peers
    /\ done' = [s \in {"stage1", "stage2"} |-> {}]
    /\ cast' = NoVotes
    /\ UNCHANGED <<votes, wire, tip>>

Next ==
    \/ \E n \in Peers : Abstain(n) \/ Stage2(n) \/ \E h \in Hashes : VoteTip(n, h)
    \/ \E m \in wire : ProcessVoteTip(m)
    \/ NewCycle

Spec == Init /\ [][Next]_vars

-----------------------------------------------------------------------------
(***************************************************************************)
(* Properties.                                                             *)
(***************************************************************************)

\* The blocks no other has more votes than, in an election of all votes cast.
Leaders(vs) ==
    LET count(h) == Cardinality({v \in DOMAIN vs : vs[v] = h})
    IN  {h \in Range(vs) : \A i \in Range(vs) : count(i) <= count(h)}

\* Whoever a peer is connected with, and by however many routes it is told of
\* a vote, the tip it elects is the winner of the votes the nodes cast in this
\* cycle, each counted once, with the greatest hash winning a tie; hence all
\* peers elect the same.
ElectsTheWinner ==
    /\ TypeOK
    /\ \A n \in done["stage2"] :
        tip[n] = IF cast = NoVotes THEN 0 ELSE Max(Leaders(cast))

\* What the votes under way can still cause: their number, and what the peers
\* who have not heard of a voter may send on when they do.
Pending ==
    LET unheard == {nv \in Peers \X Nodes : nv[2] \notin DOMAIN votes[nv[1]]}
    IN  Cardinality(wire) + Cardinality(Peers) * Cardinality(unheard)

\* Relays come to an end although connections form loops: every vote that
\* process_vote_tip handles leaves less to be sent, so that the flood ends after
\* a bounded number of messages, whatever the order they are delivered in.
FloodShrinks == [][wire \ wire' # {} => Pending' < Pending]_vars
=============================================================================
