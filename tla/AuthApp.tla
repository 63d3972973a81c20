------------------------------ MODULE AuthApp ------------------------------
(***************************************************************************)
(* The auth app (gov/engine/auth_app): who is a node of the network and    *)
(* who waits in the hall, and how the deltas of the nodes become one.      *)
(*   - a worker that has authenticated a peer looks it up and proposes it  *)
(*     for the hall when it is unknown (basic_auth_completed);             *)
(*   - every node turns its proposals and its vote on the policies into a  *)
(*     local delta and merges those of the others as they arrive (merge,   *)
(*     end_merge);                                                         *)
(*   - a block puts the proposed in the hall, then moves some of the hall  *)
(*     to the nodes, or back (import, add_growth_transactions).            *)
(*                                                                         *)
(* All nodes imported the same chain and drew the same random numbers from *)
(* the hash of its last block, so there is one database for all of them.   *)
(* Policies are averages: a policy is kept as the sum of the votes and     *)
(* their number, network_growth in percent.  A node that resets its        *)
(* database (clear) has no part in this until it has imported the chain    *)
(* again: that is in module ChainSync.                                     *)
(***************************************************************************)
EXTENDS Integers, FiniteSets, SequencesExt

CONSTANTS
    Nodes,      \* pubkeys that run this program and are nodes at the start
    Waiting,    \* pubkeys in the hall at the start
    Outsiders,  \* pubkeys unknown at the start
    AddrsOf,    \* addresses each pubkey connects to each node from
    Growths,    \* votes on network_growth, in percent
    MinGrowth,  \* the vote of everybody on network_min_growth
    sysop_allowed, \* whether nodes talk to their sysops
    MaxPool,    \* bound: proposals in a pool
    MaxBlocks   \* bound: blocks imported

ASSUME NodesAssumption ==
    /\ Nodes # {} /\ Nodes \cap Waiting = {} /\ Outsiders \cap (Nodes \cup Waiting) = {}
    /\ IsFiniteSet(Nodes \cup Waiting \cup Outsiders)
ASSUME GrowthsAssumption == Growths \subseteq Int /\ MinGrowth \in Nat
ASSUME SysopAssumption == sysop_allowed \in BOOLEAN
ASSUME MaxAssumption == MaxPool \in Nat /\ MaxBlocks \in Nat

Pubkeys == Nodes \cup Waiting \cup Outsiders

Addrs == {0} \cup UNION {UNION {AddrsOf[n][p] : p \in Pubkeys} : n \in Nodes}

VARIABLES
    nodes, hall, \* db: pubkeys, each with the address it was proposed with
    policies,    \* [growth, mult]: the votes on network_growth and their number
    votes,       \* policies_local of every node
    pool,        \* pool->to_hall of every node
    jobs,        \* of every node: the peer a worker is authenticating, and how far
    stage,       \* what every node takes every peer for
    shells,      \* the app that the shell of every node's sysop is in, or Root
    delta,       \* of every node: what it merged in this cycle
    wire,        \* local deltas under way: [to, words]
    made,        \* nodes that made their local delta in this cycle
    drawing,     \* add_growth_transactions: [on, s, left, uniq, shrink]
    height,      \* blocks imported
    proposed     \* history: what was proposed in the deltas of this cycle

vars == <<nodes, hall, policies, votes, pool, jobs, stage, shells, delta, wire,
          made, drawing, height, proposed>>

None == [p \in {} |-> 0]
Entry(p, addr) == [q \in {p} |-> addr]

\* map::emplace: an entry that is there stays as it is.
Emplace(f, g) == [p \in DOMAIN f \cup DOMAIN g |-> IF p \in DOMAIN f THEN f[p] ELSE g[p]]

NoJob == [at |-> "none"]
NotDrawing == [on |-> FALSE, s |-> 0, left |-> 0, uniq |-> {}, shrink |-> FALSE]

\* shell::shell: in no app.
Root == "root"

\* delta::delta
NoDelta == [to_hall |-> None, growth |-> 0, mult |-> 0]

\* policies_t::temp_load
TempLoad == 1

\* db_t
Database == nodes = [n \in Nodes |-> 0] /\ hall = [p \in Waiting |-> 0]

Init ==
    /\ Database
    /\ policies = [growth |-> TempLoad, mult |-> 1]
    /\ votes = [n \in Nodes |-> TempLoad]
    /\ pool = [n \in Nodes |-> <<>>]
    /\ jobs = [n \in Nodes |-> NoJob]
    /\ stage = [n \in Nodes |-> [p \in Pubkeys |-> "out"]]
    /\ shells = [n \in Nodes |-> Root]
    /\ delta = [n \in Nodes |-> NoDelta]
    /\ wire = {} /\ made = {}
    /\ drawing = NotDrawing
    /\ height = 0 /\ proposed = {}

\* The database is locked while growth draws its numbers.
Importing == drawing.on

-----------------------------------------------------------------------------
(***************************************************************************)
(* Authenticated peers.                                                    *)
(***************************************************************************)

\* basic_auth_completed, first lookup.  A peer with the node's own pubkey is
\* its sysop.  Shells are kept by the address of the peer_t and never erased:
\* a new connection has a new shell, or that of an old one.
LookupNode(n, p, addr) ==
    /\ ~Importing /\ jobs[n] = NoJob
    /\ \/ /\ p = n
          /\ stage' = [stage EXCEPT ![n][p] = "sysop"] /\ UNCHANGED jobs
          /\ \E sh \in {Root, shells[n]} : shells' = [shells EXCEPT ![n] = sh]
       \/ /\ p # n /\ p \in DOMAIN nodes
          /\ stage' = [stage EXCEPT ![n][p] = "node"] /\ UNCHANGED <<jobs, shells>>
       \/ /\ p # n /\ p \notin DOMAIN nodes
          /\ jobs' = [jobs EXCEPT ![n] = [at |-> "hall", p |-> p, addr |-> addr]]
          /\ UNCHANGED <<stage, shells>>
    /\ UNCHANGED <<nodes, hall, policies, votes, pool, delta, wire, made, drawing, height, proposed>>

\* Second lookup, under another lock.
LookupHall(n) ==
    /\ ~Importing /\ jobs[n].at = "hall"
    /\ jobs' = [jobs EXCEPT ![n].at = IF jobs[n].p \in DOMAIN hall THEN "waits" ELSE "unknown"]
    /\ UNCHANGED <<shells, nodes, hall, policies, votes, pool, stage, delta, wire, made, drawing, height, proposed>>

\* What was found is used, without a lock: an unknown peer is proposed.
UseLookup(n) ==
    /\ \/ /\ jobs[n].at = "waits"
          /\ stage' = [stage EXCEPT ![n][jobs[n].p] = "hall"]
          /\ UNCHANGED pool
       \/ /\ jobs[n].at = "unknown" /\ Len(pool[n]) < MaxPool
          /\ stage' = [stage EXCEPT ![n][jobs[n].p] = "out"]
          /\ pool' = [pool EXCEPT ![n] = Append(@, <<jobs[n].p, jobs[n].addr>>)]
    /\ jobs' = [jobs EXCEPT ![n] = NoJob]
    /\ UNCHANGED <<shells, nodes, hall, policies, votes, delta, wire, made, drawing, height, proposed>>

(***************************************************************************)
(* Datagrams of the service sysop; the others are in the modules ChainSync, *)
(* Votes and LocalDeltas.                                                  *)
(***************************************************************************)

\* What a sysop may say: enter an app, vote in it, leave it.  The other
\* commands print something.
Commands ==
    [cmd : {"app"}, id : {"auth", "no app"}] \cup [cmd : {"p"}, value : Growths] \cup [cmd : {"exit"}]

\* auth::app::shell_command, p: the vote on the policies.
SetPolicy(n, c) == IF c.cmd = "p" THEN [votes EXCEPT ![n] = c.value] ELSE votes

\* apps::shell_command: only exit of an app that exists answers nothing.
Answers(id, c) == id = "no app" \/ c.cmd # "exit"

\* shell::command
Command(n, c) ==
    IF shells[n] # Root
    THEN /\ votes' = IF shells[n] = "auth" THEN SetPolicy(n, c) ELSE votes
         /\ shells' = IF Answers(shells[n], c) THEN shells ELSE [shells EXCEPT ![n] = Root]
    ELSE /\ shells' = IF c.cmd = "app" THEN [shells EXCEPT ![n] = c.id] ELSE shells
         /\ UNCHANGED votes

Disconnect(n, p) == stage' = [stage EXCEPT ![n][p] = "out"] /\ UNCHANGED <<votes, shells>>

\* sysops_t::process_work
SysopsWork(n, c) == Command(n, c) /\ UNCHANGED stage

\* process_sysop_request
ProcessSysopRequest(n, p, c) == IF sysop_allowed THEN SysopsWork(n, c) ELSE Disconnect(n, p)

\* process_work: a peer that is not a sysop is disconnected.
ProcessWork(n, p, c) ==
    /\ AddrsOf[n][p] # {}
    /\ IF stage[n][p] = "sysop" THEN ProcessSysopRequest(n, p, c) ELSE Disconnect(n, p)
    /\ UNCHANGED <<nodes, hall, policies, pool, jobs, delta, wire, made, drawing, height, proposed>>

-----------------------------------------------------------------------------
(***************************************************************************)
(* Local deltas and their merge.                                           *)
(***************************************************************************)

\* A list of pairs as a map: map::emplace keeps the first entry of a pubkey.
AsMap(list) ==
    LET first(p) == CHOOSE i \in DOMAIN list :
                      list[i][1] = p /\ \A j \in DOMAIN list : list[j][1] = p => i <= j
    IN  [p \in {list[i][1] : i \in DOMAIN list} |-> list[first(p)][2]]

\* Mutant: the proposals of the last delta replace the others.
Mut_MergeInto(d, to_hall, growth) ==
    [to_hall |-> AsMap(to_hall), growth |-> d.growth + growth, mult |-> d.mult + 1]

\* delta::merge: who is proposed already stays as it is; the votes are added up
\* and counted.
MergeInto(d, to_hall, growth) ==
    [to_hall |-> Emplace(d.to_hall, AsMap(to_hall)), growth |-> d.growth + growth, mult |-> d.mult + 1]

\* add_policies: the delta of a node has its vote.
AddPolicies(n) == [to_hall |-> pool[n], growth |-> votes[n]]

\* policies_base::to_stream, from_stream: one number for each policy.  (They are
\* printed with six digits, which is enough for the votes cast here.)
WritePolicies(d) == <<d.growth>>

ReadPolicies(w) == w[1]

\* Who is proposed, in a stream: how many, and two words for each.
WritePairs(list) == <<Len(list)>> \o [i \in 1..(2 * Len(list)) |-> list[(i + 1) \div 2][2 - (i % 2)]]

ReadPairs(w) == [i \in 1..w[1] |-> <<w[2*i], w[2*i + 1]>>]

\* local_delta::to_stream, from_stream: who is proposed, and the vote.
WriteLocalDelta(d) == WritePairs(d.to_hall) \o WritePolicies(d)

ReadLocalDelta(w) == [to_hall |-> ReadPairs(w), growth |-> ReadPolicies(SubSeq(w, 2*w[1] + 2, Len(w)))]

\* local_deltas::message_to_sign: how many apps, which, and what they say.
MessageToSign(d) == <<1, "auth">> \o WriteLocalDelta(d)

\* local_deltas::to_stream, from_stream; a signature is the message itself.
ToStream(n, d) == <<n, MessageToSign(d)>> \o MessageToSign(d)

FromStream(w) ==
    [pubkey |-> w[1], signature |-> w[2], delta |-> ReadLocalDelta(SubSeq(w, 5, Len(w)))]

\* create_local_delta of a node, sent to the others and merged by itself.
CreateLocalDelta(n) ==
    LET full == AddPolicies(n) IN
    /\ ~Importing /\ height < MaxBlocks
    /\ n \in DOMAIN nodes /\ n \notin made
    /\ made' = made \cup {n}
    /\ wire' = wire \cup [to : Nodes \ {n}, words : {ToStream(n, full)}]
    /\ delta' = [delta EXCEPT ![n] = MergeInto(@, full.to_hall, full.growth)]
    /\ pool' = [pool EXCEPT ![n] = <<>>]
    /\ proposed' = proposed \cup ToSet(pool[n])
    /\ UNCHANGED <<shells, nodes, hall, policies, votes, jobs, stage, drawing, height>>

\* The delta of another node arrives, signed.
Merge(m) ==
    LET g == FromStream(m.words) IN
    /\ m \in wire
    /\ g.signature = MessageToSign(g.delta)
    /\ wire' = wire \ {m}
    /\ delta' = [delta EXCEPT ![m.to] = MergeInto(@, g.delta.to_hall, g.delta.growth)]
    /\ UNCHANGED <<shells, nodes, hall, policies, votes, pool, jobs, stage, made, drawing, height, proposed>>

\* Everybody has made a delta and has those of all the others.
AllMerged == made # {} /\ made = Nodes \cap DOMAIN nodes /\ wire = {}

-----------------------------------------------------------------------------
(***************************************************************************)
(* The block.                                                              *)
(***************************************************************************)

\* How many peers add_growth_transactions moves.
Size(pol, nh, nn) ==
    LET s == (nh * pol.growth) \div (100 * pol.mult)
    IN  IF pol.growth = 0 THEN 0
        ELSE IF pol.growth > 0 THEN Min({Max({s, MinGrowth}), nh})
        ELSE -((nn * pol.growth) \div (100 * pol.mult))

\* delta::to_stream, from_stream: who is proposed, in the order of the map, and
\* the average vote.
WriteDelta(d) ==
    LET ps == SetToSeq(DOMAIN d.to_hall)
    IN  WritePairs([i \in DOMAIN ps |-> <<ps[i], d.to_hall[ps[i]]>>]) \o <<d.growth, d.mult>>

ReadDelta(w) ==
    [to_hall |-> AsMap(ReadPairs(w)), growth |-> w[2*w[1] + 2], mult |-> w[2*w[1] + 3]]

\* import of the block elected, which is what some node merged: the hall, the
\* policies, and the begin of add_growth_transactions.
BeginImport(n) ==
    LET g == ReadDelta(WriteDelta(delta[n])) IN
    /\ AllMerged /\ ~Importing
    /\ n \in made
    /\ hall' = Emplace(hall, g.to_hall)
    /\ policies' = [growth |-> g.growth, mult |-> g.mult]
    /\ LET nh == Cardinality(DOMAIN hall')
           nn == Cardinality(DOMAIN nodes)
           shrink == g.growth < 0
       IN  drawing' = [on |-> TRUE, s |-> Size(policies', nh, nn), left |-> IF shrink THEN nn ELSE nh,
                       uniq |-> {}, shrink |-> shrink]
    /\ delta' = [k \in Nodes |-> NoDelta]
    /\ made' = {} /\ proposed' = {}
    /\ height' = height + 1
    /\ UNCHANGED <<shells, nodes, votes, pool, jobs, stage, wire>>

Without(f, p) == [q \in DOMAIN f \ {p} |-> f[q]]

\* Mutant: the last position is never drawn.
Mut_Drawable == {r \in 0..(drawing.left - 2) : r \notin drawing.uniq}

\* The numbers that end the inner loop: not drawn before, and a position of
\* what is left.
Drawable == {r \in 0..(drawing.left - 1) : r \notin drawing.uniq}

\* Mutant: the peer is erased and then moved.
Mut_Draw(r, p) ==
    /\ Importing /\ drawing.s > 0
    /\ \/ drawing.shrink /\ p \in DOMAIN nodes /\ nodes' = Without(nodes, p) /\ UNCHANGED hall
       \/ ~drawing.shrink /\ p \in DOMAIN hall /\ hall' = Without(hall, p) /\ UNCHANGED nodes
    /\ drawing' = [drawing EXCEPT !.s = @ - 1, !.uniq = @ \cup {r}, !.left = @ - 1]
    /\ UNCHANGED <<shells, policies, votes, pool, jobs, stage, delta, wire, made, height, proposed>>

\* One round of the outer loop: the peer at that position of the hash table,
\* which may be anybody, changes sides.
Draw(r, p) ==
    /\ Importing /\ drawing.s > 0
    /\ \/ /\ drawing.shrink /\ p \in DOMAIN nodes
          /\ nodes' = Without(nodes, p) /\ hall' = Emplace(hall, Entry(p, nodes[p]))
       \/ /\ ~drawing.shrink /\ p \in DOMAIN hall
          /\ hall' = Without(hall, p) /\ nodes' = Emplace(nodes, Entry(p, hall[p]))
    /\ drawing' = [drawing EXCEPT !.s = @ - 1, !.uniq = @ \cup {r}, !.left = @ - 1]
    /\ UNCHANGED <<shells, policies, votes, pool, jobs, stage, delta, wire, made, height, proposed>>

GetStage(p) ==
    IF p \in DOMAIN nodes THEN "node" ELSE IF p \in DOMAIN hall THEN "hall" ELSE "out"

\* Mutant: peers are looked up again only if they wait in the hall.
Mut_EndImport ==
    /\ Importing /\ drawing.s = 0
    /\ drawing' = NotDrawing
    /\ stage' = [n \in Nodes |-> [p \in Pubkeys |->
                   IF stage[n][p] # "hall" THEN stage[n][p] ELSE GetStage(p)]]
    /\ UNCHANGED <<shells, nodes, hall, policies, votes, pool, jobs, delta, wire, made, height, proposed>>

\* The loop is done; update_peers_state.
EndImport ==
    /\ Importing /\ drawing.s = 0
    /\ drawing' = NotDrawing
    /\ stage' = [n \in Nodes |-> [p \in Pubkeys |->
                   IF stage[n][p] = "sysop" THEN "sysop" ELSE GetStage(p)]]
    /\ UNCHANGED <<shells, nodes, hall, policies, votes, pool, jobs, delta, wire, made, height, proposed>>

-----------------------------------------------------------------------------
Next ==
    \/ \E n \in Nodes :
         \/ \E p \in Pubkeys : \E addr \in AddrsOf[n][p] : LookupNode(n, p, addr)
         \/ LookupHall(n) \/ UseLookup(n)
         \/ \E p \in Pubkeys, c \in Commands : ProcessWork(n, p, c)
         \/ CreateLocalDelta(n)
         \/ BeginImport(n)
    \/ \E m \in wire : Merge(m)
    \/ \E r \in Drawable, p \in Pubkeys : Draw(r, p)
    \/ EndImport

Spec == Init /\ [][Next]_vars

-----------------------------------------------------------------------------
\* Pubkeys, each with an address.
IsDirectory(f) == DOMAIN f \subseteq Pubkeys /\ f \in [DOMAIN f -> Addrs]

\* The types of the variables.
TypeOK ==
    /\ IsDirectory(nodes) /\ IsDirectory(hall)
    /\ policies \in [growth : Int, mult : Nat \ {0}]
    /\ votes \in [Nodes -> Growths \cup {TempLoad}]
    /\ \A n \in Nodes : Len(pool[n]) <= MaxPool /\ IsDirectory(delta[n].to_hall)
    /\ jobs \in [Nodes -> {NoJob} \cup [at : {"hall", "waits", "unknown"}, p : Pubkeys, addr : Addrs]]
    /\ stage \in [Nodes -> [Pubkeys -> {"sysop", "node", "hall", "out"}]]
    /\ shells \in [Nodes -> {Root, "auth", "no app"}]
    /\ made \subseteq Nodes
    /\ drawing \in [on : BOOLEAN, s : Nat, left : Nat, uniq : SUBSET Nat, shrink : BOOLEAN]
    /\ height \in 0..MaxBlocks

\* delta::merge: nodes that merged the same deltas, in whatever order they
\* arrived, make the same block, unless somebody was proposed with two
\* addresses in one cycle.
SameDeltasSameBlock ==
    AllMerged /\ (\A x, y \in proposed : x[1] = y[1] => x = y)
        => \A n, m \in made : delta[n] = delta[m]

\* add_growth_transactions: with policies that move at most half of the hall
\* or of the nodes, its inner loop always has a number left to draw.
GrowthEnds == TypeOK /\ (Importing /\ drawing.s > 0 => Drawable # {})

\* basic_auth_completed and update_peers_state: a node never takes somebody
\* for a node who is not, whatever it looked up while a block was imported.
NodeStageIsTrue ==
    ~Importing => \A n \in Nodes, p \in Pubkeys : stage[n][p] = "node" => p \in DOMAIN nodes

\* Nobody leaves the network's books, and nobody becomes a node who did not
\* wait in the hall, whatever was proposed, drawn or proposed again.
MovesThroughHall ==
    [][/\ DOMAIN nodes \cup DOMAIN hall \subseteq DOMAIN nodes' \cup DOMAIN hall'
       /\ DOMAIN nodes' \subseteq DOMAIN nodes \cup DOMAIN hall]_vars
=============================================================================
