--------------------------- MODULE AuthApp_proofs ---------------------------
(***************************************************************************)
(* Proofs about AuthApp, for any set of peers, any votes and any number of *)
(* blocks: who may become a node, and what a node takes a peer for.        *)
(***************************************************************************)
EXTENDS AuthApp, FiniteSetTheorems, SequenceTheorems, WellFoundedInduction, TLAPS

\* The stages a node knows.
StageOK == stage \in [Nodes -> [Pubkeys -> {"sysop", "node", "hall", "out"}]]

\* What add_growth_transactions changes of its locals is not that it runs.
DrawingOK == "on" \in DOMAIN drawing /\ drawing.on \in BOOLEAN

\* The lookups are only as good as the books they were made in: while a block
\* is imported nobody looks, and after it everybody looks again.
IInv == StageOK /\ DrawingOK /\ NodeStageIsTrue

\* Every step keeps the invariant.
LEMMA InvStep ==
    ASSUME IInv, [Next]_vars
    PROVE  IInv'
<1> USE DEF IInv, StageOK, DrawingOK, NodeStageIsTrue, Importing
<1>1. ASSUME NEW n \in Nodes, NEW p \in Pubkeys, NEW addr \in AddrsOf[n][p], LookupNode(n, p, addr)
      PROVE  IInv'
  <2>1. /\ UNCHANGED <<nodes, drawing>> /\ ~drawing.on
        /\ \/ stage' = [stage EXCEPT ![n][p] = "sysop"]
           \/ p \in DOMAIN nodes /\ stage' = [stage EXCEPT ![n][p] = "node"]
           \/ stage' = stage
    BY <1>1 DEF LookupNode
  <2>2. CASE stage' = [stage EXCEPT ![n][p] = "sysop"]
    BY <2>1, <2>2
  <2>3. CASE p \in DOMAIN nodes /\ stage' = [stage EXCEPT ![n][p] = "node"]
    BY <2>1, <2>3
  <2> QED BY <2>1, <2>2, <2>3
<1>2. ASSUME NEW n \in Nodes, LookupHall(n) PROVE IInv'
  BY <1>2 DEF LookupHall
<1>3. ASSUME NEW n \in Nodes, UseLookup(n) PROVE IInv'
  <2>1. /\ UNCHANGED <<nodes, drawing>>
        /\ \/ stage' = [stage EXCEPT ![n][jobs[n].p] = "hall"]
           \/ stage' = [stage EXCEPT ![n][jobs[n].p] = "out"]
    BY <1>3 DEF UseLookup
  <2>2. CASE stage' = [stage EXCEPT ![n][jobs[n].p] = "hall"]
    BY <2>1, <2>2
  <2>3. CASE stage' = [stage EXCEPT ![n][jobs[n].p] = "out"]
    BY <2>1, <2>3
  <2> QED BY <2>1, <2>2, <2>3
<1>4. ASSUME NEW n \in Nodes, NEW p \in Pubkeys, NEW c \in Commands, ProcessWork(n, p, c)
      PROVE  IInv'
  <2>1. UNCHANGED <<nodes, drawing>> /\ (UNCHANGED stage \/ stage' = [stage EXCEPT ![n][p] = "out"])
    BY <1>4 DEF ProcessWork, ProcessSysopRequest, SysopsWork, Disconnect
  <2> QED BY <2>1
<1>5. ASSUME NEW n \in Nodes, CreateLocalDelta(n) PROVE IInv'
  BY <1>5 DEF CreateLocalDelta
<1>6. ASSUME NEW n \in Nodes, BeginImport(n) PROVE IInv'
  <2>1. drawing'.on = TRUE /\ "on" \in DOMAIN drawing' /\ UNCHANGED stage
    BY <1>6 DEF BeginImport
  <2> QED BY <2>1
<1>7. ASSUME NEW m \in wire, Merge(m) PROVE IInv'
  BY <1>7 DEF Merge
<1>8. ASSUME NEW r \in Drawable, NEW p \in Pubkeys, Draw(r, p) PROVE IInv'
  <2>1. drawing' = [drawing EXCEPT !.s = @ - 1, !.uniq = @ \cup {r}, !.left = @ - 1] /\ UNCHANGED stage /\ drawing.on
    BY <1>8 DEF Draw
  <2>2. drawing'.on /\ "on" \in DOMAIN drawing'
    BY <2>1
  <2> QED BY <2>1, <2>2
<1>9. CASE EndImport
  BY <1>9 DEF EndImport, GetStage, NotDrawing
<1>10. CASE UNCHANGED vars
  BY <1>10 DEF vars
<1> QED BY <1>1, <1>2, <1>3, <1>4, <1>5, <1>6, <1>7, <1>8, <1>9, <1>10 DEF Next

\* A node never takes somebody for a node who is not one, whatever workers
\* looked up before, during or after the import of a block
\* (basic_auth_completed, update_peers_state).
THEOREM StageIsTrue == Spec => []NodeStageIsTrue
<1>1. Init => IInv
  BY DEF Init, IInv, StageOK, DrawingOK, NodeStageIsTrue, NotDrawing
<1>2. IInv /\ [Next]_vars => IInv'
  BY InvStep
<1>3. IInv => NodeStageIsTrue
  BY DEF IInv
<1> QED BY <1>1, <1>2, <1>3, PTL DEF Spec

\* What the property says of one step.
BooksStep == /\ DOMAIN nodes \cup DOMAIN hall \subseteq DOMAIN nodes' \cup DOMAIN hall'
             /\ DOMAIN nodes' \subseteq DOMAIN nodes \cup DOMAIN hall

\* Nobody leaves the books and nobody becomes a node who did not wait in the
\* hall, for any votes on growth and any numbers drawn (import,
\* add_growth_transactions).
THEOREM ThroughHall == Spec => MovesThroughHall
<1>1. ASSUME NEW r \in Drawable, NEW p \in Pubkeys, Draw(r, p) PROVE BooksStep
  <2>1. CASE /\ p \in DOMAIN nodes
             /\ nodes' = Without(nodes, p) /\ hall' = Emplace(hall, Entry(p, nodes[p]))
    <3>1. DOMAIN nodes' = DOMAIN nodes \ {p} /\ DOMAIN hall' = DOMAIN hall \cup {p}
      BY <2>1 DEF Without, Emplace, Entry
    <3> QED BY <3>1, <2>1 DEF BooksStep
  <2>2. CASE /\ p \in DOMAIN hall
             /\ hall' = Without(hall, p) /\ nodes' = Emplace(nodes, Entry(p, hall[p]))
    <3>1. DOMAIN hall' = DOMAIN hall \ {p} /\ DOMAIN nodes' = DOMAIN nodes \cup {p}
      BY <2>2 DEF Without, Emplace, Entry
    <3> QED BY <3>1, <2>2 DEF BooksStep
  <2> QED BY <1>1, <2>1, <2>2 DEF Draw
<1>2. ASSUME NEW n \in Nodes, BeginImport(n) PROVE BooksStep
  <2> DEFINE g == ReadDelta(WriteDelta(delta[n]))
  <2>1. nodes' = nodes /\ hall' = Emplace(hall, g.to_hall)
    BY <1>2 DEF BeginImport
  <2> HIDE DEF g
  <2>2. DOMAIN hall \subseteq DOMAIN hall'
    BY <2>1 DEF Emplace
  <2> QED BY <2>1, <2>2 DEF BooksStep
<1>3. [Next]_vars => BooksStep
  <2> SUFFICES ASSUME [Next]_vars PROVE BooksStep
    OBVIOUS
  <2>1. CASE UNCHANGED <<nodes, hall>>
    BY <2>1 DEF BooksStep
  <2>2. CASE \E n \in Nodes : BeginImport(n)
    BY <1>2, <2>2
  <2>3. CASE \E r \in Drawable, p \in Pubkeys : Draw(r, p)
    BY <1>1, <2>3
  <2> QED
    BY <2>1, <2>2, <2>3 DEF Next, vars, LookupNode, LookupHall, UseLookup, ProcessWork,
       CreateLocalDelta, Merge, EndImport
<1>4. [Next]_vars => [BooksStep]_vars
  BY <1>3
<1> QED BY <1>4, PTL DEF Spec, MovesThroughHall, BooksStep

-----------------------------------------------------------------------------
(***************************************************************************)
(* What is read is what was written.                                       *)
(***************************************************************************)

\* Where the words of two streams are when one is put after the other.
LEMMA Joined ==
    ASSUME NEW S, NEW s1 \in Seq(S), NEW s2 \in Seq(S)
    PROVE  /\ s1 \o s2 \in Seq(S) /\ Len(s1 \o s2) = Len(s1) + Len(s2)
           /\ \A k \in 1..Len(s1) : (s1 \o s2)[k] = s1[k]
           /\ \A k \in 1..Len(s2) : (s1 \o s2)[Len(s1) + k] = s2[k]
<1>1. /\ s1 \o s2 \in Seq(S) /\ Len(s1 \o s2) = Len(s1) + Len(s2)
      /\ \A i \in 1..(Len(s1) + Len(s2)) : (s1 \o s2)[i] = IF i <= Len(s1) THEN s1[i] ELSE s2[i - Len(s1)]
  BY ConcatProperties
<1>2. Len(s1) \in Nat /\ Len(s2) \in Nat
  OBVIOUS
<1>3. ASSUME NEW k \in 1..Len(s1) PROVE (s1 \o s2)[k] = s1[k]
  BY <1>1, <1>2
<1>4. ASSUME NEW k \in 1..Len(s2) PROVE (s1 \o s2)[Len(s1) + k] = s2[k]
  <2> DEFINE i == Len(s1) + k
  <2>1. i \in 1..(Len(s1) + Len(s2)) /\ ~(i <= Len(s1)) /\ i - Len(s1) = k
    BY <1>2
  <2> HIDE DEF i
  <2>2. (s1 \o s2)[i] = s2[i - Len(s1)]
    BY <1>1, <2>1
  <2> QED BY <2>1, <2>2 DEF i
<1> QED BY <1>1, <1>3, <1>4

\* What is left of a stream after its first words.
LEMMA RestIs ==
    ASSUME NEW S, NEW s1 \in Seq(S), NEW s2 \in Seq(S), NEW n, n = Len(s1) + 1
    PROVE  SubSeq(s1 \o s2, n, Len(s1 \o s2)) = s2
<1> DEFINE w == s1 \o s2
           i == Len(s1)
           m == Len(s2)
           r == SubSeq(w, n, Len(w))
<1>1. /\ w \in Seq(S) /\ Len(w) = i + m /\ \A k \in 1..m : w[i + k] = s2[k]
  BY Joined
<1>2. i \in Nat /\ m \in Nat
  OBVIOUS
<1> HIDE DEF w, i, m
<1>3. n = i + 1
  BY DEF i
<1>4. /\ r \in Seq(S) /\ Len(r) = IF n <= Len(w) THEN Len(w) - n + 1 ELSE 0
      /\ \A k \in 1..(Len(w) - n + 1) : r[k] = w[n + k - 1]
  <2>1. n \in Int /\ Len(w) \in Int /\ \A k \in n..Len(w) : w[k] \in S
    BY <1>1, <1>2, <1>3
  <2> QED BY ONLY <2>1, SubSeqProperties
<1> HIDE DEF r
<1>5. Len(r) = m
  BY <1>1, <1>2, <1>3, <1>4
<1>6. ASSUME NEW k \in 1..m PROVE r[k] = s2[k]
  <2>1. k \in 1..(Len(w) - n + 1) /\ n + k - 1 = i + k
    BY <1>1, <1>2, <1>3
  <2> QED BY <1>1, <1>4, <2>1
<1>7. r = s2
  BY <1>4, <1>5, <1>6, SeqEqual DEF m
<1> QED BY <1>7 DEF r, w

\* Proposals: who, and from where.
Pairs == Pubkeys \X Addrs

\* Any words at all that the streams here are made of.
LEMMA WrittenPairs ==
    ASSUME NEW list \in Seq(Pairs)
    PROVE  /\ Len(list) \in Nat /\ WritePairs(list) \in Seq(Pubkeys \cup Addrs \cup Nat)
           /\ Len(WritePairs(list)) = 2 * Len(list) + 1 /\ WritePairs(list)[1] = Len(list)
           /\ \A i \in 1..Len(list) : /\ WritePairs(list)[2*i] = list[i][1]
                                      /\ WritePairs(list)[2*i + 1] = list[i][2]
<1> DEFINE n == Len(list)
           T == Pubkeys \cup Addrs \cup Nat
           flat == [i \in 1..(2 * n) |-> list[(i + 1) \div 2][2 - (i % 2)]]
           head == <<n>>
<1>1. n \in Nat /\ \A i \in 1..n : list[i] \in Pairs
  OBVIOUS
<1>2. ASSUME NEW i \in 1..(2 * n)
      PROVE  (i + 1) \div 2 \in 1..n /\ 2 - (i % 2) \in 1..2
  BY <1>1
<1>3. \A i \in 1..(2 * n) : flat[i] \in T
  <2> SUFFICES ASSUME NEW i \in 1..(2 * n) PROVE flat[i] \in T
    OBVIOUS
  <2> DEFINE j == (i + 1) \div 2
             k == 2 - (i % 2)
  <2>1. j \in 1..n /\ k \in {1, 2} /\ flat[i] = list[j][k]
    BY <1>2
  <2> HIDE DEF j, k, flat
  <2>2. list[j] \in Pairs
    BY <1>1, <2>1
  <2> QED BY <2>1, <2>2 DEF Pairs
<1>4. flat \in Seq(T) /\ Len(flat) = 2 * n
  <2>1. flat \in [1..(2 * n) -> T] /\ 2 * n \in Nat
    BY <1>1, <1>3
  <2> HIDE DEF flat
  <2> QED BY <2>1
<1>5. ASSUME NEW i \in 1..n PROVE flat[2*i - 1] = list[i][1] /\ flat[2*i] = list[i][2]
  <2>1. 2*i - 1 \in 1..(2 * n) /\ ((2*i - 1) + 1) \div 2 = i /\ 2 - ((2*i - 1) % 2) = 1
    BY <1>1
  <2>2. 2*i \in 1..(2 * n) /\ (2*i + 1) \div 2 = i /\ 2 - ((2*i) % 2) = 2
    BY <1>1
  <2> QED BY <2>1, <2>2
<1>6. WritePairs(list) = head \o flat
  BY DEF WritePairs
<1> HIDE DEF flat, T
<1>7. head \in Seq(T) /\ Len(head) = 1 /\ head[1] = n
  BY <1>1 DEF T
<1> HIDE DEF head
<1> DEFINE w == head \o flat
<1>8. /\ w \in Seq(T) /\ Len(w) = Len(head) + Len(flat)
      /\ \A k \in 1..Len(head) : w[k] = head[k]
      /\ \A k \in 1..Len(flat) : w[Len(head) + k] = flat[k]
  <2>1. head \in Seq(T) /\ flat \in Seq(T)
    BY <1>4, <1>7
  <2> QED BY ONLY <2>1, Joined
<1> HIDE DEF w
<1>9. Len(w) = 2 * n + 1 /\ w[1] = n
  BY <1>1, <1>4, <1>7, <1>8
<1>10. ASSUME NEW i \in 1..n PROVE w[2*i] = list[i][1] /\ w[2*i + 1] = list[i][2]
  <2>1. 2*i - 1 \in 1..(2 * n) /\ 1 + (2*i - 1) = 2*i /\ 2*i \in 1..(2 * n) /\ 1 + 2*i = 2*i + 1
    BY <1>1
  <2>2. w[1 + (2*i - 1)] = flat[2*i - 1] /\ w[1 + 2*i] = flat[2*i]
    BY <1>4, <1>7, <1>8, <2>1
  <2> QED BY <1>5, <2>1, <2>2
<1> QED BY <1>1, <1>6, <1>8, <1>9, <1>10 DEF w, T

\* The pairs at the begin of a stream, and what comes after them.
LEMMA PairsRead ==
    ASSUME NEW list \in Seq(Pairs), NEW T, NEW tail \in Seq(T),
           NEW w, w = WritePairs(list) \o tail
    PROVE  /\ Len(list) \in Nat /\ w[1] = Len(list) /\ ReadPairs(w) = list
           /\ Len(tail) = 2 => w[2 * w[1] + 2] = tail[1] /\ w[2 * w[1] + 3] = tail[2]
           /\ SubSeq(w, 2 * w[1] + 2, Len(w)) = tail
           /\ (\E S : w \in Seq(S)) /\ Len(w) = 2 * Len(list) + 1 + Len(tail)
<1> DEFINE n == Len(list)
           S == Pubkeys \cup Addrs \cup Nat \cup T
           u == WritePairs(list)
<1>1. /\ n \in Nat /\ u \in Seq(S) /\ Len(u) = 2 * n + 1 /\ u[1] = n
      /\ \A i \in 1..n : u[2*i] = list[i][1] /\ u[2*i + 1] = list[i][2]
  BY WrittenPairs
<1> HIDE DEF u
<1>2. tail \in Seq(S)
  OBVIOUS
<1> HIDE DEF S
<1>3. /\ w \in Seq(S) /\ Len(w) = Len(u) + Len(tail)
      /\ \A k \in 1..Len(u) : w[k] = u[k]
      /\ \A k \in 1..Len(tail) : w[Len(u) + k] = tail[k]
  <2>1. u \in Seq(S) /\ tail \in Seq(S) /\ w = u \o tail
    BY <1>1, <1>2 DEF u
  <2>2. /\ u \o tail \in Seq(S) /\ Len(u \o tail) = Len(u) + Len(tail)
        /\ \A k \in 1..Len(u) : (u \o tail)[k] = u[k]
        /\ \A k \in 1..Len(tail) : (u \o tail)[Len(u) + k] = tail[k]
    BY ONLY <2>1, Joined
  <2> QED BY ONLY <2>1, <2>2, Zenon
<1>4. w[1] = n
  BY <1>1, <1>3
<1>5. ReadPairs(w) = list
  <2>1. ReadPairs(w) = [i \in 1..n |-> <<w[2*i], w[2*i + 1]>>]
    BY <1>4 DEF ReadPairs
  <2>2. ASSUME NEW i \in 1..n PROVE <<w[2*i], w[2*i + 1]>> = list[i]
    <3>1. 2*i \in 1..Len(u) /\ 2*i + 1 \in 1..Len(u)
      BY <1>1
    <3>2. w[2*i] = list[i][1] /\ w[2*i + 1] = list[i][2]
      BY <1>1, <1>3, <3>1
    <3>3. list[i] \in Pairs
      OBVIOUS
    <3> QED BY <3>2, <3>3 DEF Pairs
  <2>3. list = [i \in 1..n |-> list[i]]
    OBVIOUS
  <2> QED BY <2>1, <2>2, <2>3
<1>6. SubSeq(w, 2 * w[1] + 2, Len(w)) = tail
  <2>1. u \in Seq(S) /\ tail \in Seq(S) /\ w = u \o tail /\ 2 * w[1] + 2 = Len(u) + 1
    BY <1>1, <1>2, <1>4 DEF u
  <2>2. SubSeq(u \o tail, 2 * w[1] + 2, Len(u \o tail)) = tail
    BY ONLY <2>1, RestIs
  <2> QED BY <2>1, <2>2
<1>7. ASSUME Len(tail) = 2 PROVE w[2 * w[1] + 2] = tail[1] /\ w[2 * w[1] + 3] = tail[2]
  <2>1. 2 * w[1] + 2 = Len(u) + 1 /\ 2 * w[1] + 3 = Len(u) + 2
    BY <1>1, <1>4
  <2>2. w[Len(u) + 1] = tail[1] /\ w[Len(u) + 2] = tail[2]
    <3>1. 1 \in 1..Len(tail) /\ 2 \in 1..Len(tail)
      BY <1>7
    <3> QED BY <1>3, <3>1, Zenon
  <2> QED BY <2>1, <2>2
<1>8. Len(w) = 2 * n + 1 + Len(tail)
  BY <1>1, <1>3
<1> QED BY <1>1, <1>3, <1>4, <1>5, <1>6, <1>7, <1>8

\* What a node proposes, and its vote.
IsLocalDelta(d) ==
    d = [to_hall |-> d.to_hall, growth |-> d.growth] /\ d.to_hall \in Seq(Pairs) /\ d.growth \in Int

\* local_delta::to_stream and from_stream.
LEMMA LocalDeltaRead ==
    ASSUME NEW d, IsLocalDelta(d)
    PROVE  /\ ReadLocalDelta(WriteLocalDelta(d)) = d
           /\ \E S : WriteLocalDelta(d) \in Seq(S)
<1> DEFINE w == WriteLocalDelta(d)
           tail == <<d.growth>>
<1>1. tail \in Seq(Int) /\ tail[1] = d.growth
  BY DEF IsLocalDelta
<1>2. w = WritePairs(d.to_hall) \o tail
  BY DEF WriteLocalDelta, WritePolicies
<1>3. /\ ReadPairs(w) = d.to_hall /\ SubSeq(w, 2 * w[1] + 2, Len(w)) = tail
      /\ \E S : w \in Seq(S)
  <2> HIDE DEF w, tail
  <2> DEFINE list == d.to_hall
  <2>1. list \in Seq(Pairs) /\ tail \in Seq(Int) /\ w = WritePairs(list) \o tail
    BY <1>1, <1>2 DEF IsLocalDelta
  <2> HIDE DEF list
  <2>2. /\ ReadPairs(w) = list /\ SubSeq(w, 2 * w[1] + 2, Len(w)) = tail
        /\ \E S : w \in Seq(S)
    BY <2>1, PairsRead, Zenon
  <2> QED BY <2>2 DEF list
<1>4. ReadLocalDelta(w) = [to_hall |-> ReadPairs(w), growth |-> SubSeq(w, 2 * w[1] + 2, Len(w))[1]]
  BY DEF ReadLocalDelta, ReadPolicies
<1> HIDE DEF w, tail
<1>5. ReadLocalDelta(w) = d
  BY <1>1, <1>3, <1>4 DEF IsLocalDelta
<1> QED BY <1>3, <1>5 DEF w

\* local_deltas::to_stream and from_stream: every node reads what the sender
\* wrote.
LEMMA StreamRead ==
    ASSUME NEW n, NEW d, IsLocalDelta(d)
    PROVE  FromStream(ToStream(n, d)) = [pubkey |-> n, signature |-> MessageToSign(d), delta |-> d]
<1> DEFINE body == WriteLocalDelta(d)
           m == MessageToSign(d)
           h1 == <<1, "auth">>
           h2 == <<n, m>>
           w == ToStream(n, d)
<1>1. PICK S : body \in Seq(S)
  BY LocalDeltaRead
<1> DEFINE U == S \cup {1, "auth", n, m}
<1>2. h1 \in Seq(U) /\ h2 \in Seq(U) /\ body \in Seq(U)
  BY <1>1
<1>3. m = h1 \o body /\ w = h2 \o m /\ Len(h1) = 2 /\ Len(h2) = 2 /\ h2[1] = n /\ h2[2] = m
  BY DEF MessageToSign, ToStream
<1> HIDE DEF body, m, h1, h2, w, U
<1> DEFINE h == h2 \o h1
<1>4. h \in Seq(U) /\ Len(h) = Len(h2) + Len(h1) /\ \A k \in 1..Len(h2) : h[k] = h2[k]
  BY ONLY <1>2, Joined
<1>5. w = h \o body
  <2>1. h2 \o (h1 \o body) = (h2 \o h1) \o body
    BY <1>2, ConcatAssociative
  <2> QED BY <1>3, <2>1
<1> HIDE DEF h
<1>6. Len(h) = 4 /\ h[1] = n /\ h[2] = m
  BY <1>3, <1>4
<1>7. /\ w \in Seq(U) /\ \A k \in 1..Len(h) : w[k] = h[k]
  <2>1. h \in Seq(U) /\ body \in Seq(U)
    BY <1>2, <1>4
  <2>2. h \o body \in Seq(U) /\ \A k \in 1..Len(h) : (h \o body)[k] = h[k]
    BY ONLY <2>1, Joined
  <2> QED BY ONLY <1>5, <2>2, Zenon
<1>8. w[1] = n /\ w[2] = m
  BY <1>6, <1>7
<1>9. SubSeq(w, 5, Len(w)) = body
  <2>1. h \in Seq(U) /\ body \in Seq(U) /\ 5 = Len(h) + 1
    <3>1. 5 = Len(h) + 1
      BY <1>6
    <3> QED BY <1>2, <1>4, <3>1
  <2>2. SubSeq(h \o body, 5, Len(h \o body)) = body
    BY ONLY <2>1, RestIs
  <2> QED BY <1>5, <2>2
<1>10. ReadLocalDelta(body) = d
  BY LocalDeltaRead DEF body
<1>11. FromStream(w) = [pubkey |-> w[1], signature |-> w[2], delta |-> ReadLocalDelta(SubSeq(w, 5, Len(w)))]
  BY DEF FromStream
<1> QED BY <1>8, <1>9, <1>10, <1>11 DEF w, m

\* A list of pairs has a first one for every pubkey in it (map::emplace).
LEMMA MapOfPairs ==
    ASSUME NEW list \in Seq(Pairs)
    PROVE  /\ DOMAIN AsMap(list) = {list[i][1] : i \in DOMAIN list}
           /\ \A p \in DOMAIN AsMap(list) : \E i \in DOMAIN list : list[i] = <<p, AsMap(list)[p]>>
           /\ IsDirectory(AsMap(list))
<1> DEFINE Ps == {list[i][1] : i \in DOMAIN list}
           First(p, i) == list[i][1] = p /\ \A j \in DOMAIN list : list[j][1] = p => i <= j
           first(p) == CHOOSE i \in DOMAIN list : First(p, i)
<1>1. AsMap(list) = [p \in Ps |-> list[first(p)][2]]
  BY DEF AsMap
<1>2. ASSUME NEW p \in Ps PROVE first(p) \in DOMAIN list /\ list[first(p)][1] = p
  <2> DEFINE Is == {i \in DOMAIN list : list[i][1] = p}
             Below == OpToRel(<, Nat)
  <2>1. Is # {} /\ Is \in SUBSET Nat
    OBVIOUS
  <2>2. PICK i \in Is : \A j \in Is : <<j, i>> \notin Below
    <3>1. IsWellFoundedOn(Below, Nat)
      BY NatLessThanWellFounded
    <3> HIDE DEF Below, Is
    <3> QED BY <2>1, <3>1, WFMin
  <2>3. \A j \in Is : i <= j
    <3> TAKE j \in Is
    <3>1. ~(j < i)
      BY <2>1, <2>2 DEF OpToRel
    <3> QED BY <2>1, <3>1
  <2>4. i \in DOMAIN list /\ First(p, i)
    BY <2>3
  <2>5. first(p) \in DOMAIN list /\ First(p, first(p))
    <3> HIDE DEF First
    <3> QED BY <2>4
  <2> QED BY <2>5
<1> HIDE DEF first
<1>3. ASSUME NEW p \in Ps
      PROVE  list[first(p)] = <<p, AsMap(list)[p]>> /\ p \in Pubkeys /\ AsMap(list)[p] \in Addrs
  <2>1. list[first(p)] \in Pairs /\ list[first(p)][1] = p /\ AsMap(list)[p] = list[first(p)][2]
    BY <1>1, <1>2
  <2> QED BY <2>1 DEF Pairs
<1>4. DOMAIN AsMap(list) = Ps
  BY <1>1
<1>5. IsDirectory(AsMap(list))
  BY <1>1, <1>3, <1>4 DEF IsDirectory
<1>6. \A p \in DOMAIN AsMap(list) : \E i \in DOMAIN list : list[i] = <<p, AsMap(list)[p]>>
  BY <1>2, <1>3, <1>4
<1> QED BY <1>4, <1>5, <1>6

\* The pubkeys are finitely many, and so are those in a map.
LEMMA FiniteDirectory ==
    ASSUME NEW f, IsDirectory(f)
    PROVE  IsFiniteSet(DOMAIN f) /\ Cardinality(DOMAIN f) \in Nat
BY NodesAssumption, FS_Subset, FS_CardinalityType DEF IsDirectory, Pubkeys

\* A map in the order in which it is written: everybody once.
LEMMA InOrder ==
    ASSUME NEW S, IsFiniteSet(S)
    PROVE  /\ SetToSeq(S) \in Seq(S) /\ DOMAIN SetToSeq(S) = 1..Cardinality(S)
           /\ \A x \in S : \E i \in DOMAIN SetToSeq(S) : SetToSeq(S)[i] = x
<1> DEFINE n == Cardinality(S)
           s == SetToSeq(S)
<1>1. n \in Nat /\ ExistsBijection(1..n, S)
  BY FS_CardinalityType
<1>2. \E f \in [1..n -> S] : IsInjective(f)
  <2>1. PICK f \in Bijection(1..n, S) : TRUE
    BY <1>1 DEF ExistsBijection
  <2> QED BY <2>1, Zenon DEF Bijection, Injection
<1>3. s \in [1..n -> S] /\ IsInjective(s)
  BY <1>2 DEF SetToSeq
<1> HIDE DEF s
<1>4. s \in Injection(1..n, S)
  BY <1>3 DEF IsInjective, Injection
<1>5. s \in Surjection(1..n, S)
  <2>1. Cardinality(1..n) = n
    BY <1>1, FS_Interval
  <2> QED BY <1>4, <2>1, FS_Injection
<1>6. \A x \in S : \E i \in 1..n : s[i] = x
  BY <1>5 DEF Surjection
<1> QED BY <1>1, <1>3, <1>6 DEF s

\* What a node has merged.
IsDelta(d) ==
    /\ d = [to_hall |-> d.to_hall, growth |-> d.growth, mult |-> d.mult]
    /\ IsDirectory(d.to_hall) /\ d.growth \in Int /\ d.mult \in Nat

\* delta::to_stream and from_stream.
LEMMA DeltaRead ==
    ASSUME NEW d, IsDelta(d)
    PROVE  ReadDelta(WriteDelta(d)) = d
<1> DEFINE f == d.to_hall
           ps == SetToSeq(DOMAIN f)
           list == [i \in DOMAIN ps |-> <<ps[i], f[ps[i]]>>]
           tail == <<d.growth, d.mult>>
           w == WriteDelta(d)
           n == Cardinality(DOMAIN f)
<1>1. /\ n \in Nat /\ ps \in Seq(DOMAIN f) /\ DOMAIN ps = 1..n
      /\ \A p \in DOMAIN f : \E i \in 1..n : ps[i] = p
  BY FiniteDirectory, InOrder DEF IsDelta
<1>2. f \in [DOMAIN f -> Addrs] /\ DOMAIN f \subseteq Pubkeys
  BY DEF IsDelta, IsDirectory
<1>3. w = WritePairs(list) \o tail
  BY DEF WriteDelta
<1> HIDE DEF f, ps, n, w
<1>4. list \in Seq(Pairs) /\ DOMAIN list = 1..n /\ Len(list) = n
  <2>1. \A i \in 1..n : ps[i] \in DOMAIN f /\ <<ps[i], f[ps[i]]>> \in Pairs
    BY <1>1, <1>2 DEF Pairs
  <2>2. list \in [1..n -> Pairs]
    BY <1>1, <2>1
  <2> HIDE DEF list
  <2> QED BY <1>1, <2>2
<1>5. tail \in Seq(Int) /\ Len(tail) = 2 /\ tail[1] = d.growth /\ tail[2] = d.mult
  BY DEF IsDelta
<1>6. \A i \in 1..n : list[i] = <<ps[i], f[ps[i]]>>
  BY <1>1
<1> HIDE DEF list, tail
<1>7. /\ ReadPairs(w) = list
      /\ Len(tail) = 2 => w[2 * w[1] + 2] = tail[1] /\ w[2 * w[1] + 3] = tail[2]
  <2>1. list \in Seq(Pairs) /\ tail \in Seq(Int) /\ w = WritePairs(list) \o tail
    BY <1>3, <1>4, <1>5
  <2> QED BY ONLY <2>1, PairsRead, ZenonT(60)
<1>8. w[2 * w[1] + 2] = d.growth /\ w[2 * w[1] + 3] = d.mult
  BY <1>5, <1>7
<1>9. AsMap(list) = f
  <2>1. /\ DOMAIN AsMap(list) = {list[i][1] : i \in DOMAIN list}
        /\ \A p \in DOMAIN AsMap(list) : \E i \in DOMAIN list : list[i] = <<p, AsMap(list)[p]>>
        /\ AsMap(list) = [p \in DOMAIN AsMap(list) |-> AsMap(list)[p]]
    BY <1>4, MapOfPairs DEF IsDirectory
  <2>2. DOMAIN AsMap(list) = DOMAIN f
    <3>1. \A i \in 1..n : list[i][1] = ps[i] /\ ps[i] \in DOMAIN f
      BY <1>1, <1>6
    <3>2. DOMAIN AsMap(list) = {list[i][1] : i \in 1..n}
      BY <1>4, <2>1
    <3>3. {list[i][1] : i \in 1..n} \subseteq DOMAIN f
      BY <3>1
    <3>4. DOMAIN f \subseteq {list[i][1] : i \in 1..n}
      BY <1>1, <3>1
    <3> QED BY <3>2, <3>3, <3>4, Zenon
  <2>3. ASSUME NEW p \in DOMAIN f PROVE AsMap(list)[p] = f[p]
    <3>1. PICK i \in 1..n : list[i] = <<p, AsMap(list)[p]>>
      BY <1>4, <2>1, <2>2
    <3>2. ps[i] = p /\ f[ps[i]] = AsMap(list)[p]
      BY <1>6, <3>1
    <3> QED BY <3>2
  <2> QED BY <1>2, <2>1, <2>2, <2>3
<1>10. ReadDelta(w) = [to_hall |-> f, growth |-> d.growth, mult |-> d.mult]
  BY <1>7, <1>8, <1>9 DEF ReadDelta
<1> QED BY <1>10 DEF IsDelta, f, w

-----------------------------------------------------------------------------
(***************************************************************************)
(* Growth: the votes are averaged over the deltas merged, the average moves *)
(* at most half of a list, and so there is a number left to draw.          *)
(***************************************************************************)

\* Policies that move at most half of the hall or of the nodes.
HalfAtMost == Growths \subseteq -50..50 /\ MinGrowth <= 1

\* An average of such votes is one.
Moderate(g, k) == HalfAtMost => -(50 * k) <= g /\ g <= 50 * k

\* What is proposed and what is under way.
PoolsOK == pool \in [Nodes -> Seq(Pairs)]

WireOK ==
    \A m \in wire : /\ m.to \in Nodes
                    /\ IsLocalDelta(FromStream(m.words).delta)
                    /\ FromStream(m.words).delta.growth \in Growths \cup {TempLoad}

\* What the nodes have merged: a sum of votes, and how many they are.
DeltasOK ==
    /\ delta = [n \in Nodes |-> delta[n]]
    /\ \A n \in Nodes : /\ IsDelta(delta[n]) /\ Moderate(delta[n].growth, delta[n].mult)
                        /\ n \in made => delta[n].mult > 0

\* Deltas are made for a block that may still be imported.
HeightOK == made # {} => height < MaxBlocks

\* Enough positions for the numbers drawn and, twice, for those to be drawn: a
\* draw takes a position away and may rule another one out.
DrawsOK ==
    /\ IsFiniteSet(drawing.uniq)
    /\ HalfAtMost /\ drawing.on => Cardinality(drawing.uniq) + 2 * drawing.s <= drawing.left + 1

GrowthInv == TypeOK /\ PoolsOK /\ WireOK /\ DeltasOK /\ HeightOK /\ DrawsOK

\* map::emplace, an entry and an erased one: pubkeys with addresses again.
LEMMA EmplaceIs ==
    ASSUME NEW f, NEW g, IsDirectory(f), IsDirectory(g)
    PROVE  IsDirectory(Emplace(f, g))
BY DEF IsDirectory, Emplace

LEMMA EntryIs ==
    ASSUME NEW p \in Pubkeys, NEW a \in Addrs
    PROVE  IsDirectory(Entry(p, a))
BY DEF IsDirectory, Entry

LEMMA WithoutIs ==
    ASSUME NEW f, NEW p, IsDirectory(f)
    PROVE  IsDirectory(Without(f, p))
BY DEF IsDirectory, Without

\* delta::merge: one vote more, and one more to divide by.
LEMMA Merged ==
    ASSUME NEW d, IsDelta(d), Moderate(d.growth, d.mult),
           NEW list \in Seq(Pairs), NEW g \in Growths \cup {TempLoad}
    PROVE  /\ IsDelta(MergeInto(d, list, g)) /\ MergeInto(d, list, g).mult > 0
           /\ Moderate(MergeInto(d, list, g).growth, MergeInto(d, list, g).mult)
<1> DEFINE e == MergeInto(d, list, g)
           h == Emplace(d.to_hall, AsMap(list))
<1>1. IsDirectory(d.to_hall) /\ d.growth \in Int /\ d.mult \in Nat /\ g \in Int
  BY GrowthsAssumption DEF IsDelta, TempLoad
<1>2. IsDirectory(h)
  BY <1>1, MapOfPairs, EmplaceIs
<1>3. e = [to_hall |-> h, growth |-> d.growth + g, mult |-> d.mult + 1]
  BY DEF MergeInto
<1> HIDE DEF h, e
<1>4. e.to_hall = h /\ e.growth = d.growth + g /\ e.mult = d.mult + 1
  BY <1>3
<1>5. IsDelta(e) /\ e.mult > 0
  BY <1>1, <1>2, <1>3, <1>4 DEF IsDelta
<1>6. Moderate(e.growth, e.mult)
  <2> SUFFICES ASSUME HalfAtMost PROVE -(50 * e.mult) <= e.growth /\ e.growth <= 50 * e.mult
    BY DEF Moderate
  <2>1. -(50 * d.mult) <= d.growth /\ d.growth <= 50 * d.mult
    BY DEF Moderate
  <2>2. -50 <= g /\ g <= 50
    BY DEF HalfAtMost, TempLoad
  <2> QED BY <1>1, <1>4, <2>1, <2>2
<1> QED BY <1>5, <1>6 DEF e

\* Division, rounded down.
LEMMA Quotient ==
    ASSUME NEW a \in Int, NEW b \in Nat, b > 0
    PROVE  a \div b \in Int /\ b * (a \div b) <= a /\ a < b * (a \div b) + b
OBVIOUS

\* With an average of at most half, at most half of a list is moved, rounded up.
LEMMA AtMostHalf ==
    ASSUME NEW h \in Nat, NEW g \in Int, NEW k \in Nat, k > 0
    PROVE  /\ (h * g) \div (100 * k) \in Int
           /\ 0 <= g => 0 <= (h * g) \div (100 * k)
           /\ g <= 0 => (h * g) \div (100 * k) <= 0
           /\ g <= 50 * k => 2 * ((h * g) \div (100 * k)) <= h
           /\ -(50 * k) <= g => -(h + 1) <= 2 * ((h * g) \div (100 * k))
<1> DEFINE a == h * g
           b == 100 * k
           q == a \div b
<1>1. a \in Int /\ b \in Nat /\ b > 0
  OBVIOUS
<1>2. q \in Int /\ b * q <= a /\ a < b * q + b
  <2> HIDE DEF a, b
  <2> QED BY <1>1, Quotient
<1> HIDE DEF q
<1>3. ASSUME 0 <= g PROVE 0 <= q
  <2>1. 0 <= a
    BY <1>3
  <2>2. ASSUME q <= -1 PROVE FALSE
    <3>1. b * q <= -b
      <4> HIDE DEF a, b
      <4> QED BY <1>1, <1>2, <2>2
    <3> QED BY <1>1, <1>2, <2>1, <3>1
  <2> QED BY <1>2, <2>2
<1>4. ASSUME g <= 0 PROVE q <= 0
  <2>1. a <= 0
    BY <1>4
  <2>2. ASSUME q >= 1 PROVE FALSE
    <3>1. b * q >= b
      <4> HIDE DEF a, b
      <4> QED BY <1>1, <1>2, <2>2
    <3> QED BY <1>1, <1>2, <2>1, <3>1
  <2> QED BY <1>2, <2>2
<1>5. ASSUME g <= 50 * k PROVE 2 * q <= h
  <2>1. a <= h * (50 * k)
    BY <1>5
  <2>2. ASSUME 2 * q >= h + 1 PROVE FALSE
    <3>1. (50 * k) * (2 * q) >= (50 * k) * (h + 1)
      BY <1>2, <2>2
    <3>2. (50 * k) * (2 * q) = b * q /\ (50 * k) * (h + 1) = h * (50 * k) + 50 * k
      BY <1>2
    <3> QED BY <1>1, <1>2, <2>1, <3>1, <3>2
  <2> QED BY <1>2, <2>2
<1>6. ASSUME -(50 * k) <= g PROVE -(h + 1) <= 2 * q
  <2>1. -(h * (50 * k)) <= a
    BY <1>6
  <2>2. ASSUME 2 * q <= -(h + 2) PROVE FALSE
    <3>1. (50 * k) * (2 * q) <= (50 * k) * (-(h + 2))
      BY <1>2, <2>2
    <3>2. (50 * k) * (2 * q) = b * q /\ (50 * k) * (-(h + 2)) = -(h * (50 * k)) - b
      BY <1>2
    <3> QED BY <1>1, <1>2, <2>1, <3>1, <3>2
  <2> QED BY <1>2, <2>2
<1> QED BY <1>2, <1>3, <1>4, <1>5, <1>6 DEF q

\* add_growth_transactions moves no more than there are, and at most half of
\* them (rounded up) when the policies say so.
LEMMA SizeIs ==
    ASSUME NEW pol \in [growth : Int, mult : Nat \ {0}], NEW nh \in Nat, NEW nn \in Nat
    PROVE  /\ Size(pol, nh, nn) \in Nat
           /\ HalfAtMost /\ Moderate(pol.growth, pol.mult)
                => 2 * Size(pol, nh, nn) <= (IF pol.growth < 0 THEN nn ELSE nh) + 1
<1> DEFINE g == pol.growth
           k == pol.mult
           s == (nh * g) \div (100 * k)
           t == (nn * g) \div (100 * k)
<1>1. g \in Int /\ k \in Nat /\ k > 0 /\ MinGrowth \in Nat
  BY GrowthsAssumption
<1>2. /\ s \in Int /\ (0 <= g => 0 <= s) /\ (g <= 50 * k => 2 * s <= nh)
      /\ t \in Int /\ (g <= 0 => t <= 0) /\ (-(50 * k) <= g => -(nn + 1) <= 2 * t)
  <2> HIDE DEF g, k
  <2>1. s \in Int /\ (0 <= g => 0 <= s) /\ (g <= 50 * k => 2 * s <= nh)
    BY ONLY <1>1, nh \in Nat, AtMostHalf
  <2>2. t \in Int /\ (g <= 0 => t <= 0) /\ (-(50 * k) <= g => -(nn + 1) <= 2 * t)
    BY ONLY <1>1, nn \in Nat, AtMostHalf
  <2> QED BY <2>1, <2>2
<1>3. Size(pol, nh, nn) = IF g = 0 THEN 0
                          ELSE IF g > 0 THEN Min({Max({s, MinGrowth}), nh})
                          ELSE -t
  BY DEF Size
<1> HIDE DEF g, k, s, t
<1>4. CASE g > 0
  <2> DEFINE a == Max({s, MinGrowth})
  <2>1. a = IF s >= MinGrowth THEN s ELSE MinGrowth
    BY <1>1, <1>2 DEF Max
  <2>2. a \in Int
    BY <1>1, <1>2, <2>1
  <2> HIDE DEF a
  <2>3. Min({a, nh}) = IF a <= nh THEN a ELSE nh
    BY <2>2 DEF Min
  <2>4. ASSUME HalfAtMost, Moderate(g, k) PROVE 2 * Min({a, nh}) <= nh + 1
    <3>1. 2 * s <= nh /\ MinGrowth <= 1
      BY <1>2, <2>4 DEF Moderate, HalfAtMost
    <3> QED BY <1>1, <1>2, <2>1, <2>2, <2>3, <3>1
  <2>5. Min({a, nh}) \in Nat
    BY <1>1, <1>2, <1>4, <2>1, <2>2, <2>3
  <2>6. Size(pol, nh, nn) = Min({a, nh})
    BY <1>1, <1>3, <1>4 DEF a
  <2> QED BY <1>1, <1>4, <2>4, <2>5, <2>6 DEF g, k
<1>5. CASE g = 0
  BY <1>3, <1>5 DEF g
<1>6. CASE g < 0
  <2>1. Size(pol, nh, nn) = -t /\ -t \in Nat
    BY <1>1, <1>2, <1>3, <1>6
  <2>2. ASSUME HalfAtMost, Moderate(g, k) PROVE 2 * (-t) <= nn + 1
    BY <1>2, <2>2 DEF Moderate
  <2> QED BY <1>6, <2>1, <2>2 DEF g, k
<1> QED BY <1>1, <1>4, <1>5, <1>6

\* There is a position that was not drawn while there are more positions than
\* numbers drawn.
LEMMA Room ==
    ASSUME NEW left \in Nat, NEW uniq, IsFiniteSet(uniq), Cardinality(uniq) < left
    PROVE  {r \in 0..(left - 1) : r \notin uniq} # {}
<1> SUFFICES ASSUME \A r \in 0..(left - 1) : r \in uniq PROVE FALSE
  OBVIOUS
<1>1. 0..(left - 1) \subseteq uniq
  OBVIOUS
<1>2. Cardinality(0..(left - 1)) = left
  BY FS_Interval
<1>3. Cardinality(0..(left - 1)) <= Cardinality(uniq)
  BY <1>1, FS_Subset, Zenon
<1>4. Cardinality(uniq) \in Nat
  BY FS_CardinalityType
<1> QED BY <1>2, <1>3, <1>4


\* One entry of a table is set.
LEMMA EntrySet ==
    ASSUME NEW S, NEW A, NEW T, NEW f \in [S -> [A -> T]], NEW n \in S, NEW p \in A, NEW v \in T
    PROVE  [f EXCEPT ![n][p] = v] \in [S -> [A -> T]]
OBVIOUS

\* Peers that are looked up, and a sysop's commands: only what a node takes a
\* peer for, and what it proposes and votes for.
LEMMA PeersStep ==
    ASSUME GrowthInv, NEW n \in Nodes,
           \/ \E p \in Pubkeys : \E addr \in AddrsOf[n][p] : LookupNode(n, p, addr)
           \/ LookupHall(n)
           \/ UseLookup(n)
           \/ \E p \in Pubkeys, c \in Commands : ProcessWork(n, p, c)
    PROVE  GrowthInv'
<1> DEFINE Stages == {"sysop", "node", "hall", "out"}
           Jobs == {NoJob} \cup [at : {"hall", "waits", "unknown"}, p : Pubkeys, addr : Addrs]
           Shells == {Root, "auth", "no app"}
<1>1. /\ jobs \in [Nodes -> Jobs] /\ stage \in [Nodes -> [Pubkeys -> Stages]]
      /\ shells \in [Nodes -> Shells] /\ votes \in [Nodes -> Growths \cup {TempLoad}]
      /\ pool \in [Nodes -> Seq(Pairs)] /\ \A k \in Nodes : Len(pool[k]) <= MaxPool
  BY DEF GrowthInv, TypeOK, PoolsOK
<1>2. UNCHANGED <<nodes, hall, policies, delta, wire, made, drawing, height>>
  BY DEF LookupNode, LookupHall, UseLookup, ProcessWork
<1> DEFINE Good == /\ jobs' \in [Nodes -> Jobs] /\ stage' \in [Nodes -> [Pubkeys -> Stages]]
                   /\ shells' \in [Nodes -> Shells] /\ votes' \in [Nodes -> Growths \cup {TempLoad}]
                   /\ pool' \in [Nodes -> Seq(Pairs)] /\ \A k \in Nodes : Len(pool'[k]) <= MaxPool
<1>3. ASSUME Good PROVE GrowthInv'
  BY <1>2, <1>3 DEF GrowthInv, TypeOK, PoolsOK, WireOK, DeltasOK, HeightOK, DrawsOK
<1>4. ASSUME NEW p \in Pubkeys, NEW addr \in AddrsOf[n][p], LookupNode(n, p, addr) PROVE Good
  <2>1. addr \in Addrs
    BY DEF Addrs
  <2>2. UNCHANGED <<pool, votes>>
    BY <1>4 DEF LookupNode
  <2>3. shells' \in [Nodes -> Shells]
    BY <1>1, <1>4 DEF LookupNode
  <2>4. stage' \in [Nodes -> [Pubkeys -> Stages]]
    <3>1. UNCHANGED stage \/ \E v \in Stages : stage' = [stage EXCEPT ![n][p] = v]
      BY <1>4 DEF LookupNode
    <3> HIDE DEF Stages
    <3>2. CASE UNCHANGED stage
      BY <1>1, <3>2
    <3>3. ASSUME NEW v \in Stages, stage' = [stage EXCEPT ![n][p] = v]
          PROVE  stage' \in [Nodes -> [Pubkeys -> Stages]]
      BY <1>1, <3>3, EntrySet, Zenon
    <3> QED BY <3>1, <3>2, <3>3
  <2>5. jobs' \in [Nodes -> Jobs]
    <3>1. [at |-> "hall", p |-> p, addr |-> addr] \in Jobs
      BY <2>1
    <3>2. UNCHANGED jobs \/ \E j \in Jobs : jobs' = [jobs EXCEPT ![n] = j]
      BY <1>4, <3>1 DEF LookupNode
    <3> HIDE DEF Jobs
    <3> QED BY <1>1, <3>2
  <2> QED BY <1>1, <2>2, <2>3, <2>4, <2>5
<1>5. ASSUME LookupHall(n) PROVE Good
  <2>1. jobs[n].at = "hall" /\ jobs[n] \in Jobs /\ UNCHANGED <<shells, votes, pool, stage>>
    BY <1>1, <1>5 DEF LookupHall
  <2>2. jobs[n] \in [at : {"hall", "waits", "unknown"}, p : Pubkeys, addr : Addrs]
    BY <2>1 DEF NoJob
  <2>3. \E a \in {"waits", "unknown"} : jobs' = [jobs EXCEPT ![n].at = a]
    BY <1>5 DEF LookupHall
  <2>4. PICK a \in {"waits", "unknown"} : jobs' = [jobs EXCEPT ![n].at = a]
    BY <2>3
  <2>5. [jobs[n] EXCEPT !.at = a] \in Jobs
    BY <2>2
  <2>6. jobs' = [jobs EXCEPT ![n] = [jobs[n] EXCEPT !.at = a]]
    BY <2>4
  <2>7. jobs' \in [Nodes -> Jobs]
    <3> HIDE DEF Jobs
    <3> QED BY <1>1, <2>5, <2>6
  <2> QED BY <1>1, <2>1, <2>7
<1>6. ASSUME UseLookup(n) PROVE Good
  <2>1. jobs[n] \in Jobs /\ jobs[n].at \in {"waits", "unknown"}
    BY <1>1, <1>6 DEF UseLookup
  <2>2. jobs[n].p \in Pubkeys /\ jobs[n].addr \in Addrs
    BY <2>1 DEF NoJob
  <2> DEFINE x == <<jobs[n].p, jobs[n].addr>>
  <2>3. x \in Pairs
    BY <2>2 DEF Pairs
  <2>4. /\ UNCHANGED <<shells, votes>> /\ jobs' = [jobs EXCEPT ![n] = NoJob]
        /\ \E v \in Stages : stage' = [stage EXCEPT ![n][jobs[n].p] = v]
        /\ \/ UNCHANGED pool
           \/ Len(pool[n]) < MaxPool /\ pool' = [pool EXCEPT ![n] = Append(@, x)]
    BY <1>6 DEF UseLookup
  <2> HIDE DEF x
  <2>5. pool' \in [Nodes -> Seq(Pairs)] /\ \A k \in Nodes : Len(pool'[k]) <= MaxPool
    <3>1. pool[n] \in Seq(Pairs)
      BY <1>1
    <3>2. Append(pool[n], x) \in Seq(Pairs) /\ Len(Append(pool[n], x)) = Len(pool[n]) + 1
      BY <2>3, <3>1
    <3>3. Len(pool[n]) < MaxPool => Len(pool[n]) + 1 <= MaxPool
      BY <3>1, MaxAssumption
    <3>4. CASE UNCHANGED pool
      BY <1>1, <3>4
    <3>5. CASE Len(pool[n]) < MaxPool /\ pool' = [pool EXCEPT ![n] = Append(@, x)]
      <4>1. pool'[n] = Append(pool[n], x) /\ \A k \in Nodes \ {n} : pool'[k] = pool[k]
        BY <1>1, <3>5
      <4>2. pool' \in [Nodes -> Seq(Pairs)]
        BY <1>1, <3>2, <3>5
      <4> QED BY <1>1, <3>2, <3>3, <3>5, <4>1, <4>2
    <3> QED BY <2>4, <3>4, <3>5
  <2>6. stage' \in [Nodes -> [Pubkeys -> Stages]]
    <3>1. PICK v \in Stages : stage' = [stage EXCEPT ![n][jobs[n].p] = v]
      BY <2>4
    <3> HIDE DEF Stages
    <3> QED BY <1>1, <2>2, <3>1, EntrySet, Zenon
  <2>7. jobs' \in [Nodes -> Jobs]
    BY <1>1, <2>4
  <2> QED BY <1>1, <2>4, <2>5, <2>6, <2>7
<1>7. ASSUME NEW p \in Pubkeys, NEW c \in Commands, ProcessWork(n, p, c) PROVE Good
  <2>1. UNCHANGED <<jobs, pool>>
    BY <1>7 DEF ProcessWork
  <2>2. UNCHANGED stage \/ stage' = [stage EXCEPT ![n][p] = "out"]
    BY <1>7 DEF ProcessWork, ProcessSysopRequest, SysopsWork, Disconnect
  <2>3. stage' \in [Nodes -> [Pubkeys -> Stages]]
    <3>1. "out" \in Stages
      OBVIOUS
    <3> HIDE DEF Stages
    <3>2. CASE UNCHANGED stage
      BY <1>1, <3>2
    <3>3. CASE stage' = [stage EXCEPT ![n][p] = "out"]
      BY <1>1, <3>1, <3>3, EntrySet, Zenon
    <3> QED BY <2>2, <3>2, <3>3
  <2>4. UNCHANGED <<votes, shells>> \/ Command(n, c)
    BY <1>7 DEF ProcessWork, ProcessSysopRequest, SysopsWork, Disconnect
  <2>5. /\ c.cmd = "p" => c.value \in Growths
        /\ c.cmd = "app" => c.id \in {"auth", "no app"}
    BY DEF Commands
  <2>6. UNCHANGED votes \/ (c.cmd = "p" /\ votes' = [votes EXCEPT ![n] = c.value])
    BY <2>4 DEF Command, SetPolicy
  <2>7. \/ UNCHANGED shells \/ shells' = [shells EXCEPT ![n] = Root]
        \/ c.cmd = "app" /\ shells' = [shells EXCEPT ![n] = c.id]
    BY <2>4 DEF Command
  <2>8. votes' \in [Nodes -> Growths \cup {TempLoad}]
    BY <1>1, <2>5, <2>6
  <2>9. shells' \in [Nodes -> Shells]
    BY <1>1, <2>5, <2>7
  <2> QED BY <1>1, <2>1, <2>3, <2>8, <2>9
<1> HIDE DEF Good
<1> QED BY <1>3, <1>4, <1>5, <1>6, <1>7

\* A node makes its local delta and merges it.
LEMMA LocalStep ==
    ASSUME GrowthInv, NEW n \in Nodes, CreateLocalDelta(n)
    PROVE  GrowthInv'
<1> DEFINE full == AddPolicies(n)
           words == ToStream(n, full)
           new == MergeInto(delta[n], full.to_hall, full.growth)
<1>1. full = [to_hall |-> pool[n], growth |-> votes[n]] /\ full.to_hall = pool[n] /\ full.growth = votes[n]
  BY DEF AddPolicies
<1>2. /\ pool[n] \in Seq(Pairs) /\ votes[n] \in Growths \cup {TempLoad} /\ votes[n] \in Int
      /\ IsDelta(delta[n]) /\ Moderate(delta[n].growth, delta[n].mult)
  <2>1. pool \in [Nodes -> Seq(Pairs)] /\ votes \in [Nodes -> Growths \cup {TempLoad}]
    BY DEF GrowthInv, TypeOK, PoolsOK
  <2>2. Growths \cup {TempLoad} \subseteq Int
    BY GrowthsAssumption DEF TempLoad
  <2>3. IsDelta(delta[n]) /\ Moderate(delta[n].growth, delta[n].mult)
    BY DEF GrowthInv, DeltasOK
  <2>4. votes[n] \in Growths \cup {TempLoad}
    BY <2>1
  <2> QED BY <2>1, <2>2, <2>3, <2>4
<1>3. /\ height < MaxBlocks /\ made' = made \cup {n}
      /\ wire' = wire \cup [to : Nodes \ {n}, words : {words}]
      /\ delta' = [delta EXCEPT ![n] = new]
      /\ pool' = [pool EXCEPT ![n] = <<>>]
      /\ UNCHANGED <<shells, nodes, hall, policies, votes, jobs, stage, drawing, height>>
  BY DEF CreateLocalDelta
<1>4. IsLocalDelta(full)
  BY <1>1, <1>2 DEF IsLocalDelta
<1>5. FromStream(words).delta = full
  BY <1>4, StreamRead
<1>6. IsDelta(new) /\ new.mult > 0 /\ Moderate(new.growth, new.mult)
  BY <1>1, <1>2, Merged
<1> HIDE DEF full, words, new
<1>7. WireOK'
  <2> SUFFICES ASSUME NEW m \in wire'
               PROVE  /\ m.to \in Nodes /\ IsLocalDelta(FromStream(m.words).delta)
                      /\ FromStream(m.words).delta.growth \in Growths \cup {TempLoad}
    BY DEF WireOK
  <2>1. CASE m \in wire
    BY <2>1 DEF GrowthInv, WireOK
  <2>2. CASE m \in [to : Nodes \ {n}, words : {words}]
    <3>1. m.to \in Nodes /\ m.words = words
      BY <2>2
    <3> QED BY <1>1, <1>2, <1>4, <1>5, <3>1
  <2> QED BY <1>3, <2>1, <2>2
<1>8. DeltasOK'
  <2>1. delta = [k \in Nodes |-> delta[k]]
    BY DEF GrowthInv, DeltasOK
  <2>2. delta' = [k \in Nodes |-> delta'[k]] /\ delta'[n] = new /\ \A k \in Nodes \ {n} : delta'[k] = delta[k]
    BY <1>3, <2>1
  <2>3. \A k \in Nodes \ {n} : k \in made' => k \in made
    BY <1>3
  <2>4. ASSUME NEW k \in Nodes PROVE /\ IsDelta(delta'[k]) /\ Moderate(delta'[k].growth, delta'[k].mult)
                                     /\ k \in made' => delta'[k].mult > 0
    <3>1. CASE k = n
      BY <1>6, <2>2, <3>1
    <3>2. CASE k # n
      BY <2>2, <2>3, <3>2 DEF GrowthInv, DeltasOK
    <3> QED BY <3>1, <3>2
  <2> QED BY <2>2, <2>4 DEF DeltasOK
<1>9. PoolsOK' /\ \A k \in Nodes : Len(pool'[k]) <= MaxPool
  <2>1. pool \in [Nodes -> Seq(Pairs)] /\ \A k \in Nodes : Len(pool[k]) <= MaxPool
    BY DEF GrowthInv, PoolsOK, TypeOK
  <2>2. pool' \in [Nodes -> Seq(Pairs)]
    BY <1>3, <2>1
  <2>3. pool'[n] = <<>> /\ \A k \in Nodes \ {n} : pool'[k] = pool[k]
    BY <1>3, <2>1
  <2>4. Len(pool'[n]) <= MaxPool
    BY <2>3, MaxAssumption
  <2> QED BY <2>1, <2>2, <2>3, <2>4 DEF PoolsOK
<1>10. \A k \in Nodes : IsDirectory(delta'[k].to_hall)
  BY <1>8 DEF DeltasOK, IsDelta
<1>11. TypeOK'
  BY <1>3, <1>9, <1>10 DEF GrowthInv, TypeOK
<1>12. HeightOK' /\ DrawsOK'
  BY <1>3 DEF GrowthInv, HeightOK, DrawsOK
<1> QED BY <1>7, <1>8, <1>9, <1>11, <1>12 DEF GrowthInv

\* A node merges what another node sent.
LEMMA MergeStep ==
    ASSUME GrowthInv, NEW m \in wire, Merge(m)
    PROVE  GrowthInv'
<1> DEFINE g == FromStream(m.words)
           t == m.to
           new == MergeInto(delta[t], g.delta.to_hall, g.delta.growth)
<1>1. /\ t \in Nodes /\ g.delta.to_hall \in Seq(Pairs) /\ g.delta.growth \in Growths \cup {TempLoad}
      /\ IsDelta(delta[t]) /\ Moderate(delta[t].growth, delta[t].mult)
  BY DEF GrowthInv, WireOK, IsLocalDelta, DeltasOK
<1>2. /\ wire' = wire \ {m} /\ delta' = [delta EXCEPT ![t] = new]
      /\ UNCHANGED <<shells, nodes, hall, policies, votes, pool, jobs, stage, made, drawing, height>>
  BY DEF Merge
<1>3. IsDelta(new) /\ new.mult > 0 /\ Moderate(new.growth, new.mult)
  <2> HIDE DEF g
  <2> QED BY <1>1, Merged
<1> HIDE DEF g, t, new
<1>4. DeltasOK'
  <2>1. delta = [k \in Nodes |-> delta[k]]
    BY DEF GrowthInv, DeltasOK
  <2>2. delta' = [k \in Nodes |-> delta'[k]] /\ delta'[t] = new /\ \A k \in Nodes \ {t} : delta'[k] = delta[k]
    BY <1>1, <1>2, <2>1
  <2>3. ASSUME NEW k \in Nodes PROVE /\ IsDelta(delta'[k]) /\ Moderate(delta'[k].growth, delta'[k].mult)
                                     /\ k \in made' => delta'[k].mult > 0
    <3>1. CASE k = t
      BY <1>3, <2>2, <3>1
    <3>2. CASE k # t
      BY <1>2, <2>2, <3>2 DEF GrowthInv, DeltasOK
    <3> QED BY <3>1, <3>2
  <2> QED BY <2>2, <2>3 DEF DeltasOK
<1>5. \A k \in Nodes : IsDirectory(delta'[k].to_hall)
  BY <1>4 DEF DeltasOK, IsDelta
<1>6. TypeOK' /\ PoolsOK' /\ WireOK' /\ HeightOK' /\ DrawsOK'
  BY <1>2, <1>5 DEF GrowthInv, TypeOK, PoolsOK, WireOK, HeightOK, DrawsOK
<1> QED BY <1>4, <1>6 DEF GrowthInv


\* A block is imported: what was merged is read, and it says how many peers are
\* to be moved.
LEMMA BeginStep ==
    ASSUME GrowthInv, NEW n \in Nodes, BeginImport(n)
    PROVE  GrowthInv'
<1> DEFINE g == delta[n]
           nh == Cardinality(DOMAIN hall')
           nn == Cardinality(DOMAIN nodes)
           shrink == g.growth < 0
           pol == [growth |-> g.growth, mult |-> g.mult]
           s == Size(pol, nh, nn)
           left == IF shrink THEN nn ELSE nh
<1>1. IsDelta(g) /\ Moderate(g.growth, g.mult) /\ (n \in made => g.mult > 0)
  BY DEF GrowthInv, DeltasOK
<1>2. ReadDelta(WriteDelta(delta[n])) = g
  BY <1>1, DeltaRead
<1>3. /\ n \in made /\ hall' = Emplace(hall, g.to_hall) /\ policies' = pol
      /\ drawing' = [on |-> TRUE, s |-> s, left |-> left, uniq |-> {}, shrink |-> shrink]
      /\ delta' = [k \in Nodes |-> NoDelta] /\ made' = {} /\ height' = height + 1
      /\ UNCHANGED <<shells, nodes, votes, pool, jobs, stage, wire>>
  BY <1>2 DEF BeginImport
<1>4. /\ IsDirectory(nodes) /\ IsDirectory(hall) /\ IsDirectory(g.to_hall)
      /\ g.growth \in Int /\ g.mult \in Nat
  BY <1>1 DEF GrowthInv, TypeOK, IsDelta
<1> HIDE DEF g
<1>5. IsDirectory(hall')
  BY <1>3, <1>4, EmplaceIs
<1>6. nh \in Nat /\ nn \in Nat
  BY <1>4, <1>5, FiniteDirectory
<1>7. pol \in [growth : Int, mult : Nat \ {0}] /\ pol.growth = g.growth /\ pol.mult = g.mult
  BY <1>1, <1>3, <1>4
<1> HIDE DEF pol, nh, nn
<1>8. /\ s \in Nat
      /\ HalfAtMost /\ Moderate(pol.growth, pol.mult) => 2 * s <= (IF pol.growth < 0 THEN nn ELSE nh) + 1
  BY <1>6, <1>7, SizeIs
<1> HIDE DEF s
<1>9. shrink \in BOOLEAN /\ left \in Nat /\ (HalfAtMost => 2 * s <= left + 1)
  BY <1>1, <1>4, <1>6, <1>7, <1>8
<1> HIDE DEF shrink, left
<1>10. drawing' \in [on : BOOLEAN, s : Nat, left : Nat, uniq : SUBSET Nat, shrink : BOOLEAN]
  BY <1>3, <1>8, <1>9
<1>11. DrawsOK'
  <2>1. Cardinality({}) = 0 /\ IsFiniteSet({})
    BY FS_EmptySet
  <2>2. drawing'.s = s /\ drawing'.left = left /\ drawing'.uniq = {}
    BY <1>3
  <2>3. Cardinality({}) + 2 * s = 2 * s
    BY <1>8, <2>1
  <2> QED BY <1>9, <2>1, <2>2, <2>3 DEF DrawsOK
<1>12. IsDelta(NoDelta) /\ Moderate(NoDelta.growth, NoDelta.mult)
  BY DEF IsDelta, NoDelta, IsDirectory, None, Moderate
<1>13. DeltasOK' /\ \A k \in Nodes : IsDirectory(delta'[k].to_hall)
  <2> HIDE DEF NoDelta
  <2>1. delta' = [k \in Nodes |-> delta'[k]] /\ \A k \in Nodes : delta'[k] = NoDelta
    BY <1>3
  <2> QED BY <1>3, <1>12, <2>1 DEF DeltasOK, IsDelta
<1>14. height' \in 0..MaxBlocks /\ HeightOK'
  <2>1. height \in 0..MaxBlocks /\ height < MaxBlocks
    BY <1>3 DEF GrowthInv, TypeOK, HeightOK
  <2> QED BY <1>3, <2>1, MaxAssumption DEF HeightOK
<1>15. policies' \in [growth : Int, mult : Nat \ {0}]
  BY <1>3, <1>7
<1>16. TypeOK'
  BY <1>3, <1>4, <1>5, <1>10, <1>13, <1>14, <1>15 DEF GrowthInv, TypeOK
<1>17. PoolsOK' /\ WireOK'
  BY <1>3 DEF GrowthInv, PoolsOK, WireOK
<1> QED BY <1>11, <1>13, <1>14, <1>16, <1>17 DEF GrowthInv

\* A peer changes sides: one position and one number less.
LEMMA DrawStep ==
    ASSUME GrowthInv, NEW r \in Drawable, NEW p \in Pubkeys, Draw(r, p)
    PROVE  GrowthInv'
<1> DEFINE s == drawing.s
           left == drawing.left
           uniq == drawing.uniq
<1>1. /\ drawing \in [on : BOOLEAN, s : Nat, left : Nat, uniq : SUBSET Nat, shrink : BOOLEAN]
      /\ IsDirectory(nodes) /\ IsDirectory(hall) /\ IsFiniteSet(uniq)
      /\ HalfAtMost /\ drawing.on => Cardinality(uniq) + 2 * s <= left + 1
  BY DEF GrowthInv, TypeOK, DrawsOK
<1>2. /\ drawing.on /\ s > 0
      /\ drawing' = [drawing EXCEPT !.s = @ - 1, !.uniq = @ \cup {r}, !.left = @ - 1]
      /\ UNCHANGED <<shells, policies, votes, pool, jobs, stage, delta, wire, made, height>>
  BY DEF Draw, Importing
<1>3. /\ s \in Nat /\ left \in Nat /\ uniq \in SUBSET Nat /\ r \in 0..(left - 1) /\ r \notin uniq
  BY <1>1 DEF Drawable
<1>4. /\ drawing'.on = drawing.on /\ drawing'.s = s - 1 /\ drawing'.left = left - 1
      /\ drawing'.uniq = uniq \cup {r} /\ drawing'.shrink = drawing.shrink
      /\ drawing' \in [on : BOOLEAN, s : Nat, left : Nat, uniq : SUBSET Nat, shrink : BOOLEAN]
  <2>1. s - 1 \in Nat /\ left - 1 \in Nat /\ uniq \cup {r} \in SUBSET Nat
    BY <1>2, <1>3
  <2> QED BY <1>1, <1>2, <2>1
<1> HIDE DEF s, left, uniq
<1>5. IsFiniteSet(uniq \cup {r}) /\ Cardinality(uniq \cup {r}) = Cardinality(uniq) + 1
  BY <1>1, <1>3, FS_AddElement
<1>6. DrawsOK'
  <2>1. Cardinality(uniq) \in Nat
    BY <1>1, FS_CardinalityType
  <2>2. Cardinality(uniq) + 2 * s <= left + 1 => Cardinality(uniq) + 1 + 2 * (s - 1) <= (left - 1) + 1
    BY <1>3, <2>1
  <2> QED BY <1>1, <1>4, <1>5, <2>2 DEF DrawsOK
<1>7. IsDirectory(nodes') /\ IsDirectory(hall')
  <2>1. CASE /\ p \in DOMAIN nodes /\ nodes' = Without(nodes, p)
             /\ hall' = Emplace(hall, Entry(p, nodes[p]))
    <3>1. nodes[p] \in Addrs
      BY <1>1, <2>1 DEF IsDirectory
    <3> QED BY <1>1, <2>1, <3>1, WithoutIs, EmplaceIs, EntryIs
  <2>2. CASE /\ p \in DOMAIN hall /\ hall' = Without(hall, p)
             /\ nodes' = Emplace(nodes, Entry(p, hall[p]))
    <3>1. hall[p] \in Addrs
      BY <1>1, <2>2 DEF IsDirectory
    <3> QED BY <1>1, <2>2, <3>1, WithoutIs, EmplaceIs, EntryIs
  <2> QED BY <2>1, <2>2 DEF Draw
<1>8. TypeOK'
  BY <1>2, <1>4, <1>7 DEF GrowthInv, TypeOK
<1>9. PoolsOK' /\ WireOK' /\ DeltasOK' /\ HeightOK'
  BY <1>2 DEF GrowthInv, PoolsOK, WireOK, DeltasOK, HeightOK
<1> QED BY <1>6, <1>8, <1>9 DEF GrowthInv

\* The import ends.
LEMMA EndStep ==
    ASSUME GrowthInv, EndImport
    PROVE  GrowthInv'
<1>1. /\ drawing' = NotDrawing
      /\ UNCHANGED <<shells, nodes, hall, policies, votes, pool, jobs, delta, wire, made, height>>
  BY DEF EndImport
<1>2. stage' \in [Nodes -> [Pubkeys -> {"sysop", "node", "hall", "out"}]]
  BY DEF EndImport, GetStage
<1>3. drawing' \in [on : BOOLEAN, s : Nat, left : Nat, uniq : SUBSET Nat, shrink : BOOLEAN]
  BY <1>1 DEF NotDrawing
<1>4. DrawsOK'
  BY <1>1, FS_EmptySet DEF NotDrawing, DrawsOK
<1>5. TypeOK'
  BY <1>1, <1>2, <1>3 DEF GrowthInv, TypeOK
<1>6. PoolsOK' /\ WireOK' /\ DeltasOK' /\ HeightOK'
  BY <1>1 DEF GrowthInv, PoolsOK, WireOK, DeltasOK, HeightOK
<1> QED BY <1>4, <1>5, <1>6 DEF GrowthInv

\* Before the first cycle.
LEMMA InitGrowth == Init => GrowthInv
<1> SUFFICES ASSUME Init PROVE GrowthInv
  OBVIOUS
<1>1. 0 \in Addrs
  BY DEF Addrs
<1>2. IsDirectory(nodes) /\ IsDirectory(hall)
  BY <1>1 DEF Init, Database, IsDirectory, Pubkeys
<1>3. IsDelta(NoDelta) /\ Moderate(NoDelta.growth, NoDelta.mult)
  BY DEF IsDelta, NoDelta, IsDirectory, None, Moderate
<1>4. delta = [n \in Nodes |-> NoDelta] /\ made = {} /\ wire = {} /\ drawing = NotDrawing /\ height = 0
  BY DEF Init
<1>5. DeltasOK /\ \A n \in Nodes : IsDirectory(delta[n].to_hall)
  <2> HIDE DEF NoDelta
  <2> QED BY <1>3, <1>4 DEF DeltasOK, IsDelta
<1>6. WireOK /\ HeightOK
  BY <1>4 DEF WireOK, HeightOK
<1>7. DrawsOK /\ drawing \in [on : BOOLEAN, s : Nat, left : Nat, uniq : SUBSET Nat, shrink : BOOLEAN]
  BY <1>4, FS_EmptySet DEF DrawsOK, NotDrawing
<1>8. PoolsOK /\ \A n \in Nodes : Len(pool[n]) <= MaxPool
  BY MaxAssumption DEF Init, PoolsOK
<1>9. policies \in [growth : Int, mult : Nat \ {0}] /\ votes \in [Nodes -> Growths \cup {TempLoad}]
  BY DEF Init, TempLoad
<1>10. /\ jobs \in [Nodes -> {NoJob} \cup [at : {"hall", "waits", "unknown"}, p : Pubkeys, addr : Addrs]]
       /\ stage \in [Nodes -> [Pubkeys -> {"sysop", "node", "hall", "out"}]]
       /\ shells \in [Nodes -> {Root, "auth", "no app"}]
       /\ made \subseteq Nodes /\ height \in 0..MaxBlocks
  BY MaxAssumption DEF Init
<1>11. TypeOK
  BY <1>2, <1>5, <1>7, <1>8, <1>9, <1>10 DEF TypeOK
<1> QED BY <1>5, <1>6, <1>7, <1>8, <1>11 DEF GrowthInv

\* Every step keeps the invariant of growth.
LEMMA GrowthStep == GrowthInv /\ [Next]_vars => GrowthInv'
<1> SUFFICES ASSUME GrowthInv, [Next]_vars PROVE GrowthInv'
  OBVIOUS
<1>1. CASE UNCHANGED vars
  BY <1>1 DEF vars, GrowthInv, TypeOK, PoolsOK, WireOK, DeltasOK, HeightOK, DrawsOK
<1>2. CASE EndImport
  BY <1>2, EndStep
<1>3. ASSUME NEW r \in Drawable, NEW p \in Pubkeys, Draw(r, p) PROVE GrowthInv'
  BY <1>3, DrawStep
<1>4. ASSUME NEW m \in wire, Merge(m) PROVE GrowthInv'
  BY <1>4, MergeStep
<1>5. ASSUME NEW n \in Nodes, CreateLocalDelta(n) PROVE GrowthInv'
  BY <1>5, LocalStep
<1>6. ASSUME NEW n \in Nodes, BeginImport(n) PROVE GrowthInv'
  BY <1>6, BeginStep
<1>7. ASSUME NEW n \in Nodes,
             \/ \E p \in Pubkeys : \E addr \in AddrsOf[n][p] : LookupNode(n, p, addr)
             \/ LookupHall(n)
             \/ UseLookup(n)
             \/ \E p \in Pubkeys, c \in Commands : ProcessWork(n, p, c)
      PROVE  GrowthInv'
  BY <1>7, PeersStep
<1>8. CASE Next
  <2>1. \/ EndImport
        \/ \E r \in Drawable, p \in Pubkeys : Draw(r, p)
        \/ \E m \in wire : Merge(m)
        \/ \E n \in Nodes :
             \/ CreateLocalDelta(n) \/ BeginImport(n)
             \/ \E p \in Pubkeys : \E addr \in AddrsOf[n][p] : LookupNode(n, p, addr)
             \/ LookupHall(n) \/ UseLookup(n)
             \/ \E p \in Pubkeys, c \in Commands : ProcessWork(n, p, c)
    BY <1>8, Zenon DEF Next
  <2> QED BY <1>2, <1>3, <1>4, <1>5, <1>6, <1>7, <2>1, Zenon
<1> QED BY <1>1, <1>8

\* With votes of at most half (and a minimum growth of at most one peer), the
\* loop that draws positions always finds one, however many nodes voted, and
\* the variables have their types (add_growth_transactions).
THEOREM LoopEnds ==
    ASSUME HalfAtMost
    PROVE  Spec => []GrowthEnds
<1>1. GrowthInv => GrowthEnds
  <2> SUFFICES ASSUME GrowthInv, Importing, drawing.s > 0 PROVE Drawable # {}
    BY DEF GrowthInv, GrowthEnds
  <2> DEFINE left == drawing.left
             uniq == drawing.uniq
             s == drawing.s
  <2>1. /\ left \in Nat /\ s \in Nat /\ IsFiniteSet(uniq) /\ s > 0
        /\ Cardinality(uniq) + 2 * s <= left + 1
    BY DEF GrowthInv, TypeOK, DrawsOK, Importing
  <2>2. Drawable = {r \in 0..(left - 1) : r \notin uniq}
    BY DEF Drawable
  <2> HIDE DEF left, uniq, s
  <2>3. Cardinality(uniq) \in Nat
    BY <2>1, FS_CardinalityType
  <2>4. Cardinality(uniq) < left
    BY <2>1, <2>3
  <2> QED BY <2>1, <2>2, <2>4, Room
<1> QED BY <1>1, InitGrowth, GrowthStep, PTL DEF Spec

\* The variables have their types whatever the votes.
THEOREM Typed == Spec => []TypeOK
<1>1. GrowthInv => TypeOK
  BY DEF GrowthInv
<1> QED BY <1>1, InitGrowth, GrowthStep, PTL DEF Spec


-----------------------------------------------------------------------------
(***************************************************************************)
(* The same deltas make the same block.  Let c be what every node said in  *)
(* this cycle, and F the sum of the votes of every set of nodes.  They need *)
(* no definition: when a node makes its delta they are extended by what it *)
(* says, and the invariant is that some c and F explain what was merged.   *)
(***************************************************************************)

\* The delta of k under way to n.
Msg(c, n, k) == [to |-> n, words |-> ToStream(k, c[k])]

\* The nodes whose delta n has merged.
Has(c, n) == {k \in made : k = n \/ Msg(c, n, k) \notin wire}

\* F adds up what the nodes in made said.
Adds(c, F) ==
    /\ F \in [SUBSET Nodes -> Int] /\ F[{}] = 0
    /\ \A S \in SUBSET made : \A k \in made \ S : F[S \cup {k}] = F[S] + c[k].growth

\* d is what the nodes in S said, merged in some order.
MergeOf(d, c, F, S) ==
    /\ d.growth = F[S] /\ d.mult = Cardinality(S)
    /\ \A p \in DOMAIN d.to_hall : \E k \in S : <<p, d.to_hall[p]>> \in ToSet(c[k].to_hall)
    /\ \A k \in S : \A x \in ToSet(c[k].to_hall) : x[1] \in DOMAIN d.to_hall

\* c and F explain the deltas.
Explains(c, F) ==
    /\ \A k \in Nodes : IsLocalDelta(c[k])
    /\ c = [k \in Nodes |-> c[k]]
    /\ Adds(c, F)
    /\ \A k \in made : ToSet(c[k].to_hall) \subseteq proposed
    /\ \A m \in wire : \E k \in made : m.to \in Nodes \ {k} /\ m = Msg(c, m.to, k)
    /\ \A n \in Nodes : MergeOf(delta[n], c, F, Has(c, n))

Explained == \E c, F : Explains(c, F)

SameInv == GrowthInv /\ Explained

\* Messages of different nodes are different: the pubkey is in them.
LEMMA MsgInjective ==
    ASSUME NEW c, NEW e, NEW n, NEW m, NEW j, NEW k, IsLocalDelta(c[j]), IsLocalDelta(e[k]),
           Msg(c, n, j) = Msg(e, m, k)
    PROVE  n = m /\ j = k
<1>1. ToStream(j, c[j]) = ToStream(k, e[k]) /\ n = m
  <2> DEFINE u == ToStream(j, c[j])
             v == ToStream(k, e[k])
  <2>1. [to |-> n, words |-> u] = [to |-> m, words |-> v]
    BY DEF Msg
  <2> HIDE DEF u, v
  <2>2. u = v /\ n = m
    BY <2>1
  <2> QED BY <2>2 DEF u, v
<1>2. FromStream(ToStream(j, c[j])).pubkey = j /\ FromStream(ToStream(k, e[k])).pubkey = k
  BY StreamRead
<1> QED BY <1>1, <1>2

\* delta::merge of one more delta.
LEMMA MergeOne ==
    ASSUME NEW c, NEW F, NEW d, NEW S, NEW k, NEW T,
           IsDelta(d), IsFiniteSet(S), k \notin S, T = S \cup {k}, IsLocalDelta(c[k]),
           F[T] = F[S] + c[k].growth, MergeOf(d, c, F, S)
    PROVE  MergeOf(MergeInto(d, c[k].to_hall, c[k].growth), c, F, T)
<1> DEFINE list == c[k].to_hall
           g == c[k].growth
           a == AsMap(list)
           h == Emplace(d.to_hall, a)
           e == MergeInto(d, list, g)
<1>1. list \in Seq(Pairs) /\ g \in Int
  BY DEF IsLocalDelta
<1>2. e = [to_hall |-> h, growth |-> d.growth + g, mult |-> d.mult + 1]
  BY DEF MergeInto
<1>3. e.to_hall = h /\ e.growth = d.growth + g /\ e.mult = d.mult + 1
  BY <1>2
<1>4. e.growth = F[T]
  BY <1>3 DEF MergeOf
<1>5. e.mult = Cardinality(T)
  BY <1>3, FS_AddElement DEF MergeOf
<1>6. /\ DOMAIN a = {list[i][1] : i \in DOMAIN list}
      /\ \A p \in DOMAIN a : \E i \in DOMAIN list : list[i] = <<p, a[p]>>
  BY <1>1, MapOfPairs
<1>7. /\ DOMAIN h = DOMAIN d.to_hall \cup DOMAIN a
      /\ \A p \in DOMAIN h : h[p] = IF p \in DOMAIN d.to_hall THEN d.to_hall[p] ELSE a[p]
  BY DEF Emplace
<1> HIDE DEF list, g, a, h, e
<1>8. ASSUME NEW p \in DOMAIN h PROVE \E j \in T : <<p, h[p]>> \in ToSet(c[j].to_hall)
  <2>1. CASE p \in DOMAIN d.to_hall
    <3>1. PICK j \in S : <<p, d.to_hall[p]>> \in ToSet(c[j].to_hall)
      BY <2>1 DEF MergeOf
    <3>2. h[p] = d.to_hall[p] /\ j \in T
      BY <1>7, <2>1
    <3> QED BY <3>1, <3>2
  <2>2. CASE p \notin DOMAIN d.to_hall
    <3>1. p \in DOMAIN a /\ h[p] = a[p]
      BY <1>7, <2>2
    <3>2. <<p, a[p]>> \in ToSet(list)
      BY <1>6, <3>1 DEF ToSet
    <3>3. k \in T
      OBVIOUS
    <3> QED BY <3>1, <3>2, <3>3 DEF list
  <2> QED BY <2>1, <2>2
<1>9. ASSUME NEW j \in T, NEW x \in ToSet(c[j].to_hall) PROVE x[1] \in DOMAIN h
  <2>1. CASE j \in S
    BY <1>7, <2>1 DEF MergeOf
  <2>2. CASE j = k
    <3>1. x \in ToSet(list)
      BY <2>2 DEF list
    <3>2. PICK i \in DOMAIN list : x = list[i]
      BY <3>1 DEF ToSet
    <3>3. x[1] \in DOMAIN a
      BY <1>6, <3>2
    <3> QED BY <1>7, <3>3
  <2> QED BY <2>1, <2>2
<1>10. MergeOf(e, c, F, T)
  BY <1>3, <1>4, <1>5, <1>8, <1>9 DEF MergeOf
<1> QED BY <1>10 DEF e, list, g

\* A delta explained stays so when c and F change only for others.
LEMMA SameMerge ==
    ASSUME NEW c, NEW F, NEW e, NEW G, NEW d, NEW S, F[S] = G[S],
           \A k \in S : c[k] = e[k], MergeOf(d, c, F, S)
    PROVE  MergeOf(d, e, G, S)
BY DEF MergeOf

\* The sums with one node more.
LEMMA OneMore ==
    ASSUME NEW M, NEW F \in [SUBSET Nodes -> Int], NEW n \in Nodes \ M, M \subseteq Nodes, NEW v \in [Nodes -> Int],
           \A S \in SUBSET M : \A k \in M \ S : F[S \cup {k}] = F[S] + v[k],
           NEW G, G = [S \in SUBSET Nodes |-> IF n \in S THEN F[S \ {n}] + v[n] ELSE F[S]]
    PROVE  /\ G \in [SUBSET Nodes -> Int]
           /\ \A S \in SUBSET (M \cup {n}) : \A k \in (M \cup {n}) \ S : G[S \cup {k}] = G[S] + v[k]
<1>1. G \in [SUBSET Nodes -> Int]
  <2>1. ASSUME NEW S \in SUBSET Nodes PROVE (IF n \in S THEN F[S \ {n}] + v[n] ELSE F[S]) \in Int
    <3>1. S \ {n} \in SUBSET Nodes
      OBVIOUS
    <3>2. F[S \ {n}] \in Int /\ F[S] \in Int /\ v[n] \in Int
      BY <3>1
    <3> QED BY <3>2
  <2> QED BY <2>1
<1>2. ASSUME NEW S \in SUBSET (M \cup {n}), NEW k \in (M \cup {n}) \ S
      PROVE  G[S \cup {k}] = G[S] + v[k]
  <2>1. S \in SUBSET Nodes /\ S \cup {k} \in SUBSET Nodes /\ k \in Nodes
    OBVIOUS
  <2>2. /\ G[S] = IF n \in S THEN F[S \ {n}] + v[n] ELSE F[S]
        /\ G[S \cup {k}] = IF n \in S \cup {k} THEN F[(S \cup {k}) \ {n}] + v[n] ELSE F[S \cup {k}]
    BY <2>1
  <2>3. CASE k = n
    <3>1. n \notin S /\ n \in S \cup {k} /\ (S \cup {k}) \ {n} = S
      BY <2>3
    <3>2. G[S] = F[S] /\ G[S \cup {k}] = F[S] + v[n]
      BY <2>2, <3>1
    <3> QED BY <2>3, <3>2
  <2>4. CASE k # n /\ n \in S
    <3> DEFINE R == S \ {n}
    <3>1. R \in SUBSET M /\ k \in M \ R /\ (S \cup {k}) \ {n} = R \cup {k} /\ n \in S \cup {k} /\ R \in SUBSET Nodes
      BY <2>4
    <3>2. G[S] = F[R] + v[n] /\ G[S \cup {k}] = F[R \cup {k}] + v[n]
      BY <2>2, <2>4, <3>1
    <3> HIDE DEF R
    <3>3. F[R \cup {k}] = F[R] + v[k]
      BY <3>1
    <3>4. F[R] \in Int /\ v[k] \in Int /\ v[n] \in Int
      BY <2>1, <3>1
    <3> QED BY <3>2, <3>3, <3>4
  <2>5. CASE k # n /\ n \notin S
    <3>1. n \notin S \cup {k} /\ S \in SUBSET M /\ k \in M \ S
      BY <2>5
    <3>2. G[S] = F[S] /\ G[S \cup {k}] = F[S \cup {k}]
      BY <2>2, <3>1
    <3> QED BY <3>1, <3>2
  <2> QED BY <2>3, <2>4, <2>5
<1> QED BY <1>1, <1>2


\* A node makes its local delta: what was said and the sums are extended by it.
LEMMA SaidStep ==
    ASSUME GrowthInv, NEW c, NEW F, Explains(c, F), NEW n \in Nodes, CreateLocalDelta(n)
    PROVE  \E e, G : Explains(e, G)'
<1>0. PICK full : full = AddPolicies(n)
  OBVIOUS
<1> DEFINE e == [c EXCEPT ![n] = full]
           v == [k \in Nodes |-> e[k].growth]
           G == [S \in SUBSET Nodes |-> IF n \in S THEN F[S \ {n}] + v[n] ELSE F[S]]
<1>1. /\ n \notin made /\ made' = made \cup {n}
      /\ wire' = wire \cup [to : Nodes \ {n}, words : {ToStream(n, full)}]
      /\ delta' = [delta EXCEPT ![n] = MergeInto(@, full.to_hall, full.growth)]
      /\ proposed' = proposed \cup ToSet(pool[n])
  BY <1>0 DEF CreateLocalDelta
<1>2. IsLocalDelta(full) /\ full.to_hall = pool[n]
  <2>1. full = [to_hall |-> pool[n], growth |-> votes[n]] /\ full.to_hall = pool[n] /\ full.growth = votes[n]
    BY <1>0 DEF AddPolicies
  <2>2. pool \in [Nodes -> Seq(Pairs)] /\ votes \in [Nodes -> Growths \cup {TempLoad}]
    BY DEF GrowthInv, TypeOK, PoolsOK
  <2>3. Growths \cup {TempLoad} \subseteq Int
    BY GrowthsAssumption DEF TempLoad
  <2>4. pool[n] \in Seq(Pairs) /\ votes[n] \in Int
    BY <2>2, <2>3
  <2> QED BY <2>1, <2>4 DEF IsLocalDelta
<1>3. /\ made \subseteq Nodes /\ IsFiniteSet(made)
      /\ delta = [k \in Nodes |-> delta[k]] /\ \A k \in Nodes : IsDelta(delta[k])
  <2>1. made \subseteq Nodes /\ delta = [k \in Nodes |-> delta[k]] /\ \A k \in Nodes : IsDelta(delta[k])
    BY DEF GrowthInv, TypeOK, DeltasOK
  <2>2. made \subseteq Pubkeys
    BY <2>1 DEF Pubkeys
  <2> QED BY <2>1, <2>2, NodesAssumption, FS_Subset DEF Pubkeys
<1>4. /\ c = [k \in Nodes |-> c[k]] /\ \A k \in Nodes : IsLocalDelta(c[k])
      /\ F \in [SUBSET Nodes -> Int] /\ F[{}] = 0
      /\ \A S \in SUBSET made : \A k \in made \ S : F[S \cup {k}] = F[S] + c[k].growth
  BY DEF Explains, Adds
<1>5. e[n] = full /\ (\A k \in Nodes \ {n} : e[k] = c[k]) /\ e = [k \in Nodes |-> e[k]]
  BY <1>4
<1> HIDE DEF e
<1>6. \A k \in Nodes : IsLocalDelta(e[k])
  BY <1>2, <1>4, <1>5
<1>7. v \in [Nodes -> Int] /\ \A k \in Nodes : v[k] = e[k].growth
  BY <1>6 DEF IsLocalDelta
<1> HIDE DEF v
<1>8. Adds(e, G)'
  <2>1. \A S \in SUBSET made : \A k \in made \ S : F[S \cup {k}] = F[S] + v[k]
    <3> SUFFICES ASSUME NEW S \in SUBSET made, NEW k \in made \ S PROVE F[S \cup {k}] = F[S] + v[k]
      OBVIOUS
    <3>1. k \in Nodes \ {n}
      BY <1>1, <1>3
    <3>2. v[k] = c[k].growth
      BY <1>5, <1>7, <3>1
    <3> QED BY <1>4, <3>2
  <2>2. n \in Nodes \ made
    BY <1>1
  <2> HIDE DEF G
  <2>3. G = [S \in SUBSET Nodes |-> IF n \in S THEN F[S \ {n}] + v[n] ELSE F[S]]
    BY DEF G
  <2>4. /\ G \in [SUBSET Nodes -> Int]
        /\ \A S \in SUBSET (made \cup {n}) : \A k \in (made \cup {n}) \ S : G[S \cup {k}] = G[S] + v[k]
    <3>1. /\ F \in [SUBSET Nodes -> Int] /\ v \in [Nodes -> Int] /\ made \subseteq Nodes
      BY <1>3, <1>4, <1>7
    <3> QED BY ONLY <2>1, <2>2, <2>3, <3>1, OneMore, SMTT(60)
  <2>5. \A S \in SUBSET made' : \A k \in made' \ S : G[S \cup {k}] = G[S] + e[k].growth
    <3> SUFFICES ASSUME NEW S \in SUBSET made', NEW k \in made' \ S PROVE G[S \cup {k}] = G[S] + e[k].growth
      OBVIOUS
    <3>1. S \in SUBSET (made \cup {n}) /\ k \in (made \cup {n}) \ S /\ k \in Nodes
      BY <1>1, <1>3
    <3>2. G[S \cup {k}] = G[S] + v[k] /\ v[k] = e[k].growth
      BY <1>7, <2>4, <3>1
    <3> QED BY <3>2
  <2>6. G[{}] = 0
    <3>1. {} \in SUBSET Nodes /\ n \notin {}
      OBVIOUS
    <3> QED BY <1>4, <2>3, <3>1
  <2> QED BY <2>4, <2>5, <2>6 DEF Adds
<1>9. \A S \in SUBSET made : G[S] = F[S]
  BY <1>1, <1>3
<1>10. \A j \in Nodes, k \in made : Msg(e, j, k) = Msg(c, j, k)
  BY <1>1, <1>3, <1>5 DEF Msg
<1>11. \A m \in wire' \ wire : m.to \in Nodes \ {n} /\ m = Msg(e, m.to, n)
  <2> DEFINE w == ToStream(n, full)
  <2> SUFFICES ASSUME NEW m \in wire', m \notin wire PROVE m.to \in Nodes \ {n} /\ m = Msg(e, m.to, n)
    OBVIOUS
  <2> HIDE DEF w
  <2>1. m \in [to : Nodes \ {n}, words : {w}]
    BY <1>1 DEF w
  <2>2. m.to \in Nodes \ {n} /\ m = [to |-> m.to, words |-> w]
    BY <2>1
  <2> QED BY <1>5, <2>2 DEF Msg, w
<1>12. \A j \in Nodes \ {n} : Msg(e, j, n) \in wire'
  <2> DEFINE w == ToStream(n, full)
  <2> SUFFICES ASSUME NEW j \in Nodes \ {n} PROVE Msg(e, j, n) \in wire'
    OBVIOUS
  <2>1. Msg(e, j, n) = [to |-> j, words |-> w]
    BY <1>5 DEF Msg
  <2> HIDE DEF w
  <2>2. [to |-> j, words |-> w] \in [to : Nodes \ {n}, words : {w}]
    OBVIOUS
  <2> QED BY <1>1, <2>1, <2>2 DEF w
<1>13. ASSUME NEW j \in Nodes PROVE {k \in made : k = j \/ Msg(e, j, k) \notin wire'} = Has(c, j)
  <2>1. ASSUME NEW k \in made PROVE Msg(e, j, k) \in wire' <=> Msg(c, j, k) \in wire
    <3>1. k \in Nodes /\ k # n /\ Msg(e, j, k) = Msg(c, j, k)
      BY <1>1, <1>3, <1>10
    <3>2. ASSUME Msg(e, j, k) \in wire', Msg(e, j, k) \notin wire PROVE FALSE
      <4>1. Msg(e, j, k) = Msg(e, Msg(e, j, k).to, n)
        BY <1>11, <3>2
      <4>2. IsLocalDelta(e[k]) /\ IsLocalDelta(e[n])
        BY <1>6, <3>1
      <4>3. k = n
        BY <4>1, <4>2, MsgInjective
      <4> QED BY <3>1, <4>3
    <3> QED BY <1>1, <3>1, <3>2
  <2> QED BY <2>1 DEF Has
<1>14. ASSUME NEW j \in Nodes PROVE MergeOf(delta[j], e, G, Has(c, j)) /\ Has(c, j) \in SUBSET made
  <2>1. MergeOf(delta[j], c, F, Has(c, j)) /\ Has(c, j) \in SUBSET made
    BY DEF Explains, Has
  <2>2. G[Has(c, j)] = F[Has(c, j)] /\ \A k \in Has(c, j) : c[k] = e[k]
    <3>1. \A k \in made : c[k] = e[k]
      BY <1>1, <1>3, <1>5
    <3> QED BY <1>9, <2>1, <3>1
  <2> HIDE DEF G
  <2> QED BY <2>1, <2>2, SameMerge
<1>15. ASSUME NEW j \in Nodes PROVE MergeOf(delta[j], e, G, Has(e, j))'
  <2>1. Has(e, j)' = {k \in made' : k = j \/ Msg(e, j, k) \notin wire'}
    BY DEF Has, Msg
  <2>2. CASE j # n
    <3>1. Has(e, j)' = Has(c, j)
      BY <1>1, <1>12, <1>13, <2>1, <2>2
    <3>2. delta'[j] = delta[j]
      BY <1>1, <1>3, <2>2
    <3> HIDE DEF G
    <3> QED BY <1>14, <3>1, <3>2 DEF MergeOf
  <2>3. CASE j = n
    <3> DEFINE S == Has(c, n)
               T == S \cup {n}
    <3>1. Has(e, j)' = T
      BY <1>1, <1>13, <2>1, <2>3
    <3>2. delta'[j] = MergeInto(delta[n], e[n].to_hall, e[n].growth)
      BY <1>1, <1>3, <1>5, <2>3
    <3>3. MergeOf(delta[n], e, G, S) /\ S \in SUBSET made
      BY <1>14
    <3> HIDE DEF S
    <3>4. IsFiniteSet(S) /\ n \notin S
      BY <1>1, <1>3, <3>3, FS_Subset
    <3>5. G[T] = G[S] + e[n].growth
      <4>1. S \in SUBSET made' /\ n \in made' \ S
        BY <1>1, <3>3, <3>4
      <4> HIDE DEF G
      <4> QED BY <1>8, <4>1 DEF Adds
    <3>6. IsDelta(delta[n]) /\ IsLocalDelta(e[n])
      BY <1>3, <1>6
    <3> HIDE DEF G, T
    <3>7. MergeOf(MergeInto(delta[n], e[n].to_hall, e[n].growth), e, G, T)
      <4>1. T = S \cup {n}
        BY DEF T
      <4> QED BY <3>3, <3>4, <3>5, <3>6, <4>1, MergeOne
    <3> QED BY <3>1, <3>2, <3>7 DEF MergeOf
  <2> QED BY <2>2, <2>3
<1>16. \A k \in made' : ToSet(e[k].to_hall) \subseteq proposed'
  <2> SUFFICES ASSUME NEW k \in made' PROVE ToSet(e[k].to_hall) \subseteq proposed'
    OBVIOUS
  <2>1. CASE k = n
    <3>1. e[k].to_hall = pool[n]
      BY <1>2, <1>5, <2>1
    <3> QED BY <1>1, <3>1
  <2>2. CASE k # n
    <3>1. k \in made /\ e[k] = c[k]
      BY <1>1, <1>3, <1>5, <2>2
    <3>2. ToSet(c[k].to_hall) \subseteq proposed
      BY <3>1 DEF Explains
    <3> QED BY <1>1, <3>1, <3>2
  <2> QED BY <2>1, <2>2
<1>17. \A m \in wire' : \E k \in made' : m.to \in Nodes \ {k} /\ m = Msg(e, m.to, k)
  <2> SUFFICES ASSUME NEW m \in wire' PROVE \E k \in made' : m.to \in Nodes \ {k} /\ m = Msg(e, m.to, k)
    OBVIOUS
  <2>1. CASE m \in wire
    <3>1. PICK k \in made : m.to \in Nodes \ {k} /\ m = Msg(c, m.to, k)
      BY <2>1 DEF Explains
    <3>2. Msg(e, m.to, k) = Msg(c, m.to, k) /\ k \in made'
      BY <1>1, <1>10, <3>1
    <3> QED BY <3>1, <3>2
  <2>2. CASE m \notin wire
    BY <1>1, <1>11, <2>2
  <2> QED BY <2>1, <2>2
<1> HIDE DEF G
<1>18. Explains(e, G)'
  <2>1. \A m \in wire' : \E k \in made' : m.to \in Nodes \ {k} /\ m = Msg(e, m.to, k)'
    BY <1>17 DEF Msg
  <2> QED BY <1>5, <1>6, <1>8, <1>15, <1>16, <2>1 DEF Explains
<1> QED BY <1>18

\* A node merges the delta of k: one node more in what it has.
LEMMA HeardStep ==
    ASSUME GrowthInv, NEW c, NEW F, Explains(c, F), NEW m \in wire, Merge(m)
    PROVE  Explains(c, F)'
<1>1. PICK k \in made : m.to \in Nodes \ {k} /\ m = Msg(c, m.to, k)
  BY DEF Explains
<1>2. PICK t : t = m.to
  OBVIOUS
<1>3. /\ made \subseteq Nodes /\ IsFiniteSet(made)
      /\ delta = [j \in Nodes |-> delta[j]] /\ \A j \in Nodes : IsDelta(delta[j])
  <2>1. made \subseteq Nodes /\ delta = [j \in Nodes |-> delta[j]] /\ \A j \in Nodes : IsDelta(delta[j])
    BY DEF GrowthInv, TypeOK, DeltasOK
  <2>2. made \subseteq Pubkeys
    BY <2>1 DEF Pubkeys
  <2> QED BY <2>1, <2>2, NodesAssumption, FS_Subset DEF Pubkeys
<1>4. \A j \in Nodes : IsLocalDelta(c[j])
  BY DEF Explains
<1>5. FromStream(m.words).delta = c[k]
  <2>1. m.words = ToStream(k, c[k]) /\ IsLocalDelta(c[k])
    BY <1>1, <1>3, <1>4 DEF Msg
  <2> QED BY <2>1, StreamRead
<1>6. /\ wire' = wire \ {m} /\ delta' = [delta EXCEPT ![t] = MergeInto(@, c[k].to_hall, c[k].growth)]
      /\ UNCHANGED <<made, proposed>>
  BY <1>2, <1>5 DEF Merge
<1>7. t \in Nodes /\ t # k /\ m = Msg(c, t, k)
  BY <1>1, <1>2
<1>8. ASSUME NEW j \in Nodes, NEW i \in made, j # t \/ i # k
      PROVE  Msg(c, j, i) \in wire' <=> Msg(c, j, i) \in wire
  <2>1. Msg(c, j, i) # m
    <3> SUFFICES ASSUME Msg(c, j, i) = Msg(c, t, k) PROVE FALSE
      BY <1>7
    <3>1. IsLocalDelta(c[i]) /\ IsLocalDelta(c[k])
      BY <1>1, <1>3, <1>4
    <3>2. j = t /\ i = k
      BY <3>1, MsgInjective
    <3> QED BY <1>8, <3>2
  <2> QED BY <1>6, <2>1
<1>9. ASSUME NEW j \in Nodes PROVE MergeOf(delta[j], c, F, Has(c, j))'
  <2>1. Has(c, j)' = {i \in made : i = j \/ Msg(c, j, i) \notin wire'}
    BY <1>6 DEF Has, Msg
  <2>2. MergeOf(delta[j], c, F, Has(c, j)) /\ Has(c, j) \subseteq made
    BY DEF Explains, Has
  <2>3. CASE j # t
    <3>1. Has(c, j)' = Has(c, j)
      BY <1>8, <2>1, <2>3 DEF Has
    <3>2. delta'[j] = delta[j]
      BY <1>3, <1>6, <2>3
    <3> QED BY <2>2, <3>1, <3>2 DEF MergeOf
  <2>4. CASE j = t
    <3> DEFINE S == Has(c, t)
               T == S \cup {k}
    <3>1. k \in made /\ k \notin S /\ Msg(c, t, k) \notin wire'
      BY <1>1, <1>6, <1>7 DEF Has
    <3>2. Has(c, j)' = T
      <4>1. \A i \in made \ {k} : Msg(c, t, i) \in wire' <=> Msg(c, t, i) \in wire
        BY <1>7, <1>8
      <4> QED BY <1>1, <2>1, <2>4, <3>1, <4>1 DEF Has
    <3>3. delta'[j] = MergeInto(delta[t], c[k].to_hall, c[k].growth)
      BY <1>3, <1>6, <1>7, <2>4
    <3>4. MergeOf(delta[t], c, F, S) /\ S \in SUBSET made
      BY <2>2, <2>4
    <3> HIDE DEF S
    <3>5. IsFiniteSet(S)
      BY <1>3, <3>4, FS_Subset
    <3>6. F[T] = F[S] + c[k].growth
      BY <3>1, <3>4 DEF Explains, Adds
    <3>7. IsDelta(delta[t]) /\ IsLocalDelta(c[k])
      BY <1>1, <1>3, <1>4, <1>7
    <3> HIDE DEF T
    <3>8. MergeOf(MergeInto(delta[t], c[k].to_hall, c[k].growth), c, F, T)
      <4>1. T = S \cup {k}
        BY DEF T
      <4> QED BY <3>1, <3>4, <3>5, <3>6, <3>7, <4>1, MergeOne
    <3> QED BY <3>2, <3>3, <3>8 DEF MergeOf
  <2> QED BY <2>3, <2>4
<1>10. \A w \in wire' : \E i \in made' : w.to \in Nodes \ {i} /\ w = Msg(c, w.to, i)'
  BY <1>6 DEF Explains, Msg
<1>11. Adds(c, F)' /\ \A i \in made' : ToSet(c[i].to_hall) \subseteq proposed'
  BY <1>6 DEF Explains, Adds
<1> QED BY <1>4, <1>9, <1>10, <1>11 DEF Explains

\* Nothing was said, and nothing merged.
Silent == made = {} /\ wire = {} /\ \A n \in Nodes : delta[n] = NoDelta

LEMMA NothingSaid == Silent => Explained
<1> SUFFICES ASSUME Silent PROVE \E c, F : Explains(c, F)
  BY DEF Explained
<1> USE DEF Silent
<1> DEFINE nothing == [to_hall |-> <<>>, growth |-> 0]
           c == [k \in Nodes |-> nothing]
           F == [S \in SUBSET Nodes |-> 0]
<1>1. (\A k \in Nodes : IsLocalDelta(c[k])) /\ c = [k \in Nodes |-> c[k]]
  <2>1. <<>> \in Seq(Pairs)
    OBVIOUS
  <2>2. IsLocalDelta(nothing)
    BY <2>1 DEF IsLocalDelta
  <2> HIDE DEF nothing
  <2> QED BY <2>2
<1>2. Adds(c, F)
  <2> HIDE DEF c
  <2> QED BY DEF Adds
<1>3. F[{}] = 0
  OBVIOUS
<1> HIDE DEF c, F
<1>4. \A n \in Nodes : MergeOf(delta[n], c, F, Has(c, n))
  <2> SUFFICES ASSUME NEW n \in Nodes PROVE MergeOf(delta[n], c, F, Has(c, n))
    OBVIOUS
  <2>1. Has(c, n) = {}
    BY DEF Has
  <2>2. delta[n].growth = 0 /\ delta[n].mult = 0 /\ DOMAIN delta[n].to_hall = {}
    BY DEF NoDelta, None
  <2>3. Cardinality({}) = 0
    BY FS_EmptySet
  <2> QED BY <1>3, <2>1, <2>2, <2>3 DEF MergeOf
<1>5. Explains(c, F)
  BY <1>1, <1>2, <1>4 DEF Explains
<1> QED BY <1>5

\* The invariant is kept.
LEMMA SameStep == SameInv /\ [Next]_vars => SameInv'
<1> SUFFICES ASSUME SameInv, [Next]_vars PROVE Explained'
  BY GrowthStep DEF SameInv
<1>1. GrowthInv
  BY DEF SameInv
<1>2. PICK c, F : Explains(c, F)
  BY DEF SameInv, Explained
<1>3. CASE UNCHANGED <<delta, wire, made, proposed>>
  <2>1. Explains(c, F)'
    BY <1>2, <1>3 DEF Explains, Adds, MergeOf, Has, Msg
  <2> QED BY <2>1 DEF Explained
<1>4. ASSUME NEW n \in Nodes, CreateLocalDelta(n) PROVE Explained'
  BY <1>1, <1>2, <1>4, SaidStep DEF Explained
<1>5. ASSUME NEW m \in wire, Merge(m) PROVE Explained'
  <2>1. Explains(c, F)'
    BY <1>1, <1>2, <1>5, HeardStep
  <2> QED BY <2>1 DEF Explained
<1>6. ASSUME NEW n \in Nodes, BeginImport(n) PROVE Explained'
  <2>1. made' = {} /\ wire' = {} /\ \A k \in Nodes : delta'[k] = NoDelta
    BY <1>6 DEF BeginImport, AllMerged
  <2>2. Silent'
    BY <2>1 DEF Silent
  <2> QED BY <2>2, NothingSaid, PTL
<1>7. \/ UNCHANGED <<delta, wire, made, proposed>>
      \/ \E n \in Nodes : CreateLocalDelta(n) \/ BeginImport(n)
      \/ \E m \in wire : Merge(m)
  BY ZenonT(60) DEF Next, vars, LookupNode, LookupHall, UseLookup, ProcessWork, Draw, EndImport
<1> QED BY <1>3, <1>4, <1>5, <1>6, <1>7

\* Nodes that merged the same deltas make the same block, in whatever order
\* the deltas arrived, unless somebody was proposed with two addresses
\* (delta::merge, end_merge).
THEOREM SameBlock == Spec => []SameDeltasSameBlock
<1>1. Init => SameInv
  <2> SUFFICES ASSUME Init PROVE SameInv
    OBVIOUS
  <2>1. Silent
    BY DEF Init, Silent
  <2> QED BY <2>1, InitGrowth, NothingSaid DEF SameInv
<1>2. SameInv => SameDeltasSameBlock
  <2> SUFFICES ASSUME SameInv, AllMerged, \A x, y \in proposed : x[1] = y[1] => x = y,
                      NEW n \in made, NEW m \in made
               PROVE  delta[n] = delta[m]
    BY DEF SameDeltasSameBlock
  <2>1. PICK c, F : Explains(c, F)
    BY DEF SameInv, Explained
  <2>2. n \in Nodes /\ m \in Nodes /\ IsDelta(delta[n]) /\ IsDelta(delta[m])
    BY DEF SameInv, GrowthInv, TypeOK, DeltasOK
  <2>3. Has(c, n) = made /\ Has(c, m) = made
    BY DEF AllMerged, Has
  <2>4. MergeOf(delta[n], c, F, made) /\ MergeOf(delta[m], c, F, made)
    BY <2>1, <2>2, <2>3 DEF Explains
  <2> DEFINE f == delta[n].to_hall
             g == delta[m].to_hall
  <2>5. ASSUME NEW k1 \in {n, m}, NEW k2 \in {n, m}, NEW p \in DOMAIN delta[k1].to_hall
        PROVE  p \in DOMAIN delta[k2].to_hall
    <3>1. PICK k \in made : <<p, delta[k1].to_hall[p]>> \in ToSet(c[k].to_hall)
      BY <2>4 DEF MergeOf
    <3>2. <<p, delta[k1].to_hall[p]>>[1] \in DOMAIN delta[k2].to_hall
      BY <2>4, <3>1 DEF MergeOf
    <3> QED BY <3>2
  <2>6. DOMAIN f = DOMAIN g
    BY <2>5
  <2>7. ASSUME NEW p \in DOMAIN f PROVE f[p] = g[p]
    <3>1. p \in DOMAIN g
      BY <2>6
    <3>2. <<p, f[p]>> \in proposed /\ <<p, g[p]>> \in proposed
      BY <2>1, <2>4, <3>1 DEF MergeOf, Explains
    <3>3. <<p, f[p]>> = <<p, g[p]>>
      BY <3>2
    <3> QED BY <3>3
  <2>8. f = [p \in DOMAIN f |-> f[p]] /\ g = [p \in DOMAIN g |-> g[p]]
    BY <2>2 DEF IsDelta, IsDirectory
  <2> HIDE DEF f, g
  <2>9. f = g
    BY <2>6, <2>7, <2>8
  <2>10. delta[n].growth = delta[m].growth /\ delta[n].mult = delta[m].mult
    BY <2>4 DEF MergeOf
  <2> QED BY <2>2, <2>9, <2>10 DEF IsDelta, f, g
<1> QED BY <1>1, <1>2, SameStep, PTL DEF Spec

=============================================================================
