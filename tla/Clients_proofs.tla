--------------------------- MODULE Clients_proofs ---------------------------
(***************************************************************************)
(* Proofs about Clients, for any number of client objects, descriptors and *)
(* workers.  The two invariants are proved together: a worker keeps its    *)
(* client because the server thread closes only what is not busy, and the  *)
(* descriptors it serves lead to the right clients because the containers  *)
(* agree with the sockets.                                                 *)
(***************************************************************************)
EXTENDS Clients, FiniteSetTheorems, WellFoundedInduction, TLAPS

-----------------------------------------------------------------------------
(* Operators of the model *)

\* The kernel's choice and the next object number are members of their sets: a
\* set of naturals that is not empty has a least element.
LEMMA MinOfNats ==
    ASSUME NEW S \in SUBSET Nat, S # {}
    PROVE  Min(S) \in S
<1> DEFINE Below == OpToRel(<, Nat)
<1>1. PICK x \in S : \A y \in S : <<y, x>> \notin Below
  <2>1. IsWellFoundedOn(Below, Nat)
    BY NatLessThanWellFounded
  <2> HIDE DEF Below
  <2> QED BY <2>1, WFMin
<1>2. \A y \in S : x <= y
  <2> TAKE y \in S
  <2>1. ~(y < x)
    BY <1>1 DEF OpToRel
  <2> QED BY <2>1
<1> QED BY <1>2 DEF Min

\* An order shrink or select may walk a finite set in: each element once.
LEMMA SetToSeqsWalks ==
    ASSUME NEW S, IsFiniteSet(S), NEW s \in SetToSeqs(S)
    PROVE  /\ s \in Seq(S) /\ Range(s) \subseteq S
           /\ \A i \in 1..Len(s) : s[i] \in S
           /\ \A i, j \in 1..Len(s) : i # j => s[i] # s[j]
<1>1. Cardinality(S) \in Nat
  BY FS_CardinalityType
<1>2. /\ s \in [1..Cardinality(S) -> S]
      /\ \A i, j \in 1..Cardinality(S) : i # j => s[i] # s[j]
  BY DEF SetToSeqs
<1>3. s \in Seq(S) /\ Len(s) = Cardinality(S)
  BY <1>1, <1>2
<1> QED BY <1>2, <1>3 DEF Range

\* One step of a walk: its head is done and the rest is left.
LEMMA TailOfWalk ==
    ASSUME NEW S, NEW s \in Seq(S), s # <<>>
    PROVE  /\ Tail(s) \in Seq(S) /\ Len(Tail(s)) = Len(s) - 1 /\ Len(s) \in Nat \ {0}
           /\ Head(s) = s[1] /\ Head(s) \in S /\ 1 \in 1..Len(s)
           /\ \A i \in 1..Len(Tail(s)) : Tail(s)[i] = s[i + 1] /\ i + 1 \in 1..Len(s)
           /\ Range(Tail(s)) \subseteq Range(s) /\ Head(s) \in Range(s)
<1>1. /\ Tail(s) \in Seq(S) /\ Len(Tail(s)) = Len(s) - 1 /\ Len(s) \in Nat \ {0}
      /\ Head(s) = s[1] /\ Head(s) \in S
  OBVIOUS
<1>2. \A i \in 1..Len(Tail(s)) : Tail(s)[i] = s[i + 1] /\ i + 1 \in 1..Len(s)
  BY <1>1
<1>3. DOMAIN s = 1..Len(s) /\ DOMAIN Tail(s) = 1..Len(Tail(s))
  BY <1>1
<1> QED BY <1>1, <1>2, <1>3 DEF Range

\* What grow and scan look through.
LEMMA MembersAre ==
    ASSUME TypeOK
    PROVE  /\ Members \subseteq Client
           /\ \A f \in Fd : clients[f] # 0 => clients[f] \in Members
           /\ \A c \in Members : \E f \in Fd : clients[f] = c /\ c # 0
BY DEF TypeOK, Members, Client

\* The sets the threads count or walk through are finite.
LEMMA Finite ==
    ASSUME TypeOK
    PROVE  /\ IsFiniteSet(Client) /\ IsFiniteSet(Fd)
           /\ IsFiniteSet(wremove) /\ IsFiniteSet(Ready) /\ IsFiniteSet(active)
           /\ Cardinality(active) \in Nat
<1>1. IsFiniteSet(Client) /\ IsFiniteSet(Fd)
  BY ClientsAssumption, FS_Interval DEF Client, Fd
<1>2. wremove \subseteq Client /\ active \subseteq Client /\ Ready \subseteq Fd
  BY DEF TypeOK, Ready
<1> QED BY <1>1, <1>2, FS_Subset, FS_CardinalityType

\* A new object has a number that was not used and a free descriptor.
LEMMA NewClient ==
    ASSUME TypeOK, Uncreated # {}, FreeFds # {}
    PROVE  /\ Min(Uncreated) \in Client /\ life[Min(Uncreated)] = "none"
           /\ Min(FreeFds) \in Fd /\ Min(FreeFds) # 0
           /\ \A c \in Client : sock[c] # Min(FreeFds)
<1>1. Uncreated \in SUBSET Nat /\ FreeFds \in SUBSET Nat
  BY ClientsAssumption DEF Uncreated, FreeFds, Client, Fd
<1>2. Min(Uncreated) \in Uncreated /\ Min(FreeFds) \in FreeFds
  BY <1>1, MinOfNats
<1>3. \A c \in Uncreated : c \in Client /\ life[c] = "none"
  BY DEF Uncreated
<1>4. \A f \in FreeFds : f \in Fd /\ f # 0 /\ \A c \in Client : sock[c] # f
  BY ClientsAssumption DEF FreeFds, Fd
<1> QED BY <1>2, <1>3, <1>4

-----------------------------------------------------------------------------
(* The invariant *)

\* Where a client object is: it exists exactly while it is in a container.
Placed ==
  /\ \A c \in Client : life[c] = "alive" <=> c \in wadd \cup Members \cup attic
  /\ wadd \cap Members = {} /\ wadd \cap attic = {} /\ Members \cap attic = {}

\* An open socket is of a client that exists, and is kept under its descriptor.
Sockets ==
  /\ \A c \in Client : sock[c] # 0 => life[c] = "alive"
  /\ \A c, d \in Client : c # d /\ sock[c] # 0 => sock[c] # sock[d]
  /\ \A f \in Fd : clients[f] # 0 /\ sock[clients[f]] # 0 => sock[clients[f]] = f
  /\ \A c \in wadd : sock[c] # 0
  /\ \A c \in attic : sock[c] = 0

\* A pointer some thread holds is of an object that was created.
Created ==
  /\ \A c \in active \cup wremove : life[c] # "none"
  /\ \A t \in Thread : /\ \A c \in view[t] : life[c] # "none"
                       /\ asks[t] # 0 => life[asks[t]] # "none"
  /\ pc = "detach" => \A c \in Range(list) : c \in Client /\ life[c] # "none"
  /\ \A c \in Client : busy[c] => life[c] # "none"

\* A descriptor select watches is of an open client of the main container that
\* nobody is on.
Watched(f) == clients[f] \in Client /\ sock[clients[f]] = f /\ ~busy[clients[f]]

\* A descriptor the server thread still has to serve was ready and is watched.
Serving ==
  /\ pc \in {"purge", "scan", "select"} => list = <<>>
  /\ pc = "select" => \A f \in selectable : Watched(f)
  /\ pc = "serve" =>
       /\ \A i \in 1..Len(list) :
            list[i] \in Fd /\ Watched(list[i]) /\ input[list[i]] # "quiet"
       /\ \A i, j \in 1..Len(list) : i # j => list[i] # list[j]

\* The steps of a worker at which it has a client.
Holding ==
  \A w \in Worker : wpc[w] \in {"recv", "relay", "finish"} <=> work[w] # 0

\* The inductive invariant.
IInv ==
  /\ TypeOK /\ Placed /\ Sockets /\ Created /\ Serving /\ Holding
  /\ WorkerOwnsItsClient

LEMMA InitIInv == Init => IInv
<1> SUFFICES ASSUME Init PROVE IInv
  OBVIOUS
<1>1. TypeOK
  <2>1. 0 \in 0..MaxInput /\ 0 \in 0..MaxTick /\ 0 \in 0..(edges + 1)
    BY ClientsAssumption
  <2>2. <<>> \in Seq(Client \cup Fd)
    OBVIOUS
  <2> QED BY <2>1, <2>2 DEF Init, TypeOK
<1>2. Members = {}
  BY DEF Init, Members
<1>3. Placed /\ Sockets /\ Created
  BY <1>2 DEF Init, Placed, Sockets, Created, Fd
<1>4. Serving /\ Holding /\ WorkerOwnsItsClient
  BY DEF Init, Serving, Holding, WorkerOwnsItsClient, Watched
<1> QED BY <1>1, <1>3, <1>4 DEF IInv

\* Asking a client to leave, or not.
LEMMA DisconnectType ==
    ASSUME TypeOK, NEW t \in Thread, NEW c \in Client, Disconnect(t, c)
    PROVE  asks' \in [Thread -> Client \cup {0}]
BY DEF TypeOK, Disconnect

\* The second half of it.
LEMMA RmlistAddType ==
    ASSUME TypeOK, NEW t \in Thread, RmlistAdd(t)
    PROVE  TypeOK'
<1>1. asks[t] \in Client
  BY DEF TypeOK, RmlistAdd
<1> QED BY <1>1 DEF TypeOK, RmlistAdd, server, pool, timer

\* Attaching a new object.
LEMMA AttachType ==
    ASSUME TypeOK, Uncreated # {}, FreeFds # {}, Attach(Min(Uncreated))
    PROVE  /\ life' \in [Client -> {"none", "alive", "deleted"}]
           /\ sock' \in [Client -> Fd \cup {0}]
           /\ wadd' \subseteq Client
BY NewClient DEF TypeOK, Attach, CreateClient, WaddAdd

\* Steps of the server thread keep the types.
LEMMA ServerType ==
    ASSUME TypeOK, Serving, Created, Server \/ Accept
    PROVE  TypeOK'
<1>1. CASE Shrink
  <2>1. list' \in Seq(Client \cup Fd)
    <3>1. PICK s \in SetToSeqs(wremove) : list' = s
      BY <1>1 DEF Shrink
    <3>2. s \in Seq(wremove) /\ wremove \subseteq Client \cup Fd
      BY <3>1, Finite, SetToSeqsWalks DEF TypeOK
    <3> QED BY <3>1, <3>2
  <2> QED BY <1>1, <2>1 DEF Shrink, TypeOK, pool, timer
<1>2. CASE DetachNext
  <2>1. Head(list) \in Client /\ Tail(list) \in Seq(Client \cup Fd)
    <3>1. list \in Seq(Client \cup Fd) /\ list # <<>> /\ pc = "detach"
      BY <1>2 DEF DetachNext, TypeOK
    <3> QED BY <3>1, TailOfWalk DEF Created
  <2>2. /\ sock' = [sock EXCEPT ![Head(list)] = 0] /\ wadd' \subseteq wadd
        /\ attic' \subseteq attic \cup {Head(list)} /\ list' = Tail(list)
        /\ input' = [f \in Fd |-> IF f = sock[Head(list)] THEN "quiet" ELSE input[f]]
        /\ UNCHANGED <<life, busy, clients, wremove, active, pc, selectable, wake,
                       sent, jobs, wpc, work, tpc, tries, ticks, view, asks, crashed>>
    BY <1>2 DEF DetachNext, WaddRemove, pool, timer
  <2> QED BY <2>1, <2>2 DEF TypeOK
<1>3. CASE Grow
  BY <1>3 DEF Grow, TypeOK, pool, timer
<1>4. CASE Purge
  BY <1>4 DEF Purge, TypeOK, pool, timer
<1>5. CASE Scan
  <2>1. Members \subseteq Client
    BY MembersAre
  <2> QED BY <1>5, <2>1 DEF Scan, TypeOK, pool, timer
<1>6. ASSUME Selected
      PROVE  list' \in Seq(Client \cup Fd)
  <2>1. PICK s \in SetToSeqs(Ready) : list' = s
    BY <1>6 DEF Selected
  <2>2. s \in Seq(Ready) /\ Ready \subseteq Client \cup Fd
    BY <2>1, Finite, SetToSeqsWalks DEF TypeOK, Ready
  <2> QED BY <2>1, <2>2
<1>7. CASE Select \/ AcceptBanned
  BY <1>6, <1>7 DEF Select, AcceptBanned, Selected, TypeOK, pool, timer
<1>8. CASE AcceptClient
  BY <1>6, <1>8, AttachType DEF AcceptClient, Selected, TypeOK, pool, timer
<1>9. CASE AcceptFails
  <2>1. sent' \in 0..MaxInput
    BY <1>9, ClientsAssumption DEF AcceptFails, TypeOK
  <2> QED BY <1>9, <2>1 DEF AcceptFails, TypeOK, pool, timer
<1>10. CASE ServeNext
  <2> DEFINE c == clients[Head(list)]
  <2>1. c \in Client /\ Tail(list) \in Seq(Client \cup Fd)
    <3>1. list \in Seq(Client \cup Fd) /\ list # <<>> /\ pc = "serve"
      BY <1>10 DEF ServeNext, TypeOK
    <3> QED BY <3>1, TailOfWalk DEF Serving, Watched
  <2>2. /\ busy' \in [Client -> BOOLEAN] /\ jobs' \subseteq Client
        /\ wremove' \subseteq Client /\ wake' \in BOOLEAN
    <3>1. CASE busy[c]
      BY <1>10, <3>1 DEF ServeNext, TypeOK
    <3>2. CASE ~busy[c]
      <4>1. /\ busy' = [busy EXCEPT ![c] = TRUE]
            /\ \/ jobs' = jobs \cup {c} /\ UNCHANGED <<wremove, wake>>
               \/ wremove' = wremove \cup {c} /\ wake' = TRUE /\ UNCHANGED jobs
        BY <1>10, <3>2 DEF ServeNext
      <4> QED BY <2>1, <4>1 DEF TypeOK
    <3> QED BY <3>1, <3>2
  <2> QED BY <1>10, <2>1, <2>2 DEF ServeNext, TypeOK, timer
<1>11. CASE GrowAborts \/ DetachDeleted
  BY <1>11 DEF GrowAborts, DetachDeleted, Crash, TypeOK, server, pool, timer
<1> QED BY <1>1, <1>2, <1>3, <1>4, <1>5, <1>7, <1>8, <1>9, <1>10, <1>11 DEF Server, Accept

\* Steps of the workers keep the types.
LEMMA WorkerType ==
    ASSUME TypeOK, Holding, WorkerOwnsItsClient, NEW w \in Worker, WorkerStep(w)
    PROVE  TypeOK'
<1> USE DEF server, timer
<1>0. w \in Thread
  BY DEF Thread
<1>1. CASE Take(w)
  BY <1>1 DEF Take, TypeOK
<1>2. CASE Recv(w)
  <2>1. work[w] \in Client /\ sock[work[w]] \in Fd
    BY <1>2 DEF Recv, Holding, WorkerOwnsItsClient, TypeOK
  <2>2. /\ input' \in [Fd -> {"quiet", "datagram", "fatal"}]
        /\ wpc' \in [Worker -> {"idle", "recv", "relay", "finish", "wake"}]
        /\ view' \in [Thread -> SUBSET Client] /\ asks' \in [Thread -> Client \cup {0}]
    BY <1>0, <1>2, <2>1, DisconnectType DEF Recv, TypeOK, ActiveCopy
  <2> QED BY <1>2, <2>2 DEF Recv, TypeOK
<1>3. CASE \E c \in Client, fails \in BOOLEAN : RelayTo(w, c, fails)
  <2>1. PICK c \in Client, fails \in BOOLEAN : RelayTo(w, c, fails)
    BY <1>3
  <2>2. asks' \in [Thread -> Client \cup {0}]
    BY <1>0, <2>1, DisconnectType DEF RelayTo, TypeOK
  <2> QED BY <2>1, <2>2 DEF RelayTo, TypeOK, pool
<1>4. CASE RelayToDeleted(w)
  BY <1>4 DEF RelayToDeleted, Crash, TypeOK, pool
<1>5. CASE RelayDone(w)
  BY <1>5 DEF RelayDone, TypeOK
<1>6. CASE Release(w)
  BY <1>6 DEF Release, TypeOK
<1>7. CASE WakeServer(w)
  BY <1>7 DEF WakeServer, TypeOK
<1>8. CASE RmlistAdd(w)
  BY <1>0, <1>8, RmlistAddType
<1> QED BY <1>1, <1>2, <1>3, <1>4, <1>5, <1>6, <1>7, <1>8 DEF WorkerStep

\* Steps of the timer and of the remote ends keep the types.
LEMMA TimerType ==
    ASSUME TypeOK, TimerStep \/ \E f \in Fd, what \in {"datagram", "fatal"} : Remote(f, what)
    PROVE  TypeOK'
<1> USE DEF server, pool
<1>0. Timer \in Thread
  BY DEF Thread
<1>1. CASE TimerStarts
  <2>1. tries' \in 0..(edges + 1) /\ ticks' \in 0..MaxTick
    BY <1>1, Finite, ClientsAssumption DEF TimerStarts, TypeOK
  <2> QED BY <1>1, <2>1 DEF TimerStarts, TypeOK, ActiveCopy
<1>2. CASE \E made \in BOOLEAN : Connect(made)
  <2>1. PICK made \in BOOLEAN : Connect(made)
    BY <1>2
  <2>2. tries' \in 0..(edges + 1)
    BY <2>1, ClientsAssumption DEF Connect, TypeOK
  <2>3. /\ life' \in [Client -> {"none", "alive", "deleted"}]
        /\ sock' \in [Client -> Fd \cup {0}]
        /\ wadd' \subseteq Client /\ view' \in [Thread -> SUBSET Client]
        /\ tpc' \in {"sleep", "connect", "made", "excess"}
    BY <2>1, NewClient, AttachType DEF Connect, TypeOK
  <2> QED BY <2>1, <2>2, <2>3 DEF Connect, TypeOK
<1>3. CASE ConnectAborts \/ PurgeDeleted
  BY <1>3 DEF ConnectAborts, PurgeDeleted, Crash, TypeOK, timer
<1>4. CASE ConnectDone
  BY <1>4 DEF ConnectDone, TypeOK
<1>5. CASE \E c \in Client : PurgeExcess(c)
  <2>1. PICK c \in Client : PurgeExcess(c)
    BY <1>5
  <2>2. asks' \in [Thread -> Client \cup {0}]
    BY <1>0, <2>1, DisconnectType DEF PurgeExcess
  <2>3. view' \in [Thread -> SUBSET Client]
    BY <1>0, <2>1 DEF PurgeExcess, TypeOK
  <2> QED BY <2>1, <2>2, <2>3 DEF PurgeExcess, TypeOK, timer
<1>6. CASE TimerSleeps
  BY <1>6 DEF TimerSleeps, TypeOK
<1>7. CASE \E f \in Fd, what \in {"datagram", "fatal"} : Remote(f, what)
  <2>1. PICK f \in Fd, what \in {"datagram", "fatal"} : Remote(f, what)
    BY <1>7
  <2>2. sent' \in 0..MaxInput
    BY <2>1, ClientsAssumption DEF Remote, TypeOK
  <2> QED BY <2>1, <2>2 DEF Remote, TypeOK, timer
<1>8. CASE RmlistAdd(Timer)
  BY <1>0, <1>8, RmlistAddType
<1> QED BY <1>1, <1>2, <1>3, <1>4, <1>5, <1>6, <1>7, <1>8 DEF TimerStep

\* Every step keeps the types.
LEMMA TypeStep ==
    ASSUME IInv, [Next]_vars
    PROVE  TypeOK'
<1>1. CASE UNCHANGED vars
  BY <1>1 DEF IInv, TypeOK, vars, server, pool, timer
<1> QED BY <1>1, ServerType, WorkerType, TimerType DEF IInv, Next

-----------------------------------------------------------------------------
(* The containers and the sockets *)

\* Attaching a new object puts it in wadd, and changes nothing of the others.
Attached ==
  \E c \in Client, f \in Fd :
    /\ life[c] = "none" /\ f # 0 /\ \A d \in Client : sock[d] # f
    /\ life' = [life EXCEPT ![c] = "alive"]
    /\ sock' = [sock EXCEPT ![c] = f]
    /\ wadd' = wadd \cup {c}
    /\ UNCHANGED <<clients, attic>>

LEMMA AttachIs ==
    ASSUME TypeOK, Uncreated # {}, FreeFds # {}, Attach(Min(Uncreated)),
           UNCHANGED <<clients, attic>>
    PROVE  Attached
<1>1. /\ Min(Uncreated) \in Client /\ life[Min(Uncreated)] = "none"
      /\ Min(FreeFds) \in Fd /\ Min(FreeFds) # 0
      /\ \A c \in Client : sock[c] # Min(FreeFds)
  BY NewClient
<1>2. /\ life' = [life EXCEPT ![Min(Uncreated)] = "alive"]
      /\ sock' = [sock EXCEPT ![Min(Uncreated)] = Min(FreeFds)]
      /\ wadd' = wadd \cup {Min(Uncreated)}
  BY DEF Attach, CreateClient, WaddAdd
<1> HIDE DEF Uncreated, FreeFds
<1> QED BY <1>1, <1>2 DEF Attached

\* Who moves, opens or closes clients.
LEMMA Moves ==
    ASSUME TypeOK, [Next]_vars
    PROVE  \/ DetachNext \/ Grow \/ Purge \/ Scan \/ Attached
           \/ UNCHANGED <<life, sock, clients, wadd, attic>>
<1>1. ASSUME Server PROVE \/ DetachNext \/ Grow \/ Purge \/ Scan
                          \/ UNCHANGED <<life, sock, clients, wadd, attic>>
  BY <1>1 DEF Server, Shrink, GrowAborts, DetachDeleted, Crash, Select, Selected, ServeNext
<1>2. ASSUME Accept PROVE Attached \/ UNCHANGED <<life, sock, clients, wadd, attic>>
  BY <1>2, AttachIs DEF Accept, AcceptBanned, AcceptClient, AcceptFails, Selected
<1>3. ASSUME NEW w \in Worker, WorkerStep(w)
      PROVE  UNCHANGED <<life, sock, clients, wadd, attic>>
  BY <1>3 DEF WorkerStep, RmlistAdd, Take, Recv, RelayTo, RelayToDeleted, RelayDone,
              Release, WakeServer, Crash
<1>4. ASSUME TimerStep PROVE Attached \/ UNCHANGED <<life, sock, clients, wadd, attic>>
  BY <1>4, AttachIs DEF TimerStep, RmlistAdd, TimerStarts, Connect, ConnectAborts, ConnectDone,
                        PurgeExcess, PurgeDeleted, TimerSleeps, Crash
<1> QED BY <1>1, <1>2, <1>3, <1>4 DEF Next, Remote, vars

\* What grow does to the main container: those that waited are now in it, each
\* under its own descriptor.
LEMMA GrowMoves ==
    ASSUME TypeOK, Placed, Sockets, Grow
    PROVE  /\ Members' = Members \cup wadd /\ wadd' = {} /\ UNCHANGED <<life, sock, attic>>
           /\ \A f \in Fd : clients'[f] = clients[f] \/ (clients'[f] \in wadd /\ sock[clients'[f]] = f)
<1>1. /\ clients' = [f \in Fd |-> IF \E c \in wadd : sock[c] = f
                              THEN CHOOSE c \in wadd : sock[c] = f
                              ELSE clients[f]]
      /\ wadd' = {} /\ UNCHANGED <<life, sock, attic>>
      /\ \A c \in wadd : sock[c] # 0 /\ clients[sock[c]] = 0
  BY DEF Grow, Enterable
<1>2. \A f \in Fd : \/ clients'[f] \in wadd /\ sock[clients'[f]] = f
                    \/ clients'[f] = clients[f] /\ ~\E c \in wadd : sock[c] = f
  BY <1>1
<1>3. \A c \in wadd : c \in Client /\ c # 0 /\ sock[c] \in Fd
  BY <1>1 DEF TypeOK, Client
<1>4. \A c \in wadd : clients'[sock[c]] = c
  BY <1>2, <1>3 DEF Sockets, TypeOK
<1>5. \A f \in Fd : clients[f] # 0 => clients'[f] = clients[f]
  BY <1>1, <1>2
<1>6. Members' = Members \cup wadd
  BY <1>2, <1>3, <1>4, <1>5 DEF Members
<1> QED BY <1>1, <1>2, <1>6

\* What scan does to it: the closed ones are out of it.
LEMMA ScanMoves ==
    ASSUME TypeOK, Scan
    PROVE  /\ Members' = {c \in Members : sock[c] # 0}
           /\ attic' = attic \cup {c \in Members : sock[c] = 0}
           /\ \A f \in Fd : \/ clients'[f] = clients[f] /\ (clients[f] # 0 => sock[clients[f]] # 0)
                            \/ clients'[f] = 0
           /\ \A f \in Fd : clients[f] # 0 /\ sock[clients[f]] # 0 => clients'[f] = clients[f]
<1> DEFINE closed == {c \in Members : sock[c] = 0}
<1>1. /\ clients' = [f \in Fd |-> IF clients[f] \in closed THEN 0 ELSE clients[f]]
      /\ attic' = attic \cup closed
  BY DEF Scan
<1>2. \A f \in Fd : clients[f] \in closed <=> clients[f] # 0 /\ sock[clients[f]] = 0
  BY MembersAre DEF Members
<1>3. Members' = {c \in Members : sock[c] # 0}
  BY <1>1, <1>2 DEF Members
<1> HIDE DEF closed
<1>4. /\ \A f \in Fd : \/ clients'[f] = clients[f] /\ (clients[f] # 0 => sock[clients[f]] # 0)
                       \/ clients'[f] = 0
      /\ \A f \in Fd : clients[f] # 0 /\ sock[clients[f]] # 0 => clients'[f] = clients[f]
  BY <1>1, <1>2
<1> QED BY <1>1, <1>3, <1>4 DEF closed

\* Every step keeps the containers and the sockets in agreement.
LEMMA ContainersStep ==
    ASSUME IInv, [Next]_vars
    PROVE  Placed' /\ Sockets'
<1> USE DEF IInv
<1>1. Members \subseteq Client
  BY MembersAre
<1>2. CASE UNCHANGED <<life, sock, clients, wadd, attic>>
  <2>1. Members' = Members
    BY <1>2 DEF Members
  <2> QED BY <1>2, <2>1 DEF Placed, Sockets
<1>3. CASE DetachNext
  <2>1. PICK c \in Client :
          /\ sock' = [sock EXCEPT ![c] = 0] /\ wadd' = wadd \ {c}
          /\ attic' = IF c \in wadd THEN attic \cup {c} ELSE attic
          /\ UNCHANGED <<life, clients>>
    <3>1. Head(list) \in Client
      BY <1>3, TailOfWalk DEF DetachNext, TypeOK, Created
    <3> QED BY <1>3, <3>1 DEF DetachNext, WaddRemove
  <2>2. Members' = Members
    BY <2>1 DEF Members
  <2>3. Placed'
    BY <2>1, <2>2 DEF Placed, TypeOK
  <2>4. Sockets'
    BY <2>1 DEF Sockets, TypeOK, Placed, Client
  <2> QED BY <2>3, <2>4
<1>4. CASE Grow
  <2>1. Placed'
    BY <1>4, GrowMoves DEF Placed
  <2>2. Sockets'
    BY <1>4, GrowMoves DEF Sockets
  <2> QED BY <2>1, <2>2
<1>5. CASE Purge
  <2> DEFINE gone == {c \in attic : ~busy[c]}
  <2>1. /\ life' = [c \in Client |-> IF c \in gone THEN "deleted" ELSE life[c]]
        /\ attic' = attic \ gone /\ UNCHANGED <<sock, clients, wadd>>
    BY <1>5 DEF Purge
  <2>2. Members' = Members /\ gone \subseteq attic
    BY <2>1 DEF Members
  <2> HIDE DEF gone
  <2>3. Placed'
    BY <1>1, <2>1, <2>2 DEF Placed, TypeOK
  <2>4. Sockets'
    BY <2>1, <2>2 DEF Sockets, TypeOK
  <2> QED BY <2>3, <2>4
<1>6. CASE Scan
  <2>1. UNCHANGED <<life, sock, wadd>>
    BY <1>6 DEF Scan
  <2>2. Placed'
    BY <1>6, <2>1, ScanMoves DEF Placed
  <2>3. Sockets'
    BY <1>6, <2>1, ScanMoves DEF Sockets
  <2> QED BY <2>2, <2>3
<1>7. CASE Attached
  <2>1. PICK c \in Client, f \in Fd :
          /\ life[c] = "none" /\ f # 0 /\ \A d \in Client : sock[d] # f
          /\ life' = [life EXCEPT ![c] = "alive"]
          /\ sock' = [sock EXCEPT ![c] = f]
          /\ wadd' = wadd \cup {c}
          /\ UNCHANGED <<clients, attic>>
    BY <1>7 DEF Attached
  <2>2. Members' = Members /\ c \notin Members /\ c \notin attic
    BY <2>1 DEF Members, Placed
  <2>3. \A g \in Fd : clients[g] # 0 => clients[g] \in Client /\ clients[g] # c
    BY <2>2, MembersAre DEF TypeOK
  <2>4. Placed'
    BY <1>1, <2>1, <2>2 DEF Placed, TypeOK
  <2>5. Sockets'
    BY <2>1, <2>2, <2>3 DEF Sockets, TypeOK
  <2> QED BY <2>4, <2>5
<1> QED BY <1>2, <1>3, <1>4, <1>5, <1>6, <1>7, Moves

-----------------------------------------------------------------------------
(* The pointers the threads hold *)

\* A step that moves no client: it may ask one to leave, add one that was asked
\* to wremove, copy active() and make a client of the main container busy.
Asks ==
  /\ UNCHANGED <<life, sock, clients, wadd, attic, active>>
  /\ wremove' = wremove \/ \E c \in Client : life[c] # "none" /\ wremove' = wremove \cup {c}
  /\ \A t \in Thread : /\ view'[t] \subseteq view[t] \cup active
                       /\ asks'[t] # 0 => life[asks'[t]] # "none"
  /\ UNCHANGED <<pc, list>> \/ (pc \in {"select", "serve"} /\ pc' = "serve")
  /\ \A c \in Client : busy'[c] => busy[c] \/ c \in Members

\* Asking a client that exists.
LEMMA DisconnectAsks ==
    ASSUME TypeOK, Created, NEW t \in Thread, NEW c \in Client, life[c] # "none", Disconnect(t, c)
    PROVE  \A u \in Thread : asks'[u] # 0 => life[asks'[u]] # "none"
BY DEF TypeOK, Created, Disconnect

\* What was asked for is done.
LEMMA RmlistAddAsks ==
    ASSUME TypeOK, Created, NEW t \in Thread, RmlistAdd(t)
    PROVE  Asks
<1>1. asks[t] \in Client /\ life[asks[t]] # "none"
  BY DEF TypeOK, Created, RmlistAdd
<1>2. \A u \in Thread : asks'[u] # 0 => life[asks'[u]] # "none"
  BY DEF TypeOK, Created, RmlistAdd
<1> QED BY <1>1, <1>2 DEF Asks, RmlistAdd, server

\* The steps of the server thread that do not move clients.
LEMMA ServerAsks ==
    ASSUME TypeOK, Placed, Serving, Created, Server \/ Accept
    PROVE  \/ Shrink \/ DetachNext \/ Grow \/ Purge \/ Scan \/ AcceptClient \/ Asks
<1> USE DEF Created
<1>1. CASE GrowAborts \/ DetachDeleted
  BY <1>1 DEF GrowAborts, DetachDeleted, Crash, Asks, server
<1>2. CASE Select \/ AcceptBanned
  BY <1>2 DEF Select, AcceptBanned, Selected, Asks
<1>3. CASE AcceptFails
  BY <1>3 DEF AcceptFails, Asks
<1>4. CASE ServeNext
  <2> DEFINE c == clients[Head(list)]
  <2>1. list \in Seq(Client \cup Fd) /\ list # <<>> /\ pc = "serve"
    BY <1>4 DEF ServeNext, TypeOK
  <2>2. Head(list) \in Fd /\ c \in Client
    BY <2>1, TailOfWalk DEF Serving, Watched
  <2>3. c \in Members
    BY <2>2, MembersAre DEF Client
  <2>4. life[c] # "none"
    BY <2>2, <2>3 DEF Placed
  <2>5. /\ UNCHANGED <<life, sock, clients, wadd, attic, active, pc, view, asks>>
        /\ UNCHANGED <<busy, wremove>>
           \/ (busy' = [busy EXCEPT ![c] = TRUE] /\ (wremove' = wremove \/ wremove' = wremove \cup {c}))
    BY <1>4 DEF ServeNext
  <2> HIDE DEF c
  <2>6. \A d \in Client : busy'[d] => busy[d] \/ d \in Members
    BY <2>2, <2>3, <2>5 DEF TypeOK
  <2> QED BY <2>1, <2>2, <2>4, <2>5, <2>6 DEF Asks
<1> QED BY <1>1, <1>2, <1>3, <1>4 DEF Server, Accept

\* No step of a worker moves a client.
LEMMA WorkerAsks ==
    ASSUME IInv, NEW w \in Worker, WorkerStep(w)
    PROVE  Asks
<1> USE DEF server
<1>0. TypeOK /\ Created /\ w \in Thread
  BY DEF IInv, Thread
<1>00. \A t \in Thread : asks[t] # 0 => life[asks[t]] # "none"
  BY <1>0 DEF Created
<1>1. CASE Take(w) \/ RelayToDeleted(w) \/ RelayDone(w) \/ WakeServer(w)
  BY <1>00, <1>1 DEF Take, RelayToDeleted, RelayDone, WakeServer, Crash, Asks
<1>2. CASE Recv(w)
  <2> DEFINE c == work[w]
  <2>1. c \in Client /\ life[c] # "none"
    BY <1>0, <1>2 DEF Recv, IInv, Holding, WorkerOwnsItsClient, TypeOK
  <2>2. /\ UNCHANGED <<life, sock, clients, wadd, wremove, attic, active, pc, list, busy>>
        /\ \/ UNCHANGED asks /\ view' = [view EXCEPT ![w] = active \ {c}]
           \/ Disconnect(w, c) /\ UNCHANGED view
    BY <1>2 DEF Recv, ActiveCopy
  <2> HIDE DEF c
  <2>3. \A t \in Thread : asks'[t] # 0 => life[asks'[t]] # "none"
    BY <1>0, <1>00, <2>1, <2>2, DisconnectAsks
  <2>4. \A t \in Thread : view'[t] \subseteq view[t] \cup active
    BY <1>0, <2>2 DEF TypeOK
  <2> QED BY <2>2, <2>3, <2>4 DEF Asks
<1>3. CASE \E c \in Client, fails \in BOOLEAN : RelayTo(w, c, fails)
  <2>1. PICK c \in Client, fails \in BOOLEAN : RelayTo(w, c, fails)
    BY <1>3
  <2>2. \A t \in Thread : asks'[t] # 0 => life[asks'[t]] # "none"
    BY <1>0, <1>00, <2>1, DisconnectAsks DEF RelayTo
  <2>3. \A t \in Thread : view'[t] \subseteq view[t] \cup active
    BY <1>0, <2>1 DEF RelayTo, TypeOK
  <2> QED BY <2>1, <2>2, <2>3 DEF Asks, RelayTo
<1>4. CASE Release(w)
  <2>1. work[w] \in Client \cup {0} /\ busy' = [busy EXCEPT ![work[w]] = FALSE]
    BY <1>0, <1>4 DEF Release, TypeOK
  <2>2. \A c \in Client : busy'[c] => busy[c]
    BY <1>0, <2>1 DEF TypeOK
  <2> QED BY <1>00, <1>4, <2>2 DEF Asks, Release
<1>5. CASE RmlistAdd(w)
  BY <1>0, <1>5, RmlistAddAsks
<1> QED BY <1>1, <1>2, <1>3, <1>4, <1>5 DEF WorkerStep

\* Neither does the timer, unless it connects, nor a remote end.
LEMMA TimerAsks ==
    ASSUME IInv, TimerStep \/ \E f \in Fd, what \in {"datagram", "fatal"} : Remote(f, what)
    PROVE  Connect(TRUE) \/ Asks
<1> USE DEF server
<1>0. TypeOK /\ Created /\ Timer \in Thread
  BY DEF IInv, Thread
<1>00. \A t \in Thread : asks[t] # 0 => life[asks[t]] # "none"
  BY <1>0 DEF Created
<1>1. CASE TimerStarts
  <2>1. \A t \in Thread : view'[t] \subseteq view[t] \cup active
    BY <1>0, <1>1 DEF TimerStarts, ActiveCopy, TypeOK
  <2> QED BY <1>00, <1>1, <2>1 DEF TimerStarts, Asks
<1>2. CASE Connect(FALSE)
  BY <1>00, <1>2 DEF Connect, Asks
<1>3. CASE ConnectAborts \/ PurgeDeleted \/ ConnectDone
  BY <1>00, <1>3 DEF ConnectAborts, PurgeDeleted, ConnectDone, Crash, Asks
<1>4. CASE \E c \in Client : PurgeExcess(c)
  <2>1. PICK c \in Client : PurgeExcess(c)
    BY <1>4
  <2>2. \A t \in Thread : asks'[t] # 0 => life[asks'[t]] # "none"
    BY <1>0, <2>1, DisconnectAsks DEF PurgeExcess
  <2>3. \A t \in Thread : view'[t] \subseteq view[t] \cup active
    BY <1>0, <2>1 DEF PurgeExcess, TypeOK
  <2> QED BY <2>1, <2>2, <2>3 DEF Asks, PurgeExcess
<1>5. CASE TimerSleeps
  <2>1. \A t \in Thread : view'[t] \subseteq view[t] \cup active
    BY <1>0, <1>5 DEF TimerSleeps, TypeOK
  <2> QED BY <1>00, <1>5, <2>1 DEF TimerSleeps, Asks
<1>6. CASE \E f \in Fd, what \in {"datagram", "fatal"} : Remote(f, what)
  BY <1>00, <1>6 DEF Remote, Asks
<1>7. ASSUME NEW made \in BOOLEAN, Connect(made) PROVE Connect(TRUE) \/ Asks
  BY <1>2, <1>7
<1>8. CASE RmlistAdd(Timer)
  BY <1>0, <1>8, RmlistAddAsks
<1> QED BY <1>1, <1>3, <1>4, <1>5, <1>6, <1>7, <1>8 DEF TimerStep

\* Each step moves clients or is one that asks.
LEMMA StepAsks ==
    ASSUME IInv, [Next]_vars
    PROVE  \/ Shrink \/ DetachNext \/ Grow \/ Purge \/ Scan
           \/ AcceptClient \/ Connect(TRUE) \/ Asks
<1>1. CASE UNCHANGED vars
  BY <1>1 DEF IInv, Created, vars, server, Asks
<1> QED BY <1>1, ServerAsks, WorkerAsks, TimerAsks DEF IInv, Next

\* What each thread knows of a new object: it is in wadd, and only the timer may
\* have it in its copy.
NewlyAttached ==
  \E c \in Client, f \in Fd :
    /\ life[c] = "none" /\ life' = [life EXCEPT ![c] = "alive"]
    /\ f # 0 /\ \A d \in Client : sock[d] # f
    /\ sock' = [sock EXCEPT ![c] = f]
    /\ wadd' = wadd \cup {c}
    /\ \A t \in Thread : view'[t] = view[t] \/ (t = Timer /\ view'[t] = view[t] \cup {c})
    /\ UNCHANGED <<clients, attic, wremove, active, busy, asks>>
    /\ UNCHANGED <<pc, list>> \/ (pc = "select" /\ pc' = "serve")

LEMMA NewlyAttachedIs ==
    ASSUME TypeOK, AcceptClient \/ Connect(TRUE)
    PROVE  NewlyAttached
<1>1. Uncreated # {} /\ FreeFds # {} /\ Attach(Min(Uncreated))
  BY DEF AcceptClient, Connect
<1> DEFINE c == Min(Uncreated)
           f == Min(FreeFds)
<1>2. /\ c \in Client /\ life[c] = "none" /\ f \in Fd /\ f # 0
      /\ \A d \in Client : sock[d] # f
  BY <1>1, NewClient
<1>3. /\ life' = [life EXCEPT ![c] = "alive"]
      /\ sock' = [sock EXCEPT ![c] = f] /\ wadd' = wadd \cup {c}
  BY <1>1 DEF Attach, CreateClient, WaddAdd
<1>4. /\ UNCHANGED <<clients, attic, wremove, active, busy, asks>>
      /\ UNCHANGED <<pc, list>> \/ (pc = "select" /\ pc' = "serve")
      /\ UNCHANGED view \/ view' = [view EXCEPT ![Timer] = @ \cup {c}]
  BY DEF AcceptClient, Selected, Connect, server
<1> HIDE DEF c, f
<1>5. \A t \in Thread : view'[t] = view[t] \/ (t = Timer /\ view'[t] = view[t] \cup {c})
  BY <1>4 DEF TypeOK
<1> QED BY <1>2, <1>3, <1>4, <1>5 DEF NewlyAttached

\* Every pointer stays one of an object that was created.
LEMMA CreatedStep ==
    ASSUME IInv, [Next]_vars
    PROVE  Created'
<1>0. /\ TypeOK /\ Placed /\ Sockets /\ Created /\ Members \subseteq Client
  BY MembersAre DEF IInv
<1>1. CASE Shrink
  <2>1. PICK s \in SetToSeqs(wremove) : list' = s
    BY <1>1 DEF Shrink
  <2>2. Range(s) \subseteq wremove
    BY <1>0, <2>1, Finite, SetToSeqsWalks
  <2> QED BY <1>0, <1>1, <2>1, <2>2 DEF Shrink, Created, TypeOK
<1>2. CASE DetachNext
  <2>1. Range(list') \subseteq Range(list)
    BY <1>0, <1>2, TailOfWalk DEF DetachNext, TypeOK
  <2> QED BY <1>0, <1>2, <2>1 DEF DetachNext, Created
<1>3. CASE Grow
  BY <1>0, <1>3 DEF Grow, Created
<1>4. CASE Purge
  BY <1>0, <1>4 DEF Purge, Created, TypeOK
<1>5. CASE Scan
  <2>1. \A c \in Members : life[c] = "alive"
    BY <1>0 DEF Placed
  <2> QED BY <1>0, <1>5, <2>1 DEF Scan, Created
<1>6. CASE AcceptClient \/ Connect(TRUE)
  <2>1. NewlyAttached
    BY <1>0, <1>6, NewlyAttachedIs
  <2>2. PICK c \in Client :
          /\ life' = [life EXCEPT ![c] = "alive"]
          /\ \A t \in Thread : view'[t] = view[t] \/ view'[t] = view[t] \cup {c}
          /\ UNCHANGED <<wremove, active, busy, asks>>
          /\ UNCHANGED <<pc, list>> \/ pc' = "serve"
    BY <2>1 DEF NewlyAttached
  <2>3. \A d \in Client : (d = c \/ life[d] # "none") => life'[d] # "none"
    BY <1>0, <2>2 DEF TypeOK
  <2>4. \A t \in Thread : /\ \A d \in view'[t] : life'[d] # "none"
                          /\ asks'[t] # 0 => life'[asks'[t]] # "none"
    BY <1>0, <2>2, <2>3 DEF Created, TypeOK
  <2>5. pc' = "detach" => \A d \in Range(list') : d \in Client /\ life'[d] # "none"
    BY <1>0, <2>2, <2>3 DEF Created
  <2> QED BY <1>0, <2>2, <2>3, <2>4, <2>5 DEF Created, TypeOK
<1>7. CASE Asks
  <2>1. \A c \in Members : life[c] = "alive"
    BY <1>0 DEF Placed
  <2>2. \A c \in wremove' : life[c] # "none"
    BY <1>0, <1>7 DEF Asks, Created
  <2>3. \A t \in Thread : \A c \in view'[t] : life[c] # "none"
    BY <1>0, <1>7 DEF Asks, Created
  <2>4. \A c \in Client : busy'[c] => life[c] # "none"
    BY <1>0, <1>7, <2>1 DEF Asks, Created
  <2> QED BY <1>0, <1>7, <2>2, <2>3, <2>4 DEF Asks, Created
<1> QED BY <1>1, <1>2, <1>3, <1>4, <1>5, <1>6, <1>7, StepAsks

-----------------------------------------------------------------------------
(* The server thread's walk and the workers *)

\* A step after which the descriptors watched or to be served are at most those
\* of before, still of the same clients, and nothing was read from them.
LEMMA ServingKept ==
    ASSUME TypeOK, Serving, UNCHANGED <<pc, list, selectable, clients>>,
           \A f \in Fd : clients[f] \in Client /\ sock[clients[f]] = f =>
                           sock'[clients[f]] = f /\ (busy'[clients[f]] => busy[clients[f]]),
           \A f \in Fd : Watched(f) /\ input[f] # "quiet" => input'[f] # "quiet"
    PROVE  Serving'
<1>1. \A f \in Fd : Watched(f) => Watched(f)'
  BY DEF Watched
<1> QED BY <1>1 DEF Serving, TypeOK

\* The walk of the server thread stays one over watched descriptors with input.
LEMMA ServerServing ==
    ASSUME IInv, Server \/ Accept
    PROVE  Serving'
<1>0. TypeOK /\ Sockets /\ Placed /\ Serving
  BY DEF IInv
<1>1. CASE Shrink \/ DetachNext
  <2>1. pc' = "detach"
    BY <1>1 DEF Shrink, DetachNext
  <2> QED BY <2>1 DEF Serving
<1>2. CASE Grow \/ Purge
  BY <1>0, <1>2 DEF Grow, Purge, Serving
<1>3. CASE Scan
  <2>1. /\ pc = "scan" /\ pc' = "select" /\ UNCHANGED <<list, sock, busy>>
        /\ selectable' = {sock[c] : c \in {d \in Members \ {e \in Members : sock[e] = 0} : ~busy[d]}}
    BY <1>3 DEF Scan
  <2>2. ASSUME NEW f \in selectable' PROVE Watched(f)'
    <3>1. PICK c \in Members : sock[c] = f /\ sock[c] # 0 /\ ~busy[c]
      BY <2>1, <2>2
    <3>2. PICK g \in Fd : clients[g] = c /\ c # 0
      BY <1>0, <3>1, MembersAre
    <3>3. g = f /\ c \in Client
      BY <1>0, <3>1, <3>2, MembersAre DEF Sockets
    <3>4. clients'[f] = c
      BY <1>0, <1>3, <3>1, <3>2, <3>3, ScanMoves
    <3> QED BY <2>1, <3>1, <3>3, <3>4 DEF Watched
  <2> QED BY <1>0, <2>1, <2>2 DEF Serving
<1>4. ASSUME Selected, \A c \in Members : sock'[c] = sock[c]
      PROVE  Serving'
  <2>1. PICK s \in SetToSeqs(Ready) : list' = s
    BY <1>4 DEF Selected
  <2>2. /\ \A i \in 1..Len(s) : s[i] \in Ready
        /\ \A i, j \in 1..Len(s) : i # j => s[i] # s[j]
    BY <1>0, <2>1, Finite, SetToSeqsWalks
  <2>3. pc = "select" /\ pc' = "serve" /\ UNCHANGED <<busy, clients, input>>
    BY <1>4 DEF Selected
  <2>4. \A f \in Ready : f \in Fd /\ Watched(f)' /\ input'[f] # "quiet"
    <3> TAKE f \in Ready
    <3>1. f \in Fd /\ Watched(f) /\ input[f] # "quiet"
      BY <1>0, <2>3 DEF Ready, Serving, TypeOK
    <3>2. clients[f] \in Members
      BY <1>0, <3>1, MembersAre DEF Watched, Client
    <3> QED BY <1>4, <2>3, <3>1, <3>2 DEF Watched
  <2> QED BY <2>1, <2>2, <2>3, <2>4 DEF Serving
<1>5. CASE Select \/ AcceptBanned
  <2>1. Selected /\ sock' = sock
    BY <1>5 DEF Select, AcceptBanned
  <2> QED BY <1>4, <2>1
<1>6. CASE AcceptClient
  <2>1. PICK c \in Client, f \in Fd : life[c] = "none" /\ sock' = [sock EXCEPT ![c] = f]
    BY <1>0, <1>6, NewlyAttachedIs DEF NewlyAttached
  <2>2. \A d \in Members : d # c /\ d \in Client
    BY <1>0, <2>1, MembersAre DEF Placed
  <2>3. \A d \in Members : sock'[d] = sock[d]
    BY <1>0, <2>1, <2>2 DEF TypeOK
  <2> QED BY <1>4, <1>6, <2>3 DEF AcceptClient
<1>7. CASE AcceptFails
  <2>1. pc = "select" /\ pc' = "serve" /\ list' = list
    BY <1>7 DEF AcceptFails
  <2>2. list' = <<>>
    BY <1>0, <2>1 DEF Serving
  <2> QED BY <2>1, <2>2 DEF Serving
<1>8. CASE ServeNext
  <2> DEFINE c == clients[Head(list)]
  <2>1. /\ list \in Seq(Client \cup Fd) /\ list # <<>> /\ pc = "serve" /\ pc' = "serve"
        /\ list' = Tail(list) /\ UNCHANGED <<clients, sock, input>>
        /\ busy' = busy \/ busy' = [busy EXCEPT ![c] = TRUE]
    BY <1>0, <1>8 DEF ServeNext, TypeOK
  <2>2. /\ Head(list) = list[1] /\ 1 \in 1..Len(list) /\ Len(list) \in Nat \ {0}
        /\ Len(list') = Len(list) - 1
        /\ \A i \in 1..Len(list') : list'[i] = list[i + 1] /\ i + 1 \in 1..Len(list)
    BY <2>1, TailOfWalk
  <2>3. \A i \in 1..Len(list') :
          list'[i] \in Fd /\ Watched(list'[i]) /\ input[list'[i]] # "quiet" /\ list'[i] # Head(list)
    <3> TAKE i \in 1..Len(list')
    <3>1. i + 1 # 1 /\ i + 1 \in 1..Len(list) /\ list'[i] = list[i + 1]
      BY <2>2
    <3> QED BY <1>0, <2>1, <2>2, <3>1 DEF Serving
  <2>4. sock[c] = Head(list)
    BY <1>0, <2>1, <2>2 DEF Serving, Watched
  <2> HIDE DEF c
  <2>5. \A f \in Fd : Watched(f) /\ f # Head(list) => Watched(f)'
    BY <1>0, <2>1, <2>4 DEF Watched, TypeOK
  <2>6. \A i \in 1..Len(list') : Watched(list[i])'
    BY <2>3, <2>5
  <2>7. \A i, j \in 1..Len(list') : i # j => list'[i] # list'[j]
    BY <1>0, <2>1, <2>2 DEF Serving
  <2> QED BY <2>1, <2>3, <2>6, <2>7 DEF Serving
<1>9. CASE GrowAborts \/ DetachDeleted
  BY <1>0, <1>9 DEF GrowAborts, DetachDeleted, Crash, server, Serving, Watched
<1> QED BY <1>1, <1>2, <1>3, <1>5, <1>6, <1>7, <1>8, <1>9 DEF Server, Accept, IInv

\* A worker reads only from the client it is on, which nobody watches.
LEMMA WorkerServing ==
    ASSUME IInv, NEW w \in Worker, WorkerStep(w)
    PROVE  Serving'
<1>0. TypeOK /\ Sockets /\ Serving
  BY DEF IInv
<1>1. CASE RmlistAdd(w) \/ Take(w) \/ RelayToDeleted(w) \/ RelayDone(w) \/ WakeServer(w)
           \/ \E c \in Client, fails \in BOOLEAN : RelayTo(w, c, fails)
  <2>1. UNCHANGED <<pc, list, selectable, clients, sock, busy, input>>
    BY <1>1 DEF RmlistAdd, Take, RelayTo, RelayToDeleted, RelayDone, WakeServer, Crash, server
  <2> QED BY <1>0, <2>1, ServingKept
<1>2. CASE Recv(w)
  <2> DEFINE c == work[w]
  <2>1. c \in Client /\ busy[c] /\ sock[c] # 0 /\ sock[c] \in Fd
    BY <1>0, <1>2 DEF Recv, IInv, Holding, WorkerOwnsItsClient, TypeOK
  <2>2. /\ UNCHANGED <<pc, list, selectable, clients, sock, busy>>
        /\ input' = [input EXCEPT ![sock[c]] = "quiet"]
    BY <1>2 DEF Recv, server
  <2> HIDE DEF c
  <2>3. \A f \in Fd : Watched(f) => f # sock[c]
    BY <1>0, <2>1 DEF Watched, Sockets
  <2>4. \A f \in Fd : Watched(f) /\ input[f] # "quiet" => input'[f] # "quiet"
    BY <1>0, <2>1, <2>2, <2>3 DEF TypeOK
  <2> QED BY <1>0, <2>2, <2>4, ServingKept
<1>3. CASE Release(w)
  <2>1. /\ UNCHANGED <<pc, list, selectable, clients, sock, input>>
        /\ busy' = [busy EXCEPT ![work[w]] = FALSE]
    BY <1>3 DEF Release, server
  <2>2. \A c \in Client : busy'[c] => busy[c]
    BY <1>0, <2>1 DEF TypeOK
  <2> QED BY <1>0, <2>1, <2>2, ServingKept
<1> QED BY <1>1, <1>2, <1>3 DEF WorkerStep

\* The timer and the remote ends do not disturb the walk.
LEMMA TimerServing ==
    ASSUME IInv, TimerStep \/ \E f \in Fd, what \in {"datagram", "fatal"} : Remote(f, what)
    PROVE  Serving'
<1>0. TypeOK /\ Placed /\ Serving
  BY DEF IInv
<1>1. CASE UNCHANGED <<pc, list, selectable, clients, sock, busy, input>>
  BY <1>0, <1>1, ServingKept
<1>2. CASE Connect(TRUE)
  <2>1. /\ UNCHANGED <<pc, list, selectable, clients, busy, input>>
        /\ \E c \in Client, f \in Fd : life[c] = "none" /\ sock' = [sock EXCEPT ![c] = f]
    BY <1>0, <1>2, NewlyAttachedIs DEF Connect, server, NewlyAttached
  <2>2. \A g \in Fd : clients[g] \in Client => sock'[clients[g]] = sock[clients[g]]
    <3> SUFFICES ASSUME NEW g \in Fd, clients[g] \in Client
                 PROVE  sock'[clients[g]] = sock[clients[g]]
      OBVIOUS
    <3>1. life[clients[g]] = "alive"
      BY <1>0, MembersAre DEF Placed, Client
    <3> QED BY <1>0, <2>1, <3>1 DEF TypeOK
  <2> QED BY <1>0, <2>1, <2>2, ServingKept
<1>3. CASE \E f \in Fd, what \in {"datagram", "fatal"} : Remote(f, what)
  <2>1. PICK f \in Fd, what \in {"datagram", "fatal"} : Remote(f, what)
    BY <1>3
  <2>2. /\ UNCHANGED <<pc, list, selectable, clients, sock, busy>>
        /\ input' = [input EXCEPT ![f] = what]
    BY <2>1 DEF Remote, server
  <2>3. \A g \in Fd : input[g] # "quiet" => input'[g] # "quiet"
    BY <1>0, <2>2 DEF TypeOK
  <2> QED BY <1>0, <2>2, <2>3, ServingKept
<1>4. ASSUME TimerStep
      PROVE  Connect(TRUE) \/ UNCHANGED <<pc, list, selectable, clients, sock, busy, input>>
  <2>1. ASSUME Connect(FALSE) PROVE UNCHANGED <<pc, list, selectable, clients, sock, busy, input>>
    BY <2>1 DEF Connect, server
  <2> QED BY <1>4, <2>1 DEF TimerStep, RmlistAdd, TimerStarts, ConnectAborts, ConnectDone, PurgeExcess,
                            PurgeDeleted, TimerSleeps, Crash, server
<1> QED BY <1>1, <1>2, <1>3, <1>4

\* A step that takes nothing from a worker's client.
LEMMA OwnsKept ==
    ASSUME TypeOK, Holding, WorkerOwnsItsClient, UNCHANGED <<jobs, wpc, work>>,
           \A c \in Client : busy[c] /\ life[c] = "alive" /\ sock[c] # 0 =>
             /\ busy'[c] /\ life'[c] = "alive" /\ sock'[c] = sock[c]
             /\ input[sock[c]] # "quiet" => input'[sock[c]] # "quiet"
    PROVE  Holding' /\ WorkerOwnsItsClient'
<1>1. Holding'
  BY DEF Holding
<1>2. jobs \subseteq Client /\ \A w \in Worker : work[w] # 0 => work[w] \in Client
  BY DEF TypeOK
<1>3. WorkerOwnsItsClient'
  BY <1>2 DEF WorkerOwnsItsClient
<1> QED BY <1>1, <1>3

\* The server thread closes, deletes and reopens nothing a worker is on.
LEMMA ServerOwns ==
    ASSUME IInv, Server \/ Accept
    PROVE  Holding' /\ WorkerOwnsItsClient'
<1>0. TypeOK /\ Sockets /\ Placed /\ Serving /\ Created /\ Holding /\ WorkerOwnsItsClient
  BY DEF IInv
<1>1. CASE UNCHANGED <<jobs, wpc, work, busy, life, sock, input>>
  BY <1>0, <1>1, OwnsKept
<1>2. CASE DetachNext
  <2> DEFINE c == Head(list)
  <2>1. c \in Client
    BY <1>0, <1>2, TailOfWalk DEF DetachNext, TypeOK, Created
  <2>2. /\ ~busy[c] /\ sock' = [sock EXCEPT ![c] = 0]
        /\ input' = [f \in Fd |-> IF f = sock[c] THEN "quiet" ELSE input[f]]
        /\ UNCHANGED <<jobs, wpc, work, busy, life>>
    BY <1>2 DEF DetachNext, pool
  <2> HIDE DEF c
  <2>3. \A d \in Client : busy[d] /\ sock[d] # 0 =>
          sock[d] \in Fd /\ sock'[d] = sock[d] /\ sock[d] # sock[c]
    BY <1>0, <2>1, <2>2 DEF TypeOK, Sockets
  <2>4. \A d \in Client : busy[d] /\ sock[d] # 0 => input'[sock[d]] = input[sock[d]]
    BY <2>2, <2>3
  <2> QED BY <1>0, <2>2, <2>3, <2>4, OwnsKept
<1>3. CASE Purge
  <2>1. /\ life' = [c \in Client |-> IF c \in {d \in attic : ~busy[d]} THEN "deleted" ELSE life[c]]
        /\ UNCHANGED <<jobs, wpc, work, busy, sock, input>>
    BY <1>3 DEF Purge, pool
  <2>2. \A c \in Client : busy[c] => life'[c] = life[c]
    BY <2>1
  <2> QED BY <1>0, <2>1, <2>2, OwnsKept
<1>4. CASE AcceptClient
  <2>1. PICK c \in Client, f \in Fd :
          /\ life[c] = "none" /\ life' = [life EXCEPT ![c] = "alive"]
          /\ sock' = [sock EXCEPT ![c] = f]
    BY <1>0, <1>4, NewlyAttachedIs DEF NewlyAttached
  <2>2. UNCHANGED <<jobs, wpc, work, busy, input>>
    BY <1>4 DEF AcceptClient, Selected, pool
  <2>3. \A d \in Client : life[d] = "alive" => life'[d] = "alive" /\ sock'[d] = sock[d]
    BY <1>0, <2>1 DEF TypeOK
  <2> QED BY <1>0, <2>2, <2>3, OwnsKept
<1>5. CASE ServeNext
  <2> DEFINE c == clients[Head(list)]
  <2>1. list \in Seq(Client \cup Fd) /\ list # <<>> /\ pc = "serve"
    BY <1>0, <1>5 DEF ServeNext, TypeOK
  <2>2. /\ Head(list) \in Fd /\ c \in Client /\ sock[c] = Head(list) /\ ~busy[c]
        /\ input[sock[c]] # "quiet" /\ sock[c] # 0
    BY <1>0, <2>1, TailOfWalk DEF Serving, Watched, Fd
  <2>3. life[c] = "alive"
    BY <1>0, <2>2 DEF Sockets
  <2>4. /\ busy' = [busy EXCEPT ![c] = TRUE] /\ (jobs' = jobs \/ jobs' = jobs \cup {c})
        /\ UNCHANGED <<life, sock, input, wpc, work>>
    BY <1>5, <2>2 DEF ServeNext
  <2> HIDE DEF c
  <2>5. \A w \in Worker : work[w] # c
    BY <1>0, <2>2 DEF WorkerOwnsItsClient, Client
  <2>6. busy'[c] /\ \A d \in Client : busy[d] => busy'[d]
    BY <1>0, <2>2, <2>4 DEF TypeOK
  <2>7. jobs \subseteq Client /\ \A w \in Worker : work[w] # 0 => work[w] \in Client
    BY <1>0 DEF TypeOK
  <2> QED BY <1>0, <2>2, <2>3, <2>4, <2>5, <2>6, <2>7 DEF Holding, WorkerOwnsItsClient
<1>6. CASE Shrink \/ DetachDeleted \/ Grow \/ GrowAborts \/ Scan \/ Select \/ AcceptBanned \/ AcceptFails
  BY <1>1, <1>6 DEF Shrink, DetachDeleted, Grow, GrowAborts, Crash, Scan, Select, AcceptBanned, Selected,
                    AcceptFails, pool
<1> QED BY <1>2, <1>3, <1>4, <1>5, <1>6 DEF Server, Accept

\* A worker disturbs no client but its own.
LEMMA WorkerOwns ==
    ASSUME IInv, NEW w \in Worker, WorkerStep(w)
    PROVE  Holding' /\ WorkerOwnsItsClient'
<1>0. /\ TypeOK /\ Sockets /\ Holding /\ WorkerOwnsItsClient
      /\ jobs \subseteq Client /\ 0 \notin Client
      /\ \A v \in Worker : work[v] # 0 => work[v] \in Client
  BY DEF IInv, TypeOK, Client
<1>1. CASE Take(w)
  <2>1. PICK c \in jobs : jobs' = jobs \ {c} /\ work' = [work EXCEPT ![w] = c]
    BY <1>1 DEF Take
  <2>2. /\ wpc' = [wpc EXCEPT ![w] = "recv"]
        /\ UNCHANGED <<life, sock, busy, input>>
    BY <1>1 DEF Take
  <2>3. \A v \in Worker : /\ v # w => work'[v] = work[v] /\ wpc'[v] = wpc[v]
                          /\ work'[w] = c /\ wpc'[w] = "recv"
    BY <1>0, <2>1, <2>2 DEF TypeOK
  <2>4. Holding'
    BY <1>0, <2>1, <2>3 DEF Holding
  <2>5. WorkerOwnsItsClient'
    BY <1>0, <2>1, <2>2, <2>3 DEF WorkerOwnsItsClient
  <2> QED BY <2>4, <2>5
<1>2. CASE Recv(w)
  <2> DEFINE c == work[w]
  <2>1. c \in Client /\ c # 0 /\ busy[c] /\ sock[c] # 0 /\ sock[c] \in Fd /\ wpc[w] = "recv"
    BY <1>0, <1>2 DEF Recv, Holding, WorkerOwnsItsClient, TypeOK
  <2>2. /\ UNCHANGED <<life, sock, busy, jobs, work>>
        /\ input' = [input EXCEPT ![sock[c]] = "quiet"]
        /\ wpc' = [wpc EXCEPT ![w] = "relay"] \/ wpc' = [wpc EXCEPT ![w] = "finish"]
    BY <1>2 DEF Recv
  <2>3. \A v \in Worker : /\ v # w => wpc'[v] = wpc[v]
                          /\ wpc'[w] \in {"relay", "finish"}
    BY <1>0, <2>2 DEF TypeOK
  <2>4. Holding'
    BY <1>0, <2>1, <2>2, <2>3 DEF Holding
  <2>5. \A d \in Client : d # c /\ sock[d] # 0 => input'[sock[d]] = input[sock[d]]
    BY <1>0, <2>1, <2>2 DEF Sockets, TypeOK
  <2>6. c \notin jobs /\ \A v \in Worker : v # w => work[v] # c
    BY <1>0, <2>1 DEF WorkerOwnsItsClient
  <2>7. WorkerOwnsItsClient'
    BY <1>0, <2>2, <2>3, <2>5, <2>6 DEF WorkerOwnsItsClient
  <2> QED BY <2>4, <2>7
<1>3. CASE RmlistAdd(w) \/ RelayToDeleted(w) \/ \E c \in Client, fails \in BOOLEAN : RelayTo(w, c, fails)
  <2>1. UNCHANGED <<jobs, wpc, work, busy, life, sock, input>>
    BY <1>3 DEF RmlistAdd, RelayTo, RelayToDeleted, Crash, pool
  <2> QED BY <1>0, <2>1, OwnsKept
<1>4. CASE RelayDone(w) \/ WakeServer(w)
  <2>1. /\ \/ wpc[w] = "relay" /\ wpc' = [wpc EXCEPT ![w] = "finish"]
           \/ wpc[w] = "wake" /\ wpc' = [wpc EXCEPT ![w] = "idle"]
        /\ UNCHANGED <<life, sock, busy, input, jobs, work>>
    BY <1>4 DEF RelayDone, WakeServer
  <2>2. \A v \in Worker : /\ v # w => wpc'[v] = wpc[v]
                          /\ wpc'[v] # "recv" \/ wpc[v] = "recv"
    BY <1>0, <2>1 DEF TypeOK
  <2>3. Holding'
    BY <1>0, <2>1 DEF Holding, TypeOK
  <2>4. WorkerOwnsItsClient'
    BY <1>0, <2>1, <2>2 DEF WorkerOwnsItsClient
  <2> QED BY <2>3, <2>4
<1>5. CASE Release(w)
  <2> DEFINE c == work[w]
  <2>1. c \in Client /\ c # 0
    BY <1>0, <1>5 DEF Release, Holding
  <2>2. /\ busy' = [busy EXCEPT ![c] = FALSE] /\ work' = [work EXCEPT ![w] = 0]
        /\ wpc' = [wpc EXCEPT ![w] = "wake"]
        /\ UNCHANGED <<life, sock, input, jobs>>
    BY <1>5 DEF Release
  <2>3. c \notin jobs /\ \A v \in Worker : v # w => work[v] # c
    BY <1>0, <2>1 DEF WorkerOwnsItsClient
  <2> HIDE DEF c
  <2>4. /\ \A v \in Worker : v # w => work'[v] = work[v] /\ wpc'[v] = wpc[v]
        /\ work'[w] = 0 /\ wpc'[w] = "wake"
        /\ \A d \in Client : d # c => busy'[d] = busy[d]
    BY <1>0, <2>1, <2>2 DEF TypeOK
  <2>5. Holding'
    BY <1>0, <2>4 DEF Holding
  <2>6. WorkerOwnsItsClient'
    BY <1>0, <2>2, <2>3, <2>4 DEF WorkerOwnsItsClient
  <2> QED BY <2>5, <2>6
<1> QED BY <1>1, <1>2, <1>3, <1>4, <1>5 DEF WorkerStep

\* Neither the timer nor a remote end takes a client from a worker.
LEMMA TimerOwns ==
    ASSUME IInv, TimerStep \/ \E f \in Fd, what \in {"datagram", "fatal"} : Remote(f, what)
    PROVE  Holding' /\ WorkerOwnsItsClient'
<1>0. TypeOK /\ Holding /\ WorkerOwnsItsClient
  BY DEF IInv
<1>1. CASE UNCHANGED <<jobs, wpc, work, busy, life, sock, input>>
  BY <1>0, <1>1, OwnsKept
<1>2. CASE Connect(TRUE)
  <2>1. PICK c \in Client, f \in Fd :
          /\ life[c] = "none" /\ life' = [life EXCEPT ![c] = "alive"]
          /\ sock' = [sock EXCEPT ![c] = f]
    BY <1>0, <1>2, NewlyAttachedIs DEF NewlyAttached
  <2>2. UNCHANGED <<jobs, wpc, work, busy, input>>
    BY <1>2 DEF Connect, pool
  <2>3. \A d \in Client : life[d] = "alive" => life'[d] = "alive" /\ sock'[d] = sock[d]
    BY <1>0, <2>1 DEF TypeOK
  <2> QED BY <1>0, <2>2, <2>3, OwnsKept
<1>3. CASE \E f \in Fd, what \in {"datagram", "fatal"} : Remote(f, what)
  <2>1. PICK f \in Fd, what \in {"datagram", "fatal"} : Remote(f, what)
    BY <1>3
  <2>2. /\ UNCHANGED <<jobs, wpc, work, busy, life, sock>>
        /\ input' = [input EXCEPT ![f] = what]
    BY <2>1 DEF Remote, pool
  <2>3. \A g \in Fd : input[g] # "quiet" => input'[g] # "quiet"
    BY <1>0, <2>2 DEF TypeOK
  <2>4. \A c \in Client : sock[c] # 0 => sock[c] \in Fd
    BY <1>0 DEF TypeOK
  <2> QED BY <1>0, <2>2, <2>3, <2>4, OwnsKept
<1>4. ASSUME TimerStep
      PROVE  Connect(TRUE) \/ UNCHANGED <<jobs, wpc, work, busy, life, sock, input>>
  <2>1. ASSUME Connect(FALSE) PROVE UNCHANGED <<jobs, wpc, work, busy, life, sock, input>>
    BY <2>1 DEF Connect, pool
  <2> QED BY <1>4, <2>1 DEF TimerStep, RmlistAdd, TimerStarts, ConnectAborts, ConnectDone, PurgeExcess,
                            PurgeDeleted, TimerSleeps, Crash, pool
<1> QED BY <1>1, <1>2, <1>3, <1>4

\* Every step keeps the walk and the workers' clients.
LEMMA OwnsStep ==
    ASSUME IInv, [Next]_vars
    PROVE  Serving' /\ Holding' /\ WorkerOwnsItsClient'
<1>1. CASE UNCHANGED vars
  <2>1. TypeOK /\ Serving /\ Holding /\ WorkerOwnsItsClient
    BY DEF IInv
  <2>2. UNCHANGED <<pc, list, selectable, clients, sock, busy, input, jobs, wpc, work, life>>
    BY <1>1 DEF vars, server, pool
  <2> QED BY <2>1, <2>2, ServingKept, OwnsKept
<1> QED BY <1>1, ServerServing, WorkerServing, TimerServing, ServerOwns, WorkerOwns,
           TimerOwns DEF Next

-----------------------------------------------------------------------------
(* The theorems *)

\* A client is in one box at most, and in one exactly while it exists.
LEMMA CountsOne ==
    ASSUME Placed
    PROVE  \A c \in Client :
             Cardinality({b \in {<<"wadd", wadd>>, <<"main", Members>>,
                                 <<"attic", attic>>} : c \in b[2]})
               = (IF life[c] = "alive" THEN 1 ELSE 0)
<1> TAKE c \in Client
<1> DEFINE Boxes == {<<"wadd", wadd>>, <<"main", Members>>, <<"attic", attic>>}
           In == {b \in Boxes : c \in b[2]}
<1>1. CASE c \in wadd
  <2>1. In = {<<"wadd", wadd>>} /\ life[c] = "alive"
    BY <1>1 DEF Placed
  <2> QED BY <2>1, FS_Singleton
<1>2. CASE c \in Members
  <2>1. In = {<<"main", Members>>} /\ life[c] = "alive"
    BY <1>2 DEF Placed
  <2> QED BY <2>1, FS_Singleton
<1>3. CASE c \in attic
  <2>1. In = {<<"attic", attic>>} /\ life[c] = "alive"
    BY <1>3 DEF Placed
  <2> QED BY <2>1, FS_Singleton
<1>4. CASE c \notin wadd \cup Members \cup attic
  <2>1. In = {} /\ life[c] # "alive"
    BY <1>4 DEF Placed
  <2> QED BY <2>1, FS_EmptySet
<1> QED BY <1>1, <1>2, <1>3, <1>4

\* The inductive invariant holds throughout.
THEOREM Inductive == Spec => []IInv
<1>1. IInv /\ [Next]_vars => IInv'
  BY TypeStep, ContainersStep, CreatedStep, OwnsStep DEF IInv
<1> QED BY InitIInv, <1>1, PTL DEF Spec

\* A client handed to the pool stays open, alive and readable until its worker
\* is done with it, and no other worker gets it: closing (on_detach), deleting
\* (attic purge) and reusing descriptors never reach it.
THEOREM WorkersOwn == Spec => []WorkerOwnsItsClient
<1>1. IInv => WorkerOwnsItsClient
  BY DEF IInv
<1> QED BY Inductive, <1>1, PTL

\* Every client object that exists is in exactly one container of the socket
\* server, under its own descriptor if it is open, so it is deleted once and is
\* not lost, although a request to leave may come after it is gone (rmlist::add).
THEOREM OneContainer == Spec => []InOneContainer
<1>1. IInv => InOneContainer
  <2> SUFFICES ASSUME IInv PROVE InOneContainer
    OBVIOUS
  <2>1. \A c \in Members : sock[c] # 0 => clients[sock[c]] = c
    BY MembersAre DEF IInv, Sockets
  <2> QED BY <2>1, CountsOne DEF IInv, InOneContainer, Sockets
<1> QED BY Inductive, <1>1, PTL

=============================================================================
