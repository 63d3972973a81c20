------------------------------- MODULE Clients -------------------------------
(***************************************************************************)
(* The connections of a node: who may use a client object, which container *)
(* it is in and when it is closed and deleted.                             *)
(*                                                                         *)
(*   - the server thread (socket/server.cpp run) loops: shrink, grow,      *)
(*     purge, scan, select, serve;                                         *)
(*   - the workers of the pool (socket/daemon.cpp process_work) read and   *)
(*     process one datagram of one client and may relay it to others;      *)
(*   - the timer thread (peer/daemon.cpp daemon_timer) connects to new     *)
(*     peers and disconnects the ones in excess.                           *)
(*                                                                         *)
(* Only the server thread closes, deletes or moves a client that is        *)
(* attached; the others ask for it by adding it to wremove and writing a   *)
(* byte to the loopback connection.  A client object is numbered by its    *)
(* creation and its memory is not reused.  purge_slow and check_latency    *)
(* are left out: no code sets the stages they look for.                    *)
(***************************************************************************)
EXTENDS Integers, FiniteSets, FiniteSetsExt, Sequences, SequencesExt

CONSTANTS MaxClient,   \* bound: client objects ever created
          MaxFd,       \* file descriptors the process may have open
          MaxInput,    \* bound: what the remote ends send
          MaxTick,     \* bound: times the timer runs
          Worker,      \* the threads of the pool
          edges        \* the neighbours the peer daemon wants

ASSUME ClientsAssumption ==
  /\ MaxClient \in Nat \ {0} /\ MaxFd \in Nat \ {0}
  /\ MaxInput \in Nat /\ MaxTick \in Nat /\ edges \in Nat
  /\ IsFiniteSet(Worker) /\ "timer" \notin Worker   \* the timer is not of the pool

VARIABLES
  life,       \* of each object: "none" (not created), "alive" or "deleted"
  sock,       \* its file descriptor; 0 once closed
  busy,       \* client.busy: between serve and the end of process_work
  clients,    \* the main container: the client kept under each fd, or 0
  wadd, wremove, attic,   \* waiting to enter, asked to leave, waiting for delete
  active,     \* clients.active_: the snapshot the other threads are given
  pc, list,   \* the server thread: its step and the sequence it walks through
  selectable, \* the fds given to select
  wake,       \* a byte is waiting on the loopback connection
  input,      \* what is to be read from each fd
  sent,       \* inputs sent by the remote ends so far
  jobs,       \* clients pushed to the pool and not yet taken by a worker
  wpc, work,  \* of each worker: its step and its client (0 when idle)
  tpc, tries, \* the timer thread: its step and the connections left to try
  ticks,      \* the times it has run
  view,       \* of each thread: the copy of active() it walks through
  asks,       \* of each thread: the client it is about to add to wremove, or 0
  crashed     \* "no", or what ended the process

server == <<pc, list, selectable>>
pool == <<jobs, wpc, work>>
timer == <<tpc, tries, ticks>>
vars == <<life, sock, busy, clients, wadd, wremove, attic, active, server,
          wake, input, sent, pool, timer, view, asks, crashed>>

Client == 1..MaxClient
Fd == 1..MaxFd
Timer == "timer"
Thread == Worker \cup {Timer}

\* The kernel hands out the lowest descriptor that is not open.
FreeFds == Fd \ {sock[c] : c \in Client}
Uncreated == {c \in Client : life[c] = "none"}
Members == {clients[f] : f \in Fd} \ {0}

Init ==
  /\ life = [c \in Client |-> "none"]
  /\ sock = [c \in Client |-> 0]
  /\ busy = [c \in Client |-> FALSE]
  /\ clients = [f \in Fd |-> 0]
  /\ wadd = {} /\ wremove = {} /\ attic = {} /\ active = {}
  /\ pc = "serve" /\ list = <<>> /\ selectable = {}
  /\ wake = FALSE
  /\ input = [f \in Fd |-> "quiet"]
  /\ sent = 0
  /\ jobs = {}
  /\ wpc = [w \in Worker |-> "idle"] /\ work = [w \in Worker |-> 0]
  /\ tpc = "sleep" /\ tries = 0 /\ ticks = 0
  /\ view = [t \in Thread |-> {}] /\ asks = [t \in Thread |-> 0]
  /\ crashed = "no"

\* An assert fails, or a deleted object is used: the process is gone.
Crash(what) ==
  /\ crashed' = what
  /\ UNCHANGED <<life, sock, busy, clients, wadd, wremove, attic, active,
                 server, wake, input, sent, pool, timer, view, asks>>

\* disconnect() of a managed client, clients_t::remove: rmlist::add refuses a
\* closed client.  The thread takes the lock after it has looked.
Disconnect(t, c) == asks' = [asks EXCEPT ![t] = IF sock[c] = 0 THEN 0 ELSE c]

Mut_RmlistAdd(t) ==
  /\ asks[t] # 0
  /\ wremove' = wremove \cup {asks[t]}
  /\ asks' = [asks EXCEPT ![t] = 0]
  /\ UNCHANGED <<life, sock, busy, clients, wadd, attic, active, server, wake,
                 input, sent, pool, timer, view, crashed>>

\* Then the client enters wremove, whatever has become of it, and the server
\* thread is woken up.
RmlistAdd(t) ==
  /\ asks[t] # 0
  /\ wremove' = wremove \cup {asks[t]}
  /\ wake' = TRUE
  /\ asks' = [asks EXCEPT ![t] = 0]
  /\ UNCHANGED <<life, sock, busy, clients, wadd, attic, active, server, input,
                 sent, pool, timer, view, crashed>>

\* wait::add
WaddAdd(c) == wadd' = wadd \cup {c}

\* wait::remove: a client that waits for the main container and is asked to
\* leave goes to the attic.
WaddRemove(c) ==
  /\ wadd' = wadd \ {c}
  /\ attic' = IF c \in wadd THEN attic \cup {c} ELSE attic

\* create_client and client::client: a new object that owns the lowest free
\* descriptor, whether accept or connect opened it.
CreateClient(c) ==
  /\ life' = [life EXCEPT ![c] = "alive"]
  /\ sock' = [sock EXCEPT ![c] = Min(FreeFds)]

\* daemon::attach, clients_t::add: it waits in wadd.
Attach(c) == CreateClient(c) /\ WaddAdd(c)

-----------------------------------------------------------------------------
(* The server thread *)

\* The loop starts again (all ready descriptors are served): shrink takes its
\* copy of wremove; the order of an unordered_set is any.
Shrink ==
  /\ pc = "serve" /\ list = <<>>
  /\ \E s \in SetToSeqs(wremove) : list' = s
  /\ wremove' = {}
  /\ pc' = "detach"
  /\ UNCHANGED <<life, sock, busy, clients, wadd, attic, active, selectable,
                 wake, input, sent, pool, timer, view, asks, crashed>>

Mut_DetachNext ==
  /\ pc = "detach" /\ list # <<>>
  /\ LET c == Head(list) IN
       /\ sock' = [sock EXCEPT ![c] = 0]
       /\ input' = [f \in Fd |-> IF f = sock[c] THEN "quiet" ELSE input[f]]
       /\ WaddRemove(c)
  /\ list' = Tail(list)
  /\ UNCHANGED <<life, busy, clients, wremove, active, pc, selectable, wake,
                 sent, pool, timer, view, asks, crashed>>

\* on_detach spins until the client is not busy and closes it.  Only then is
\* the main container searched, for descriptor 0: the client is not found and
\* stays there, under its old descriptor, until the scan.
DetachNext ==
  /\ pc = "detach" /\ list # <<>>
  /\ LET c == Head(list) IN
       /\ life[c] = "alive" /\ ~busy[c]
       /\ sock' = [sock EXCEPT ![c] = 0]
       /\ input' = [f \in Fd |-> IF f = sock[c] THEN "quiet" ELSE input[f]]
       /\ WaddRemove(c)
  /\ list' = Tail(list)
  /\ UNCHANGED <<life, busy, clients, wremove, active, pc, selectable, wake,
                 sent, pool, timer, view, asks, crashed>>

\* The request came after the client was deleted: on_detach is called on what
\* was its memory.
DetachDeleted ==
  /\ pc = "detach" /\ list # <<>> /\ life[Head(list)] # "alive"
  /\ Crash("dangling")

\* The asserts of grow: a client may enter under a descriptor nobody is kept
\* under.
Enterable == \A c \in wadd : sock[c] # 0 /\ clients[sock[c]] = 0

Grow ==
  /\ pc = "detach" /\ list = <<>> /\ Enterable
  /\ clients' = [f \in Fd |-> IF \E c \in wadd : sock[c] = f
                              THEN CHOOSE c \in wadd : sock[c] = f
                              ELSE clients[f]]
  /\ wake' = (wake \/ wadd # {})
  /\ wadd' = {}
  /\ pc' = "purge"
  /\ UNCHANGED <<life, sock, busy, wremove, attic, active, list, selectable,
                 input, sent, pool, timer, view, asks, crashed>>

GrowAborts ==
  /\ pc = "detach" /\ list = <<>> /\ ~Enterable
  /\ Crash("assert")

\* attic.purge deletes those no worker is on.
Purge ==
  /\ pc = "purge"
  /\ LET gone == {c \in attic : ~busy[c]} IN
       /\ life' = [c \in Client |-> IF c \in gone THEN "deleted" ELSE life[c]]
       /\ attic' = attic \ gone
  /\ pc' = "scan"
  /\ UNCHANGED <<sock, busy, clients, wadd, wremove, active, list, selectable,
                 wake, input, sent, pool, timer, view, asks, crashed>>

Mut_Scan ==
  /\ pc = "scan"
  /\ LET closed == {c \in Members : sock[c] = 0} IN
       /\ \A c \in closed : ~busy[c]
       /\ selectable' = {sock[c] : c \in {d \in Members \ closed : ~busy[d]}}
       /\ active' = Members \ closed
       /\ attic' = attic \cup closed
  /\ pc' = "select"
  /\ UNCHANGED <<life, sock, busy, clients, wadd, wremove, list, wake, input, sent,
                 pool, timer, view, asks, crashed>>

\* The rest of update: the open clients are listed, the closed ones leave (on_detach
\* spins again until they are not busy).
Scan ==
  /\ pc = "scan"
  /\ LET closed == {c \in Members : sock[c] = 0} IN
       /\ \A c \in closed : ~busy[c]
       /\ selectable' = {sock[c] : c \in {d \in Members \ closed : ~busy[d]}}
       /\ active' = Members \ closed
       /\ attic' = attic \cup closed
       /\ clients' = [f \in Fd |-> IF clients[f] \in closed THEN 0 ELSE clients[f]]
  /\ pc' = "select"
  /\ UNCHANGED <<life, sock, busy, wadd, wremove, list, wake, input, sent, pool,
                 timer, view, asks, crashed>>

Ready == {f \in selectable : input[f] # "quiet"}

\* select returns: the loopback byte is consumed and the descriptors with input
\* are served, after at most one connection is accepted.
Selected ==
  /\ pc = "select"
  /\ \E s \in SetToSeqs(Ready) : list' = s
  /\ wake' = FALSE
  /\ pc' = "serve"
  /\ UNCHANGED <<busy, clients, wremove, attic, active, selectable, input, sent,
                 pool, timer, view, asks, crashed>>

\* Nobody connects, or somebody whose address is banned: the new object is
\* deleted at once and its descriptor closed with it.
Select == (wake \/ Ready # {}) /\ Selected /\ UNCHANGED <<life, sock, wadd>>
AcceptBanned == Selected /\ UNCHANGED <<life, sock, wadd>>

AcceptClient ==
  /\ Uncreated # {} /\ FreeFds # {}
  /\ Selected
  /\ Attach(Min(Uncreated))

\* accept fails and nobody is served this time: a remote end gave up before
\* it was accepted, or no descriptor is free and the connection stays pending.
AcceptFails ==
  /\ pc = "select"
  /\ FreeFds = {} \/ sent < MaxInput
  /\ sent' = IF FreeFds = {} THEN sent ELSE sent + 1
  /\ wake' = FALSE
  /\ pc' = "serve"
  /\ UNCHANGED <<life, sock, busy, clients, wadd, wremove, attic, active, list,
                 selectable, input, pool, timer, view, asks, crashed>>

\* clients_t::active, connected_peers: a copy of the list of the last scan.
ActiveCopy == active

\* pool->n_idle: a thread that has a job waiting for it still counts as idle.
NIdle == Cardinality({w \in Worker : wpc[w] = "idle"})

\* The client of the next ready descriptor becomes busy and goes to the pool,
\* receive_and_process; with no idle worker its connection is dropped (no other
\* thread closes clients, so looking and adding are one step here).
ServeNext ==
  /\ pc = "serve" /\ list # <<>>
  /\ list' = Tail(list)
  /\ LET c == clients[Head(list)] IN
       IF busy[c]
       THEN UNCHANGED <<busy, jobs, wremove, wake>>
       ELSE /\ busy' = [busy EXCEPT ![c] = TRUE]
            /\ IF NIdle > 0
               THEN jobs' = jobs \cup {c} /\ UNCHANGED <<wremove, wake>>
               ELSE wremove' = wremove \cup {c} /\ wake' = TRUE /\ UNCHANGED jobs
  /\ UNCHANGED <<life, sock, clients, wadd, attic, active, pc, selectable,
                 input, sent, wpc, work, timer, view, asks, crashed>>

\* What the server thread does by itself, and when somebody connects.
Server ==
  /\ crashed = "no"
  /\ \/ Shrink \/ DetachNext \/ DetachDeleted
     \/ Grow \/ GrowAborts \/ Purge \/ Scan
     \/ Select \/ ServeNext

Accept ==
  /\ crashed = "no"
  /\ AcceptBanned \/ AcceptClient \/ AcceptFails

-----------------------------------------------------------------------------
(* The workers *)

\* A waiting thread of the pool pops a job.
Take(w) ==
  /\ wpc[w] = "idle" /\ \E c \in jobs :
       /\ jobs' = jobs \ {c}
       /\ work' = [work EXCEPT ![w] = c]
  /\ wpc' = [wpc EXCEPT ![w] = "recv"]
  /\ UNCHANGED <<life, sock, busy, clients, wadd, wremove, attic, active,
                 server, wake, input, sent, timer, view, asks, crashed>>

\* recv reads what is there: a closed connection and a datagram no service
\* knows disconnect the client; a datagram that is processed may be relayed to
\* the clients of a copy of active().
Recv(w) ==
  /\ wpc[w] = "recv"
  /\ LET c == work[w] IN
       /\ input[sock[c]] # "quiet"
       /\ input' = [input EXCEPT ![sock[c]] = "quiet"]
       /\ IF input[sock[c]] = "datagram"
          THEN /\ wpc' = [wpc EXCEPT ![w] = "relay"]
               /\ view' = [view EXCEPT ![w] = ActiveCopy \ {c}]
               /\ UNCHANGED asks
          ELSE /\ wpc' = [wpc EXCEPT ![w] = "finish"]
               /\ Disconnect(w, c)
               /\ UNCHANGED view
  /\ UNCHANGED <<life, sock, busy, clients, wadd, wremove, attic, active, server,
                 wake, sent, jobs, work, timer, crashed>>

\* A pointer of the copy is used: client::send skips a closed socket, and a
\* failing one is disconnected.
RelayTo(w, c, fails) ==
  /\ wpc[w] = "relay" /\ c \in view[w] /\ life[c] = "alive"
  /\ view' = [view EXCEPT ![w] = @ \ {c}]
  /\ IF fails THEN Disconnect(w, c) ELSE UNCHANGED asks
  /\ UNCHANGED <<life, sock, busy, clients, wadd, wremove, attic, active, server,
                 wake, input, sent, pool, timer, crashed>>

RelayToDeleted(w) ==
  /\ wpc[w] = "relay" /\ \E c \in view[w] : life[c] # "alive"
  /\ Crash("dangling")

RelayDone(w) ==
  /\ wpc[w] = "relay" /\ view[w] = {}
  /\ wpc' = [wpc EXCEPT ![w] = "finish"]
  /\ UNCHANGED <<life, sock, busy, clients, wadd, wremove, attic, active, server,
                 wake, input, sent, jobs, work, timer, view, asks, crashed>>

Mut_Release(w) ==
  /\ wpc[w] = "finish"
  /\ busy' = [busy EXCEPT ![work[w]] = FALSE]
  /\ work' = [work EXCEPT ![w] = 0]
  /\ wpc' = [wpc EXCEPT ![w] = "idle"]
  /\ UNCHANGED <<life, sock, clients, wadd, wremove, attic, active, server,
                 wake, input, sent, jobs, timer, view, asks, crashed>>

\* busy.store(false): the worker does not touch the client any more.
Release(w) ==
  /\ wpc[w] = "finish"
  /\ busy' = [busy EXCEPT ![work[w]] = FALSE]
  /\ work' = [work EXCEPT ![w] = 0]
  /\ wpc' = [wpc EXCEPT ![w] = "wake"]
  /\ UNCHANGED <<life, sock, clients, wadd, wremove, attic, active, server,
                 wake, input, sent, jobs, timer, view, asks, crashed>>

\* clients.read_sockets(): the client may have more datagrams.
WakeServer(w) ==
  /\ wpc[w] = "wake"
  /\ wake' = TRUE
  /\ wpc' = [wpc EXCEPT ![w] = "idle"]
  /\ UNCHANGED <<life, sock, busy, clients, wadd, wremove, attic, active, server,
                 input, sent, jobs, work, timer, view, asks, crashed>>

WorkerStep(w) ==
  /\ crashed = "no"
  /\ \/ RmlistAdd(w)
     \/ /\ asks[w] = 0
        /\ \/ Take(w) \/ Recv(w)
           \/ \E c \in Client, fails \in BOOLEAN : RelayTo(w, c, fails)
           \/ RelayToDeleted(w) \/ RelayDone(w) \/ Release(w) \/ WakeServer(w)

-----------------------------------------------------------------------------
(* The timer thread and the remote ends *)

\* add_peers takes its copy and tries one connection more than it misses.
TimerStarts ==
  /\ tpc = "sleep" /\ ticks < MaxTick
  /\ ticks' = ticks + 1
  /\ view' = [view EXCEPT ![Timer] = ActiveCopy]
  /\ tries' = IF Cardinality(active) <= edges
              THEN edges - Cardinality(active) + 1 ELSE 0
  /\ tpc' = "connect"
  /\ UNCHANGED <<life, sock, busy, clients, wadd, wremove, attic, active, server,
                 wake, input, sent, pool, asks, crashed>>

Connecting == tpc \in {"connect", "made"}

\* The connection is made and the handshake started, or refused.
Connect(made) ==
  /\ Connecting /\ tries > 0
  /\ IF made
     THEN /\ Uncreated # {} /\ FreeFds # {}
          /\ Attach(Min(Uncreated))
          /\ view' = [view EXCEPT ![Timer] = @ \cup {Min(Uncreated)}]
          /\ tpc' = "made"
     ELSE UNCHANGED <<life, sock, wadd, view, tpc>>
  /\ tries' = tries - 1
  /\ UNCHANGED <<busy, clients, wremove, attic, active, server, wake, input, sent,
                 pool, ticks, asks, crashed>>

\* The first datagram cannot be sent: client::send closes the socket, connect
\* reports success and attach asserts that the socket is open.
ConnectAborts ==
  /\ Connecting /\ tries > 0 /\ Uncreated # {} /\ FreeFds # {}
  /\ Crash("assert")

\* The server thread is woken up if a connection was made.
ConnectDone ==
  /\ Connecting /\ tries = 0
  /\ wake' = (wake \/ tpc = "made")
  /\ tpc' = "excess"
  /\ UNCHANGED <<life, sock, busy, clients, wadd, wremove, attic, active, server,
                 input, sent, pool, tries, ticks, view, asks, crashed>>

\* purge_excess disconnects the oldest of the copy while it is too long; the
\* field since is never set, so any of them may be the one.
PurgeExcess(c) ==
  /\ tpc = "excess" /\ Cardinality(view[Timer]) > edges
  /\ c \in view[Timer] /\ life[c] = "alive"
  /\ Disconnect(Timer, c)
  /\ view' = [view EXCEPT ![Timer] = @ \ {c}]
  /\ UNCHANGED <<life, sock, busy, clients, wadd, wremove, attic, active, server,
                 wake, input, sent, pool, timer, crashed>>

PurgeDeleted ==
  /\ tpc = "excess" /\ Cardinality(view[Timer]) > edges
  /\ \E c \in view[Timer] : life[c] # "alive"
  /\ Crash("dangling")

TimerSleeps ==
  /\ tpc = "excess" /\ Cardinality(view[Timer]) <= edges
  /\ view' = [view EXCEPT ![Timer] = {}]
  /\ tpc' = "sleep"
  /\ UNCHANGED <<life, sock, busy, clients, wadd, wremove, attic, active, server,
                 wake, input, sent, pool, tries, ticks, asks, crashed>>

TimerStep ==
  /\ crashed = "no"
  /\ \/ RmlistAdd(Timer)
     \/ /\ asks[Timer] = 0
        /\ \/ TimerStarts \/ \E made \in BOOLEAN : Connect(made)
           \/ ConnectAborts \/ ConnectDone
           \/ \E c \in Client : PurgeExcess(c)
           \/ PurgeDeleted \/ TimerSleeps

\* A remote end sends a datagram; or it sends one no service knows or closes,
\* which end the same way.
Remote(f, what) ==
  /\ crashed = "no" /\ sent < MaxInput
  /\ f \notin FreeFds /\ input[f] = "quiet"
  /\ input' = [input EXCEPT ![f] = what]
  /\ sent' = sent + 1
  /\ UNCHANGED <<life, sock, busy, clients, wadd, wremove, attic, active, server,
                 wake, pool, timer, view, asks, crashed>>

Next ==
  \/ Server
  \/ Accept
  \/ \E w \in Worker : WorkerStep(w)
  \/ TimerStep
  \/ \E f \in Fd, what \in {"datagram", "fatal"} : Remote(f, what)

\* Threads that can run do; the remote ends owe nothing, and none need connect.
Fairness ==
  /\ WF_vars(Server)
  /\ \A w \in Worker : WF_vars(WorkerStep(w))
  /\ WF_vars(TimerStep)

Spec == Init /\ [][Next]_vars
LiveSpec == Spec /\ Fairness

-----------------------------------------------------------------------------
(* Properties *)

\* Types of the state (socket/server.h, socket/client.h).
TypeOK ==
  /\ life \in [Client -> {"none", "alive", "deleted"}]
  /\ sock \in [Client -> Fd \cup {0}]
  /\ busy \in [Client -> BOOLEAN]
  /\ clients \in [Fd -> Client \cup {0}]
  /\ wadd \subseteq Client /\ wremove \subseteq Client /\ attic \subseteq Client
  /\ active \subseteq Client /\ selectable \subseteq Fd
  /\ pc \in {"detach", "purge", "scan", "select", "serve"}
  /\ list \in Seq(Client \cup Fd)
  /\ wake \in BOOLEAN
  /\ input \in [Fd -> {"quiet", "datagram", "fatal"}]
  /\ sent \in 0..MaxInput
  /\ jobs \subseteq Client
  /\ wpc \in [Worker -> {"idle", "recv", "relay", "finish", "wake"}]
  /\ work \in [Worker -> Client \cup {0}]
  /\ tpc \in {"sleep", "connect", "made", "excess"} /\ tries \in 0..(edges + 1)
  /\ ticks \in 0..MaxTick
  /\ view \in [Thread -> SUBSET Client] /\ asks \in [Thread -> Client \cup {0}]
  /\ crashed \in {"no", "assert", "dangling"}

\* A client that waits for a worker or is in a worker's hands is busy, exists,
\* is open and, until the worker has read it, has something to read: nobody
\* closes or deletes it under the worker, no two workers share it, and no
\* worker blocks in recv (busy, on_detach's spin, attic_t::purge).
WorkerOwnsItsClient ==
  /\ \A c \in jobs : /\ busy[c] /\ life[c] = "alive" /\ sock[c] # 0
                     /\ input[sock[c]] # "quiet"
                     /\ \A w \in Worker : work[w] # c
  /\ \A w \in Worker : work[w] # 0 =>
       /\ busy[work[w]] /\ life[work[w]] = "alive" /\ sock[work[w]] # 0
       /\ wpc[w] = "recv" => input[sock[work[w]]] # "quiet"
       /\ \A v \in Worker \ {w} : work[v] # work[w]

\* Each object that exists is in exactly one of the containers, an open one is
\* kept under its own descriptor and no two share one: none is forgotten and none
\* can be deleted twice, although shrink, grow, update and purge move them by hand
\* and requests to leave may come after a client is closed or deleted.
InOneContainer ==
  /\ TypeOK
  /\ \A c \in Client :
       Cardinality({b \in {<<"wadd", wadd>>, <<"main", Members>>,
                           <<"attic", attic>>} : c \in b[2]})
         = (IF life[c] = "alive" THEN 1 ELSE 0)
  /\ \A c \in Members : sock[c] # 0 => clients[sock[c]] = c
  /\ \A c, d \in Client : c # d /\ sock[c] # 0 => sock[c] # sock[d]

\* What ends the service: the process is gone; a client dropped because the
\* pool was full stays busy although no worker has it; no descriptor is free.
Orphaned(c) == busy[c] /\ c \notin jobs /\ \A w \in Worker : work[w] # c
Jammed == crashed # "no" \/ FreeFds = {} \/ \E c \in Client : Orphaned(c)

\* What a remote end has sent on an attached connection does not stay unread
\* for ever, although a worker's wake-up, the scan and select run in any order
\* (process_work stores busy before it writes the byte).
InputIsServed ==
  \A f \in Fd : []<>(clients[f] = 0 \/ input[f] = "quiet" \/ Jammed)

\* Somebody has disconnected the client and it has not left yet.
Leaving(c) ==
  \/ c \in wremove \/ \E t \in Thread : asks[t] = c
  \/ pc = "detach" /\ c \in Range(list)
  \/ c \in Members /\ sock[c] = 0

\* A client somebody has disconnected is closed and leaves the main container,
\* whichever thread asked and whatever a worker is doing with it (detach,
\* shrink, update).
DetachIsServed ==
  \A c \in Client : []<>(~Leaving(c) \/ Jammed)
=============================================================================
