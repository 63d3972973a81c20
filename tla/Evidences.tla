----------------------------- MODULE Evidences -----------------------------
(***************************************************************************)
(* The life of an evidence (a transaction) in a node, from the datagram to *)
(* the app that processes it:                                              *)
(*   - a network worker drops datagrams seen since the last local deltas   *)
(*     (relay::daemon::process_work), relays the others and hands them to  *)
(*     engine::daemon::process_evidence;                                   *)
(*   - process_evidence parks the datagram in evidences_on_hold while the  *)
(*     node is out of sync, otherwise schedules it in the calendar;        *)
(*   - the syncd thread flushes evidences_on_hold after every round        *)
(*     (on_sync), through process_evidence again;                          *)
(*   - the evidence_processor thread takes the earliest ripe evidence out  *)
(*     of the calendar and gives it to its app.                            *)
(*                                                                         *)
(* Whether the node is in sync is decided by main loop and syncd, module   *)
(* ChainSync; here it changes when they call syncd_t::update or end a      *)
(* round.  A datagram is identified with its pointer: Key is its hash, so  *)
(* two datagrams of one Key are two deliveries of one evidence.            *)
(***************************************************************************)
EXTENDS Naturals, FiniteSets

CONSTANTS
    Dgrams,      \* datagrams that may be delivered
    Key,         \* datagram::compute_hash
    Ts,          \* the timestamp the evidence carries
    Accepted,    \* datagrams that some app's parse_evidence accepts at times,
    Refused,     \* and that none accepts at times: the least fee changes
    None,        \* no datagram
    Verdicts,    \* values in_sync may take when the main loop updates syncd
    MaxLosses,   \* bound: updates that put the node out of sync
    MaxResets,   \* bound: local deltas created (retrieve_evidences)
    MaxClock     \* bound: the last value of the clock

ASSUME DgramsAssumption == IsFiniteSet(Dgrams)
ASSUME TsAssumption == Ts \in [Dgrams -> 0..MaxClock] /\ MaxClock \in Nat
ASSUME AcceptedAssumption == Accepted \cup Refused = Dgrams
ASSUME NoneAssumption == None \notin Dgrams
ASSUME VerdictsAssumption == Verdicts \subseteq BOOLEAN
ASSUME BoundsAssumption == MaxLosses \in Nat /\ MaxResets \in Nat

(***************************************************************************)
(* Where a datagram, or the evidence parsed from it, is.  "check" to       *)
(* "schedule" are the steps of process_evidence.                           *)
(***************************************************************************)
Phase == {"new", "check", "hold", "assert", "schedule",
          "held", "ignored", "rejected", "lost",
          "refused", "scheduled", "taken", "processed", "dropped"}

ProcPC == {"lock", "wait_empty", "waiting", "look", "order"}

VARIABLES
    phase,     \* of every datagram
    seen,      \* relay::daemon::evidences, the hashes of this window
    resets,    \* windows begun since the start
    hold,      \* evidences_on_hold
    insync,    \* syncd_t::in_sync()
    losses,    \* updates that put the node out of sync so far
    resume,    \* syncd_t::resume
    flushing,  \* the syncd thread is in flush_evidences_on_hold
    todo,      \* what its iterator has still to visit
    held,      \* the datagram it is processing, or None
    ppc,       \* evidence_processor
    taken,     \* the evidence it took, or None
    calmx,     \* evidence_processor holds calendar.mx
    notified,  \* hold's condition variable was notified while it waited
    last_ev_ts,
    clock,     \* now minus relay_interval
    fault      \* "none", or what made the process abort

relayv == <<seen, resets>>
syncv == <<insync, losses, resume>>
flushv == <<flushing, todo, held>>
procv == <<ppc, taken, calmx, last_ev_ts>>
vars == <<phase, relayv, hold, syncv, flushv, procv, notified, clock, fault>>

\* The types of the variables of relay, calendar, hold, syncd and processor.
TypeOK ==
    /\ phase \in [Dgrams -> Phase]
    /\ seen \subseteq {Key[d] : d \in Dgrams}
    /\ resets \in 0..MaxResets
    /\ hold \subseteq Dgrams
    /\ insync \in BOOLEAN /\ resume \in BOOLEAN
    /\ losses \in 0..MaxLosses
    /\ flushing \in BOOLEAN
    /\ todo \subseteq Dgrams
    /\ held \in Dgrams \cup {None}
    /\ ppc \in ProcPC
    /\ taken \in Dgrams \cup {None}
    /\ calmx \in BOOLEAN /\ notified \in BOOLEAN
    /\ last_ev_ts \in 0..MaxClock
    /\ clock \in 0..MaxClock
    /\ fault \in {"none", "assert", "double_free"}

\* syncd starts with head = tail = 0, which counts as in sync.
Init ==
    /\ phase = [d \in Dgrams |-> "new"]
    /\ seen = {} /\ resets = 0
    /\ hold = {}
    /\ insync = TRUE /\ losses = 0 /\ resume = FALSE
    /\ flushing = FALSE /\ todo = {} /\ held = None
    /\ ppc = "lock" /\ taken = None /\ calmx = FALSE /\ notified = FALSE
    /\ last_ev_ts = 0 /\ clock = 0
    /\ fault = "none"

Running == fault = "none"

Goto(d, p) == phase' = [phase EXCEPT ![d] = p]

-----------------------------------------------------------------------------
(***************************************************************************)
(* Relay.                                                                  *)
(***************************************************************************)

\* Mutant: the hash is looked up but not noted.
Mut_Receive(d) ==
    /\ Running
    /\ phase[d] = "new"
    /\ Goto(d, IF Key[d] \in seen THEN "ignored" ELSE "check")
    /\ UNCHANGED <<seen, resets, hold, syncv, flushv, procv, notified, clock, fault>>

\* relay::daemon::process_work: look the hash up and note it under mx_evidences.
Receive(d) ==
    /\ Running
    /\ phase[d] = "new"
    /\ \/ Key[d] \in seen /\ Goto(d, "ignored") /\ UNCHANGED seen
       \/ Key[d] \notin seen /\ Goto(d, "check") /\ seen' = seen \cup {Key[d]}
    /\ UNCHANGED <<resets, hold, syncv, flushv, procv, notified, clock, fault>>

\* create_local_deltas swaps the set of hashes for an empty one.
RetrieveEvidences ==
    /\ Running
    /\ resets < MaxResets
    /\ resets' = resets + 1
    /\ seen' = {}
    /\ UNCHANGED <<phase, hold, syncv, flushv, procv, notified, clock, fault>>

-----------------------------------------------------------------------------
(***************************************************************************)
(* process_evidence, in a network worker or in the syncd thread.           *)
(***************************************************************************)

\* if (!syncd.in_sync())
CheckInSync(d) ==
    /\ Running
    /\ phase[d] = "check"
    /\ Goto(d, IF insync THEN "assert" ELSE "hold")
    /\ UNCHANGED <<relayv, hold, syncv, flushv, procv, notified, clock, fault>>

\* evidences_on_hold.add(d): a set of pointers, so adding again changes
\* nothing.  A running flush may or may not come by the new element.
Hold(d, visited) ==
    /\ Running
    /\ phase[d] = "hold"
    /\ Goto(d, "held")
    /\ hold' = hold \cup {d}
    /\ todo' = IF flushing /\ d # held /\ visited THEN todo \cup {d} ELSE todo
    /\ UNCHANGED <<relayv, syncv, flushing, held, procv, notified, clock, fault>>

\* assert(syncd.in_sync())
AssertInSync(d) ==
    /\ Running
    /\ phase[d] = "assert"
    /\ \/ insync /\ Goto(d, "schedule") /\ UNCHANGED fault
       \/ ~insync /\ fault' = "assert" /\ UNCHANGED phase
    /\ UNCHANGED <<relayv, hold, syncv, flushv, procv, notified, clock>>

\* Delete the datagram, let the apps parse it and schedule the evidence, under
\* calendar.mx.
Schedule(d) ==
    /\ Running
    /\ phase[d] = "schedule"
    /\ \/ d \in Accepted /\ ~calmx /\ Goto(d, "scheduled")
       \/ d \in Refused /\ Goto(d, "refused")
    /\ UNCHANGED <<relayv, hold, syncv, flushv, procv, notified, clock, fault>>

\* process_evidence returned false to a worker: no router knows the datagram,
\* which is already deleted, and socket::daemon deletes it once more and
\* disconnects the peer.  The heap notices or it does not.
DropUnknown(d, heap_notices) ==
    /\ Running
    /\ phase[d] = "refused" /\ d # held
    /\ Goto(d, "rejected")
    /\ fault' = IF heap_notices THEN "double_free" ELSE fault
    /\ UNCHANGED <<relayv, hold, syncv, flushv, procv, notified, clock>>

-----------------------------------------------------------------------------
(***************************************************************************)
(* Main loop and syncd, as far as they concern evidences.                  *)
(***************************************************************************)

\* eat_diff or load_head call syncd_t::update.
UpdateSyncd(v) ==
    /\ Running
    /\ v \/ losses < MaxLosses
    /\ losses' = IF v THEN losses ELSE losses + 1
    /\ insync' = v
    /\ resume' = TRUE
    /\ UNCHANGED <<phase, relayv, hold, flushv, procv, notified, clock, fault>>

\* A round of syncd ends, having caught up or not, and calls on_sync.
OnSync(v) ==
    /\ Running
    /\ resume /\ ~flushing
    /\ resume' = FALSE
    /\ insync' = v
    /\ insync => v
    /\ flushing' = TRUE
    /\ todo' = hold
    /\ UNCHANGED <<phase, relayv, hold, losses, held, procv, notified, clock, fault>>

\* flush_evidences_on_hold: the next datagram, with hold's mutex released.
FlushNext(d) ==
    /\ Running
    /\ flushing /\ held = None
    /\ d \in todo
    /\ held' = d
    /\ Goto(d, "check")
    /\ UNCHANGED <<relayv, hold, syncv, flushing, todo, procv, notified, clock, fault>>

\* process_evidence returned to the flush; a refused datagram, which it
\* deleted, is dumped and deleted once more.
FlushErase(heap_notices) ==
    /\ Running
    /\ flushing /\ held # None
    /\ phase[held] \notin {"check", "hold", "assert", "schedule"}
    /\ hold' = hold \ {held}
    /\ todo' = todo \ {held}
    /\ held' = None
    /\ fault' = IF phase[held] = "refused" /\ heap_notices THEN "double_free" ELSE fault
    /\ CASE phase[held] = "held" -> Goto(held, "lost")
         [] phase[held] = "refused" -> Goto(held, "rejected")
         [] OTHER -> UNCHANGED phase
    /\ UNCHANGED <<relayv, syncv, flushing, procv, notified, clock>>

FlushEnd ==
    /\ Running
    /\ flushing /\ held = None /\ todo = {}
    /\ flushing' = FALSE
    /\ notified' = (ppc = "waiting")
    /\ UNCHANGED <<phase, relayv, hold, syncv, todo, held, procv, clock, fault>>

-----------------------------------------------------------------------------
(***************************************************************************)
(* evidence_processor.                                                     *)
(***************************************************************************)
Scheduled == {d \in Dgrams : phase[d] = "scheduled"}

\* What the head of the calendar may be.
Earliest == {d \in Scheduled : \A e \in Scheduled : Ts[d] <= Ts[e]}

LockCalendar ==
    /\ Running
    /\ ppc = "lock" /\ ~calmx
    /\ calmx' = TRUE
    /\ ppc' = "wait_empty"
    /\ UNCHANGED <<phase, relayv, hold, syncv, flushv, taken, last_ev_ts, notified, clock, fault>>

\* evidences_on_hold.wait_empty(), with calendar.mx locked all along.
WaitEmpty ==
    /\ Running
    /\ ppc = "wait_empty" \/ (ppc = "waiting" /\ notified)
    /\ ppc' = IF hold = {} THEN "look" ELSE "waiting"
    /\ notified' = FALSE
    /\ UNCHANGED <<phase, relayv, hold, syncv, flushv, taken, calmx, last_ev_ts, clock, fault>>

\* Mutant: the processor goes to sleep with calendar.mx locked.
Mut_LookNothing ==
    /\ Running
    /\ ppc = "look"
    /\ \A d \in Earliest : Ts[d] > clock
    /\ ppc' = "lock"
    /\ UNCHANGED <<phase, relayv, hold, syncv, flushv, taken, calmx, last_ev_ts, notified, clock, fault>>

\* Nothing scheduled, or nothing ripe: unlock and sleep.
LookNothing ==
    /\ Running
    /\ ppc = "look"
    /\ \A d \in Earliest : Ts[d] > clock
    /\ calmx' = FALSE
    /\ ppc' = "lock"
    /\ UNCHANGED <<phase, relayv, hold, syncv, flushv, taken, last_ev_ts, notified, clock, fault>>

LookTake(d) ==
    /\ Running
    /\ ppc = "look"
    /\ d \in Earliest /\ Ts[d] <= clock
    /\ Goto(d, "taken")
    /\ taken' = d
    /\ calmx' = FALSE
    /\ ppc' = "order"
    /\ UNCHANGED <<relayv, hold, syncv, flushv, last_ev_ts, notified, clock, fault>>

\* Mutant: the order is not enforced.
Mut_EnforceOrder ==
    /\ Running
    /\ ppc = "order"
    /\ Goto(taken, "processed") /\ last_ev_ts' = Ts[taken]
    /\ taken' = None
    /\ ppc' = "lock"
    /\ UNCHANGED <<relayv, hold, syncv, flushv, calmx, notified, clock, fault>>

\* enforce tx order
EnforceOrder ==
    /\ Running
    /\ ppc = "order"
    /\ IF Ts[taken] < last_ev_ts
       THEN Goto(taken, "dropped") /\ UNCHANGED last_ev_ts
       ELSE Goto(taken, "processed") /\ last_ev_ts' = Ts[taken]
    /\ taken' = None
    /\ ppc' = "lock"
    /\ UNCHANGED <<relayv, hold, syncv, flushv, calmx, notified, clock, fault>>

Tick ==
    /\ Running
    /\ clock < MaxClock
    /\ clock' = clock + 1
    /\ UNCHANGED <<phase, relayv, hold, syncv, flushv, procv, notified, fault>>

-----------------------------------------------------------------------------
ProcessEvidence(d) ==
    \/ CheckInSync(d)
    \/ \E v \in BOOLEAN : Hold(d, v)
    \/ AssertInSync(d)
    \/ Schedule(d)
    \/ \E h \in BOOLEAN : DropUnknown(d, h)

Flush == (\E d \in Dgrams : FlushNext(d)) \/ (\E h \in BOOLEAN : FlushErase(h)) \/ FlushEnd

Processor ==
    LockCalendar \/ WaitEmpty \/ LookNothing \/ (\E d \in Dgrams : LookTake(d)) \/ EnforceOrder

Next ==
    \/ \E d \in Dgrams : Receive(d) \/ ProcessEvidence(d)
    \/ RetrieveEvidences
    \/ \E v \in Verdicts : UpdateSyncd(v)
    \/ \E v \in BOOLEAN : OnSync(v)
    \/ Flush
    \/ Processor
    \/ Tick

Spec == Init /\ [][Next]_vars

(***************************************************************************)
(* Every thread runs, the clock goes on, and the main loop keeps updating  *)
(* syncd, cycle after cycle, with a tip that syncd attains.  The processor *)
(* looks at a calendar with a ripe evidence again and again, every second. *)
(***************************************************************************)
Fairness ==
    /\ \A d \in Dgrams : WF_vars(ProcessEvidence(d))
    /\ WF_vars(UpdateSyncd(TRUE))
    /\ WF_vars(OnSync(TRUE))
    /\ WF_vars(Flush)
    /\ WF_vars(Processor)
    /\ WF_vars(Tick)

LiveSpec == Spec /\ Fairness

-----------------------------------------------------------------------------
(***************************************************************************)
(* Properties.                                                             *)
(***************************************************************************)

\* Between two local deltas an evidence is handled once, however many peers
\* deliver it and however their workers interleave.
HandledOncePerWindow ==
    \A d \in Dgrams :
        Cardinality({e \in Dgrams : Key[e] = Key[d] /\ phase[e] \notin {"new", "ignored"}})
            <= resets + 1

\* "enforce tx order": the app is never given an evidence older than one it
\* has processed, whatever order they were delivered, held and flushed in.
TxOrderEnforced ==
    [][\A d, e \in Dgrams :
          (phase'[d] = "processed" /\ phase[d] # "processed" /\ phase[e] = "processed")
              => Ts[e] <= Ts[d]]_vars

\* No evidence stays scheduled, or in the hands of the processor, for ever: it
\* is processed or dropped in the end, however often the node loses sync,
\* unless evidences stay on hold for ever.
ScheduledIsConsumed ==
    []<>(hold = {}) =>
        \A d \in Dgrams : []<>(phase[d] \notin {"scheduled", "taken"} \/ ~Running)
=============================================================================
