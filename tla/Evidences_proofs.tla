-------------------------- MODULE Evidences_proofs --------------------------
(***************************************************************************)
(* Proofs about Evidences, for any set of datagrams and any bounds: types, *)
(* and the order in which evidences reach the apps, whatever the           *)
(* interleaving of workers, flush, main loop and evidence_processor.       *)
(***************************************************************************)
EXTENDS Evidences, FiniteSetTheorems, TLAPS

\* What evidence_processor relies on without a check: it has taken something
\* when it enforces the order.
TakenOK == ppc = "order" => taken \in Dgrams

\* No processed evidence is younger than last_ev_ts: the strengthening that
\* turns the comparison of two timestamps into the order of all.
ProcessedBefore == \A e \in Dgrams : phase[e] = "processed" => Ts[e] <= last_ev_ts

IInv == TypeOK /\ TakenOK /\ ProcessedBefore

\* Every step keeps the types and TakenOK.
LEMMA TypeStep == TypeOK /\ TakenOK /\ [Next]_vars => TypeOK' /\ TakenOK'
<1> SUFFICES ASSUME TypeOK, TakenOK, [Next]_vars PROVE TypeOK' /\ TakenOK'
  OBVIOUS
<1> USE TsAssumption, NoneAssumption, BoundsAssumption
    DEF TypeOK, TakenOK, Phase, ProcPC, Goto, relayv, syncv, flushv, procv
<1>1. ASSUME NEW d \in Dgrams, Receive(d) PROVE TypeOK' /\ TakenOK'
  BY <1>1 DEF Receive
<1>2. ASSUME NEW d \in Dgrams, CheckInSync(d) PROVE TypeOK' /\ TakenOK'
  BY <1>2 DEF CheckInSync
<1>3. ASSUME NEW d \in Dgrams, NEW v \in BOOLEAN, Hold(d, v) PROVE TypeOK' /\ TakenOK'
  BY <1>3 DEF Hold
<1>4. ASSUME NEW d \in Dgrams, AssertInSync(d) PROVE TypeOK' /\ TakenOK'
  BY <1>4 DEF AssertInSync
<1>5. ASSUME NEW d \in Dgrams, Schedule(d) PROVE TypeOK' /\ TakenOK'
  BY <1>5 DEF Schedule
<1>5a. ASSUME NEW d \in Dgrams, NEW h \in BOOLEAN, DropUnknown(d, h) PROVE TypeOK' /\ TakenOK'
  BY <1>5a DEF DropUnknown
<1>6. CASE RetrieveEvidences
  BY <1>6 DEF RetrieveEvidences
<1>7. ASSUME NEW v \in Verdicts, UpdateSyncd(v) PROVE TypeOK' /\ TakenOK'
  BY <1>7, VerdictsAssumption DEF UpdateSyncd
<1>8. ASSUME NEW v \in BOOLEAN, OnSync(v) PROVE TypeOK' /\ TakenOK'
  BY <1>8 DEF OnSync
<1>9. ASSUME NEW d \in Dgrams, FlushNext(d) PROVE TypeOK' /\ TakenOK'
  BY <1>9 DEF FlushNext
<1>10. ASSUME NEW h \in BOOLEAN, FlushErase(h) PROVE TypeOK' /\ TakenOK'
  BY <1>10 DEF FlushErase
<1>11. CASE FlushEnd
  BY <1>11 DEF FlushEnd
<1>12. CASE LockCalendar
  BY <1>12 DEF LockCalendar
<1>13. CASE WaitEmpty
  BY <1>13 DEF WaitEmpty
<1>14. CASE LookNothing
  BY <1>14 DEF LookNothing
<1>15. ASSUME NEW d \in Dgrams, LookTake(d) PROVE TypeOK' /\ TakenOK'
  BY <1>15 DEF LookTake
<1>16. CASE EnforceOrder
  BY <1>16 DEF EnforceOrder
<1>17. CASE Tick
  BY <1>17 DEF Tick
<1>18. CASE UNCHANGED vars
  BY <1>18 DEF vars
<1> QED BY <1>1, <1>2, <1>3, <1>4, <1>5, <1>5a, <1>6, <1>7, <1>8, <1>9, <1>10, <1>11,
           <1>12, <1>13, <1>14, <1>15, <1>16, <1>17, <1>18
        DEF Next, ProcessEvidence, Flush, Processor

\* A step other than EnforceOrder leaves last_ev_ts alone and makes no evidence
\* processed.
LEMMA OthersProcessNothing ==
    ASSUME TypeOK, TakenOK, [Next]_vars, ~EnforceOrder
    PROVE  /\ last_ev_ts' = last_ev_ts
           /\ \A d \in Dgrams : phase'[d] = "processed" => phase[d] = "processed"
<1> DEFINE Quiet == /\ last_ev_ts' = last_ev_ts
                    /\ \A d \in Dgrams : phase'[d] = "processed" => phase[d] = "processed"
<1>a. ASSUME NEW d \in Dgrams, NEW p, Goto(d, p), p # "processed", last_ev_ts' = last_ev_ts
      PROVE  Quiet
  BY <1>a DEF Goto, TypeOK
<1>b. ASSUME UNCHANGED <<phase, last_ev_ts>> PROVE Quiet
  BY <1>b
<1> HIDE DEF Quiet
<1>1. ASSUME NEW d \in Dgrams, Receive(d) \/ ProcessEvidence(d) PROVE Quiet
  <2>1. last_ev_ts' = last_ev_ts
    BY <1>1 DEF Receive, ProcessEvidence, CheckInSync, Hold, AssertInSync, Schedule,
       DropUnknown, procv
  <2>2. \/ UNCHANGED phase
        \/ \E p \in {"ignored", "check", "assert", "hold", "held", "schedule", "scheduled",
                      "refused", "rejected"} :
              Goto(d, p)
    BY <1>1 DEF Receive, ProcessEvidence, CheckInSync, Hold, AssertInSync, Schedule, DropUnknown
  <2> QED BY <2>1, <2>2, <1>a, <1>b
<1>2. ASSUME RetrieveEvidences PROVE Quiet
  BY <1>2, <1>b DEF RetrieveEvidences, procv
<1>3. ASSUME NEW v \in Verdicts, UpdateSyncd(v) PROVE Quiet
  BY <1>3, <1>b DEF UpdateSyncd, procv
<1>4. ASSUME NEW v \in BOOLEAN, OnSync(v) PROVE Quiet
  BY <1>4, <1>b DEF OnSync, procv
<1>5. ASSUME NEW d \in Dgrams, FlushNext(d) PROVE Quiet
  BY <1>5, <1>a DEF FlushNext, procv
<1>6. ASSUME NEW h \in BOOLEAN, FlushErase(h) PROVE Quiet
  BY <1>6, <1>a, <1>b DEF FlushErase, procv, TypeOK
<1>7. ASSUME FlushEnd PROVE Quiet
  BY <1>7, <1>b DEF FlushEnd, procv
<1>8. ASSUME LockCalendar \/ WaitEmpty \/ LookNothing PROVE Quiet
  BY <1>8, <1>b DEF LockCalendar, WaitEmpty, LookNothing
<1>9. ASSUME NEW d \in Dgrams, LookTake(d) PROVE Quiet
  BY <1>9, <1>a DEF LookTake
<1>10. ASSUME Tick PROVE Quiet
  BY <1>10, <1>b DEF Tick, procv
<1>11. ASSUME UNCHANGED vars PROVE Quiet
  BY <1>11, <1>b DEF vars, procv
<1>12. Quiet
  BY <1>1, <1>2, <1>3, <1>4, <1>5, <1>6, <1>7, <1>8, <1>9, <1>10, <1>11
     DEF Next, Flush, Processor
<1> QED BY <1>12 DEF Quiet

\* The one step that gives an evidence to its app raises last_ev_ts to it.
LEMMA OrderStep ==
    ASSUME TypeOK, TakenOK, EnforceOrder
    PROVE  /\ last_ev_ts \in Nat /\ last_ev_ts' \in Nat /\ last_ev_ts <= last_ev_ts'
           /\ \A d \in Dgrams :
                 phase'[d] = "processed" => phase[d] = "processed" \/ Ts[d] = last_ev_ts'
<1>1. taken \in Dgrams /\ Ts[taken] \in Nat /\ last_ev_ts \in Nat
  BY TsAssumption DEF EnforceOrder, TakenOK, TypeOK
<1>2. CASE Ts[taken] < last_ev_ts
  BY <1>1, <1>2 DEF EnforceOrder, Goto, TypeOK
<1>3. CASE ~(Ts[taken] < last_ev_ts)
  BY <1>1, <1>3 DEF EnforceOrder, Goto, TypeOK
<1> QED BY <1>2, <1>3

\* IInv is inductive.
LEMMA Inductive == Spec => []IInv
<1>1. ASSUME Init PROVE IInv
  <2>1. phase \in [Dgrams -> Phase] /\ \A e \in Dgrams : phase[e] # "processed"
    BY <1>1 DEF Init, Phase
  <2>2. /\ 0 \in 0..MaxClock /\ 0 \in 0..MaxResets /\ 0 \in 0..MaxLosses
    BY TsAssumption, BoundsAssumption
  <2>3. TypeOK
    BY <1>1, <2>1, <2>2 DEF Init, TypeOK, ProcPC
  <2> QED BY <1>1, <2>1, <2>3 DEF Init, IInv, TakenOK, ProcessedBefore
<1>2. IInv /\ [Next]_vars => IInv'
  <2> SUFFICES ASSUME IInv, [Next]_vars PROVE ProcessedBefore'
    BY TypeStep DEF IInv
  <2>1. CASE EnforceOrder
    <3>1. ASSUME NEW e \in Dgrams, phase'[e] = "processed" PROVE Ts[e] <= last_ev_ts'
      <4>1. Ts[e] \in Nat
        BY TsAssumption
      <4> QED BY <2>1, <3>1, <4>1, OrderStep DEF IInv, ProcessedBefore
    <3> QED BY <3>1 DEF ProcessedBefore
  <2>2. CASE ~EnforceOrder
    BY <2>2, OthersProcessNothing DEF IInv, ProcessedBefore
  <2> QED BY <2>1, <2>2
<1> QED BY <1>1, <1>2, PTL DEF Spec

\* Type correctness of relay, hold, calendar, flush and processor.
THEOREM TypeCorrect == Spec => []TypeOK
<1>1. IInv => TypeOK
  BY DEF IInv
<1> QED BY <1>1, Inductive, PTL

\* evidence_processor never gives an app an evidence older than one it has
\* processed, whatever order datagrams arrive, are held, flushed and scheduled in.
THEOREM TxOrder == Spec => TxOrderEnforced
<1> DEFINE InOrder == \A d, e \in Dgrams :
        (phase'[d] = "processed" /\ phase[d] # "processed" /\ phase[e] = "processed")
            => Ts[e] <= Ts[d]
<1>1. IInv /\ [Next]_vars => [InOrder]_vars
  <2> SUFFICES ASSUME IInv, [Next]_vars,
                      NEW d \in Dgrams, NEW e \in Dgrams,
                      phase'[d] = "processed", phase[d] # "processed", phase[e] = "processed"
               PROVE  Ts[e] <= Ts[d]
    OBVIOUS
  <2>1. EnforceOrder
    BY OthersProcessNothing DEF IInv
  <2>2. Ts[d] = last_ev_ts' /\ last_ev_ts <= last_ev_ts' /\ last_ev_ts \in Nat
    BY <2>1, OrderStep DEF IInv
  <2>3. Ts[e] <= last_ev_ts /\ Ts[e] \in Nat /\ Ts[d] \in Nat
    BY TsAssumption DEF IInv, ProcessedBefore
  <2> QED BY <2>2, <2>3
<1> QED BY <1>1, Inductive, PTL DEF Spec, TxOrderEnforced

\* The datagrams that relay has passed on to process_evidence.
Handled == {d \in Dgrams : phase[d] \notin {"new", "ignored"}}

\* All that hold, flush and the processor have is passed on: nothing reaches
\* them by another way.
PassedOn ==
    /\ hold \subseteq Handled /\ todo \subseteq Handled
    /\ held \in Handled \cup {None}
    /\ ppc = "order" => taken \in Handled

\* The strengthening of HandledOncePerWindow: while the hash is not noted, one
\* fewer was handled than the windows allow.
CountOK ==
    \A k \in {Key[d] : d \in Dgrams} :
        Cardinality({e \in Handled : Key[e] = k}) <= resets + (IF k \in seen THEN 1 ELSE 0)

\* Only relay passes on datagrams, and what is passed on stays so.
LEMMA HandledStep ==
    ASSUME TypeOK, TakenOK, PassedOn, [Next]_vars
    PROVE  /\ PassedOn'
           /\ \/ Handled' = Handled
              \/ \E d \in Dgrams : Receive(d)
<1> DEFINE Goal == PassedOn' /\ (Handled' = Handled \/ \E d \in Dgrams : Receive(d))
<1> SUFFICES Goal
  OBVIOUS
<1>a. ASSUME NEW d \in Handled, NEW p, Goto(d, p), p \notin {"new", "ignored"}
      PROVE  Handled' = Handled
  BY <1>a DEF Goto, TypeOK, Handled
<1>b. ASSUME UNCHANGED phase PROVE Handled' = Handled
  BY <1>b DEF Handled
<1>1. ASSUME NEW d \in Dgrams, Receive(d) PROVE Goal
  <2>1. Handled \subseteq Handled'
    BY <1>1 DEF Receive, Goto, TypeOK, Handled
  <2> QED BY <1>1, <2>1 DEF Receive, flushv, procv, PassedOn
<1>2. ASSUME NEW d \in Dgrams, CheckInSync(d) \/ AssertInSync(d) \/ Schedule(d) PROVE Goal
  <2>1. d \in Handled
    BY <1>2 DEF CheckInSync, AssertInSync, Schedule, Handled
  <2>2. UNCHANGED phase \/ \E p \in {"assert", "hold", "schedule", "scheduled", "refused"} : Goto(d, p)
    BY <1>2 DEF CheckInSync, AssertInSync, Schedule
  <2>3. Handled' = Handled
    BY <2>1, <2>2, <1>a, <1>b
  <2> QED BY <1>2, <2>3 DEF CheckInSync, AssertInSync, Schedule, flushv, procv, PassedOn
<1>2a. ASSUME NEW d \in Dgrams, NEW h \in BOOLEAN, DropUnknown(d, h) PROVE Goal
  <2>1. d \in Handled /\ Goto(d, "rejected")
    BY <1>2a DEF DropUnknown, Handled
  <2>2. Handled' = Handled
    BY <2>1, <1>a
  <2> QED BY <1>2a, <2>2 DEF DropUnknown, flushv, procv, PassedOn
<1>3. ASSUME NEW d \in Dgrams, NEW v \in BOOLEAN, Hold(d, v) PROVE Goal
  <2>1. d \in Handled /\ Goto(d, "held")
    BY <1>3 DEF Hold, Handled
  <2>2. Handled' = Handled
    BY <2>1, <1>a
  <2> QED BY <1>3, <2>1, <2>2 DEF Hold, procv, PassedOn
<1>4. ASSUME RetrieveEvidences \/ (\E v \in Verdicts : UpdateSyncd(v)) \/ Tick PROVE Goal
  <2>1. Handled' = Handled
    BY <1>4, <1>b DEF RetrieveEvidences, UpdateSyncd, Tick
  <2> QED BY <1>4, <2>1 DEF RetrieveEvidences, UpdateSyncd, Tick, flushv, procv, PassedOn
<1>5. ASSUME NEW v \in BOOLEAN, OnSync(v) PROVE Goal
  <2>1. Handled' = Handled
    BY <1>5, <1>b DEF OnSync
  <2> QED BY <1>5, <2>1 DEF OnSync, procv, PassedOn
<1>6. ASSUME NEW d \in Dgrams, FlushNext(d) PROVE Goal
  <2>1. d \in Handled /\ Goto(d, "check")
    BY <1>6 DEF FlushNext, PassedOn
  <2>2. Handled' = Handled
    BY <2>1, <1>a
  <2> QED BY <1>6, <2>1, <2>2 DEF FlushNext, procv, PassedOn
<1>7. ASSUME NEW h \in BOOLEAN, FlushErase(h) PROVE Goal
  <2>1. held \in Handled
    BY <1>7 DEF FlushErase, PassedOn
  <2>2. Handled' = Handled
    BY <1>7, <2>1, <1>a, <1>b DEF FlushErase
  <2> QED BY <1>7, <2>2 DEF FlushErase, procv, PassedOn
<1>8. ASSUME FlushEnd \/ LockCalendar \/ WaitEmpty \/ LookNothing PROVE Goal
  <2>1. Handled' = Handled
    BY <1>8, <1>b DEF FlushEnd, LockCalendar, WaitEmpty, LookNothing
  <2> QED BY <1>8, <2>1 DEF FlushEnd, LockCalendar, WaitEmpty, LookNothing, flushv, procv, PassedOn
<1>9. ASSUME NEW d \in Dgrams, LookTake(d) PROVE Goal
  <2>1. d \in Handled /\ Goto(d, "taken")
    BY <1>9 DEF LookTake, Earliest, Scheduled, Handled
  <2>2. Handled' = Handled
    BY <2>1, <1>a
  <2> QED BY <1>9, <2>1, <2>2 DEF LookTake, flushv, PassedOn
<1>10. ASSUME EnforceOrder PROVE Goal
  <2>1. taken \in Handled
    BY <1>10 DEF EnforceOrder, PassedOn
  <2>2. Handled' = Handled
    BY <1>10, <2>1, <1>a DEF EnforceOrder
  <2> QED BY <1>10, <2>2 DEF EnforceOrder, flushv, PassedOn
<1>11. ASSUME UNCHANGED vars PROVE Goal
  BY <1>11, <1>b DEF vars, flushv, procv, PassedOn
<1> QED BY <1>1, <1>2, <1>2a, <1>3, <1>4, <1>5, <1>6, <1>7, <1>8, <1>9, <1>10, <1>11
        DEF Next, ProcessEvidence, Flush, Processor

\* Every step keeps the count of what was handled within the windows.
LEMMA CountStep ==
    ASSUME TypeOK, TakenOK, PassedOn, CountOK, [Next]_vars
    PROVE  CountOK'
<1> DEFINE H(k) == {e \in Handled : Key[e] = k}
<1>1. \A k : IsFiniteSet(H(k)) /\ Cardinality(H(k)) \in Nat
  <2> SUFFICES ASSUME NEW k PROVE IsFiniteSet(H(k)) /\ Cardinality(H(k)) \in Nat
    OBVIOUS
  <2>1. H(k) \subseteq Dgrams
    BY DEF Handled
  <2> QED BY <2>1, DgramsAssumption, FS_Subset, FS_CardinalityType
<1>2. resets \in Nat
  BY BoundsAssumption DEF TypeOK
<1>3. ASSUME NEW d \in Dgrams, Receive(d) PROVE CountOK'
  <2>1. resets' = resets
    BY <1>3 DEF Receive
  <2>2. CASE Key[d] \in seen
    <3>1. seen' = seen /\ Handled' = Handled
      BY <1>3, <2>2 DEF Receive, Goto, TypeOK, Handled
    <3> QED BY <2>1, <3>1 DEF CountOK
  <2>3. CASE Key[d] \notin seen
    <3>1. seen' = seen \cup {Key[d]} /\ d \notin Handled /\ Handled' = Handled \cup {d}
      BY <1>3, <2>3 DEF Receive, Goto, TypeOK, Handled
    <3> SUFFICES ASSUME NEW k \in {Key[e] : e \in Dgrams}
                 PROVE  Cardinality({e \in Handled' : Key[e] = k}) <= resets + (IF k \in seen' THEN 1 ELSE 0)
      BY <2>1 DEF CountOK
    <3>2. CASE k = Key[d]
      <4>1. {e \in Handled' : Key[e] = k} = H(k) \cup {d} /\ d \notin H(k)
        BY <3>1, <3>2
      <4>3. Cardinality(H(k)) <= resets
        BY <1>1, <1>2, <2>3, <3>2 DEF CountOK
      <4> HIDE DEF H
      <4>4. IsFiniteSet(H(k))
        BY <1>1
      <4>2. Cardinality(H(k) \cup {d}) = Cardinality(H(k)) + 1
        BY <4>1, <4>4, FS_AddElement
      <4> QED BY <1>1, <1>2, <3>1, <3>2, <4>1, <4>2, <4>3
    <3>3. CASE k # Key[d]
      <4>1. {e \in Handled' : Key[e] = k} = H(k) /\ (k \in seen' <=> k \in seen)
        BY <3>1, <3>3
      <4> QED BY <4>1 DEF CountOK
    <3> QED BY <3>2, <3>3
  <2> QED BY <2>2, <2>3
<1>4. ASSUME RetrieveEvidences PROVE CountOK'
  <2>1. resets' = resets + 1 /\ seen' = {} /\ Handled' = Handled
    BY <1>4 DEF RetrieveEvidences, Handled
  <2> SUFFICES ASSUME NEW k \in {Key[e] : e \in Dgrams} PROVE Cardinality(H(k)) <= resets + 1
    <3>1. ASSUME NEW k \in {Key[e] : e \in Dgrams}, Cardinality(H(k)) <= resets + 1
          PROVE  Cardinality({e \in Handled' : Key[e] = k}) <= resets' + (IF k \in seen' THEN 1 ELSE 0)
      <4>1. {e \in Handled' : Key[e] = k} = H(k)
        BY <2>1
      <4>2. resets' + (IF k \in seen' THEN 1 ELSE 0) = resets + 1
        BY <2>1, <1>2
      <4> QED BY <3>1, <4>1, <4>2
    <3> QED BY <3>1 DEF CountOK
  <2>2. Cardinality(H(k)) <= resets + (IF k \in seen THEN 1 ELSE 0)
    BY DEF CountOK
  <2> HIDE DEF H
  <2> QED BY <1>1, <1>2, <2>2
<1>5. ASSUME ~RetrieveEvidences, Handled' = Handled, ~\E d \in Dgrams : Receive(d) PROVE CountOK'
  <2>1. UNCHANGED <<resets, seen>>
    BY <1>5 DEF Next, vars, relayv, ProcessEvidence, CheckInSync, Hold, AssertInSync, Schedule,
       DropUnknown, UpdateSyncd, OnSync, Flush, FlushNext, FlushErase, FlushEnd, Processor, LockCalendar,
       WaitEmpty, LookNothing, LookTake, EnforceOrder, Tick
  <2> QED BY <1>5, <2>1 DEF CountOK
<1> QED BY <1>3, <1>4, <1>5, HandledStep

\* Between two local deltas an evidence is handled once, for any number of
\* deliveries, losses of sync, flushes and windows (relay::daemon::process_work).
THEOREM OncePerWindow == Spec => []HandledOncePerWindow
<1> DEFINE J == IInv /\ PassedOn /\ CountOK
<1>1. Init => PassedOn /\ CountOK
  <2> SUFFICES ASSUME Init PROVE PassedOn /\ CountOK
    OBVIOUS
  <2>1. Handled = {} /\ seen = {} /\ resets = 0
    BY DEF Init, Handled
  <2>2. \A k : {e \in Handled : Key[e] = k} = {}
    BY <2>1
  <2>3. CountOK
    BY <2>1, <2>2, FS_EmptySet DEF CountOK
  <2> QED BY <2>3 DEF Init, PassedOn
<1>2. IInv /\ PassedOn /\ CountOK /\ [Next]_vars => PassedOn' /\ CountOK'
  BY HandledStep, CountStep DEF IInv
<1>3. IInv /\ CountOK => HandledOncePerWindow
  <2> SUFFICES ASSUME IInv, CountOK, NEW d \in Dgrams
               PROVE  Cardinality({e \in Dgrams : Key[e] = Key[d] /\ phase[e] \notin {"new", "ignored"}}) <= resets + 1
    BY DEF HandledOncePerWindow
  <2> DEFINE S == {e \in Handled : Key[e] = Key[d]}
  <2>1. S = {e \in Dgrams : Key[e] = Key[d] /\ phase[e] \notin {"new", "ignored"}}
    BY DEF Handled
  <2>2. Cardinality(S) <= resets + (IF Key[d] \in seen THEN 1 ELSE 0)
    BY DEF CountOK
  <2>3. Cardinality(S) \in Nat
    <3>1. S \subseteq Dgrams
      BY <2>1
    <3> QED BY <3>1, DgramsAssumption, FS_Subset, FS_CardinalityType
  <2>4. resets \in Nat
    BY BoundsAssumption DEF IInv, TypeOK
  <2> HIDE DEF S
  <2>5. Cardinality(S) <= resets + 1
    BY <2>2, <2>3, <2>4
  <2> QED BY <2>1, <2>5
<1> QED BY <1>1, <1>2, <1>3, Inductive, PTL DEF Spec
=============================================================================
