---------------------------- MODULE Wallet_proofs ----------------------------
(***************************************************************************)
(* Proofs about Wallet, for any devices, workers, keys and bounds: what a  *)
(* device takes for an answer; what becomes of the keys whose addresses    *)
(* somebody was told, and of the devices that were paired; and what the    *)
(* wallet pays, with which accounts, and what it refuses to pay.           *)
(***************************************************************************)
EXTENDS Wallet, SequenceTheorems, FiniteSetTheorems, TLAPS

-----------------------------------------------------------------------------
(***************************************************************************)
(* The exchange between devices and workers.                               *)
(***************************************************************************)

\* Workers that have a request of d.
Busy(d) == {w \in Working : work[w].dev = d}

\* Objects on their first connection.
First == {"new", "hello", "verified"}

\* What the variables are, as far as the answers are concerned.
Shape ==
    /\ n = [ask |-> n.ask, boot |-> n.boot, loc |-> n.loc] /\ n.ask \in Nat
    /\ DOMAIN object = Device /\ DOMAIN asking = Device
    /\ outbox = [d \in Device |-> outbox[d]] /\ inbox = [d \in Device |-> inbox[d]]
    /\ work = [w \in Worker |-> work[w]]
    /\ \A w \in Working :
         /\ work[w] = [dev |-> work[w].dev, id |-> work[w].id, req |-> work[w].req, addrs |-> work[w].addrs]
         /\ work[w].dev \in Device \cup {None}

\* The request of a device is in one place: on its way, with one worker, or
\* answered; and nowhere when the device waits for nothing.
Tidy(d) ==
    /\ asking[d] = 0 => outbox[d] = None /\ inbox[d] = <<>> /\ Busy(d) = {}
    /\ outbox[d] # None => outbox[d].id = asking[d] /\ inbox[d] = <<>> /\ Busy(d) = {}
    /\ \A w \in Busy(d) : work[w].id = asking[d] /\ inbox[d] = <<>> /\ \A v \in Busy(d) : v = w
    /\ inbox[d] \in {<<>>, <<asking[d]>>}

AnswersInv == Shape /\ \A d \in Device : object[d] \in First => Tidy(d)

\* A worker that is in struct wallet has a request for it, and its key is in the
\* table; so is all that it writes.
SavingInv ==
    /\ DOMAIN saving = Worker
    /\ \A w \in Worker :
         \/ saving[w] = Outside
         \/ /\ saving[w].at \in {"asked", "writing", "saved"} /\ up
            /\ w \in Working /\ work[w].req.op \notin BackendOps
            /\ saving[w].key \in keys /\ saving[w].keys \subseteq keys

LEMMA SaversWork ==
    ASSUME SavingInv, NEW w \in Worker, saving[w].at # "outside"
    PROVE  up /\ w \in Working /\ work[w].req.op \notin BackendOps /\ saving[w].key \in keys
BY DEF SavingInv, Outside

LEMMA NoneIsNoDevice == None \notin Device
BY WalletAssumption

\* A device that a step does not concern.
LEMMA OthersTidy ==
    ASSUME AnswersInv, NEW e \in Device, object'[e] \in First => object[e] \in First,
           asking'[e] = asking[e], outbox'[e] = outbox[e], inbox'[e] = inbox[e],
           Busy(e)' = Busy(e), \A w \in Busy(e) : work'[w] = work[w]
    PROVE  object'[e] \in First => Tidy(e)'
BY DEF AnswersInv, Tidy

\* A request is answered at once (send_response).
LEMMA AnsweredAtOnce ==
    ASSUME AnswersInv, NEW w \in Worker, NEW d \in Device, NEW ops,
           Takes(w, d, ops), Answer(d, outbox[d].id), UNCHANGED <<object, asking, work, n>>
    PROVE  AnswersInv'
<1>1. /\ outbox[d] # None /\ outbox' = [outbox EXCEPT ![d] = None]
      /\ inbox' = [inbox EXCEPT ![d] = Append(@, outbox[d].id)]
  BY DEF Takes, Answer
<1>2. \A e \in Device : Busy(e)' = Busy(e)
  BY DEF Busy, Working
<1>3. Shape'
  BY <1>1 DEF AnswersInv, Shape, Working
<1>4. ASSUME NEW e \in Device, object'[e] \in First
      PROVE  Tidy(e)'
  <2>1. CASE e # d
    <3>1. outbox'[e] = outbox[e] /\ inbox'[e] = inbox[e]
      BY <1>1, <2>1 DEF AnswersInv, Shape
    <3> QED BY <1>2, <1>4, <3>1, OthersTidy
  <2>2. CASE e = d
    <3>1. Tidy(d) /\ outbox'[d] = None /\ inbox'[d] = Append(inbox[d], outbox[d].id)
      BY <1>1, <1>4, <2>2 DEF AnswersInv, Shape
    <3>2. outbox[d].id = asking[d] /\ inbox[d] = <<>> /\ Busy(d) = {} /\ asking[d] # 0
      BY <1>1, <3>1 DEF Tidy
    <3>3. inbox'[d] = <<asking[d]>>
      BY <3>1, <3>2
    <3> QED BY <1>2, <2>2, <3>1, <3>2, <3>3 DEF Tidy
  <2> QED BY <2>1, <2>2
<1> QED BY <1>3, <1>4 DEF AnswersInv

\* A worker takes a request that it is not done with at once.
LEMMA TakenStep ==
    ASSUME AnswersInv, NEW w \in Worker, NEW d \in Device, NEW ops, NEW addrs,
           Takes(w, d, ops), Busies(w, d, addrs), UNCHANGED <<object, asking, inbox, n>>
    PROVE  AnswersInv'
<1> DEFINE req == outbox[d].req
<1>1. /\ outbox[d] # None /\ outbox' = [outbox EXCEPT ![d] = None] /\ w \notin Working
      /\ UNCHANGED <<object, asking, inbox, n>>
  BY DEF Takes
<1>2. work' = [work EXCEPT ![w] = [dev |-> d, id |-> outbox[d].id, req |-> req, addrs |-> addrs]]
  BY DEF Busies
<1> HIDE DEF req
<1>3. /\ work'[w] = [dev |-> d, id |-> outbox[d].id, req |-> req, addrs |-> addrs]
      /\ work' = [v \in Worker |-> work'[v]] /\ \A v \in Worker \ {w} : work'[v] = work[v]
  BY <1>2 DEF AnswersInv, Shape
<1>4. Working' \subseteq Working \cup {w} /\ Working \subseteq Working' \ {w} /\ w \notin Working
  BY <1>1, <1>3 DEF Working
<1>5. Shape'
  <2>1. outbox' = [e \in Device |-> outbox'[e]]
    BY <1>1 DEF AnswersInv, Shape
  <2>2. ASSUME NEW v \in Working'
        PROVE  /\ work'[v] = [dev |-> work'[v].dev, id |-> work'[v].id, req |-> work'[v].req, addrs |-> work'[v].addrs]
               /\ work'[v].dev \in Device \cup {None}
    <3>1. CASE v = w
      BY <1>3, <3>1
    <3>2. CASE v # w
      <4>1. v \in Working /\ v \in Worker
        BY <1>4, <3>2 DEF Working
      <4> QED BY <1>3, <3>2, <4>1 DEF AnswersInv, Shape
    <3> QED BY <3>1, <3>2
  <2> QED BY <1>1, <1>3, <2>1, <2>2 DEF AnswersInv, Shape
<1>6. ASSUME NEW e \in Device, object'[e] \in First
      PROVE  Tidy(e)'
  <2>1. CASE e # d
    <3>1. outbox'[e] = outbox[e] /\ inbox'[e] = inbox[e]
      BY <1>1, <2>1 DEF AnswersInv, Shape
    <3>2. Busy(e)' = Busy(e) /\ \A v \in Busy(e) : work'[v] = work[v]
      BY <1>3, <1>4, <2>1 DEF Busy, Working
    <3> QED BY <1>1, <1>6, <3>1, <3>2, OthersTidy
  <2>2. CASE e = d
    <3>1. Tidy(d) /\ outbox'[d] = None /\ inbox'[d] = inbox[d]
      BY <1>1, <1>6, <2>2 DEF AnswersInv, Shape
    <3>2. outbox[d].id = asking[d] /\ inbox[d] = <<>> /\ Busy(d) = {} /\ asking[d] # 0
      BY <1>1, <3>1 DEF Tidy
    <3>3. Busy(d)' \subseteq {w}
      BY <1>3, <1>4, <3>2 DEF Busy, Working
    <3>4. work'[w].id = asking'[d] /\ asking'[d] # 0
      BY <1>1, <1>3, <3>2
    <3> QED BY <2>2, <3>1, <3>2, <3>3, <3>4 DEF Tidy
  <2> QED BY <2>1, <2>2
<1> QED BY <1>5, <1>6 DEF AnswersInv

\* A worker is done with a request: the answer goes to the device that it was
\* taken from, if that is still connected.
LEMMA DoneStep ==
    ASSUME AnswersInv, NEW w \in Worker, w \in Working, Done(w), UNCHANGED <<object, asking, outbox, n>>
    PROVE  AnswersInv'
<1> DEFINE d == work[w].dev
<1>1. work' = [v \in Worker |-> work'[v]] /\ work'[w].id = 0 /\ \A v \in Worker \ {w} : work'[v] = work[v]
  BY DEF Done, Idle, AnswersInv, Shape
<1>2. Working' = Working \ {w}
  BY <1>1 DEF Working
<1>3. d \in Device \cup {None}
  BY DEF AnswersInv, Shape
<1>4. IF d = None THEN inbox' = inbox ELSE inbox' = [inbox EXCEPT ![d] = Append(@, work[w].id)]
  BY DEF Done, Answer
<1>5. Shape'
  <2>1. inbox' = [e \in Device |-> inbox'[e]]
    BY <1>4 DEF AnswersInv, Shape
  <2> QED BY <1>1, <1>2, <2>1 DEF AnswersInv, Shape, Working
<1>6. ASSUME NEW e \in Device, object'[e] \in First
      PROVE  Tidy(e)'
  <2>1. CASE e # d
    <3>1. inbox'[e] = inbox[e]
      BY <1>4, <2>1 DEF AnswersInv, Shape
    <3>2. Busy(e)' = Busy(e) /\ \A v \in Busy(e) : work'[v] = work[v]
      BY <1>1, <1>2, <2>1 DEF Busy, Working
    <3> QED BY <1>6, <3>1, <3>2, OthersTidy
  <2>2. CASE e = d
    <3>1. Tidy(e) /\ w \in Busy(e) /\ d # None
      BY <1>6, <2>2, WalletAssumption DEF AnswersInv, Busy
    <3>2. /\ work[w].id = asking[e] /\ inbox[e] = <<>> /\ Busy(e) = {w}
          /\ asking[e] # 0 /\ outbox[e] = None
      BY <3>1 DEF Tidy
    <3>3. inbox'[e] = <<asking[e]>>
      BY <1>4, <2>2, <3>1, <3>2 DEF AnswersInv, Shape
    <3>4. Busy(e)' = {}
      BY <1>1, <1>2, <3>2 DEF Busy, Working
    <3> QED BY <3>2, <3>3, <3>4 DEF Tidy
  <2> QED BY <2>1, <2>2
<1> QED BY <1>5, <1>6 DEF AnswersInv

\* A device asks: nothing of an earlier request is anywhere.
LEMMA AskStep ==
    ASSUME AnswersInv, NEW d \in Device, NEW req, Ask(d, req)
    PROVE  AnswersInv'
<1>1. /\ asking[d] = 0 /\ n' = [n EXCEPT !.ask = @ + 1] /\ asking' = [asking EXCEPT ![d] = n'.ask]
      /\ UNCHANGED <<inbox, work>>
  BY DEF Ask, chain
<1>2. \/ UNCHANGED object
      \/ object' = [object EXCEPT ![d] = Begin(@)]
  BY DEF Ask, ConnectWalletd, Connect
<1>3. PICK o : outbox' = [outbox EXCEPT ![d] = o] /\ (o # None => o.id = n'.ask)
  <2> DEFINE o == IF stage'[d] = "off" \/ object'[d] = "mute" THEN None ELSE [id |-> n'.ask, req |-> req]
  <2>1. outbox' = [outbox EXCEPT ![d] = o]
    BY DEF Ask
  <2>2. o # None => o.id = n'.ask
    OBVIOUS
  <2> HIDE DEF o
  <2> QED BY <2>1, <2>2
<1>4. n'.ask \in Nat /\ n'.ask # 0 /\ n' = [ask |-> n'.ask, boot |-> n'.boot, loc |-> n'.loc]
  BY <1>1 DEF AnswersInv, Shape
<1>5. Shape'
  BY <1>1, <1>2, <1>3, <1>4 DEF AnswersInv, Shape, Working
<1>6. \A e \in Device : Busy(e)' = Busy(e)
  BY <1>1 DEF Busy, Working
<1>7. ASSUME NEW e \in Device, object'[e] \in First
      PROVE  Tidy(e)'
  <2>1. CASE e # d
    <3>1. object'[e] = object[e] /\ asking'[e] = asking[e] /\ outbox'[e] = outbox[e]
      BY <1>1, <1>2, <1>3, <2>1 DEF AnswersInv, Shape
    <3> QED BY <1>1, <1>6, <1>7, <3>1, OthersTidy
  <2>2. CASE e = d
    <3>1. object[d] \in First
      BY <1>2, <1>7, <2>2 DEF AnswersInv, Shape, Begin, First
    <3>2. outbox[d] = None /\ inbox[d] = <<>> /\ Busy(d) = {}
      BY <1>1, <3>1 DEF AnswersInv, Tidy
    <3>3. asking'[d] = n'.ask /\ outbox'[d] = o
      BY <1>1, <1>3 DEF AnswersInv, Shape
    <3> QED BY <1>1, <1>3, <1>4, <1>6, <2>2, <3>2, <3>3 DEF Tidy
  <2> QED BY <2>1, <2>2
<1> QED BY <1>5, <1>7 DEF AnswersInv

\* A device takes the answer: nothing is left.
LEMMA ReceiveStep ==
    ASSUME AnswersInv, NEW d \in Device, Receive(d)
    PROVE  AnswersInv' /\ AnswersTheRequest'
<1>1. /\ asking[d] # 0 /\ inbox[d] # <<>>
      /\ taken' = [asked |-> asking[d], got |-> Head(inbox[d]), object |-> object[d]]
      /\ asking' = [asking EXCEPT ![d] = 0] /\ inbox' = [inbox EXCEPT ![d] = Tail(@)]
      /\ UNCHANGED <<object, outbox, work, n>>
  BY DEF Receive, chain
<1>2. object[d] \in First => inbox[d] = <<asking[d]>> /\ outbox[d] = None /\ Busy(d) = {}
  BY <1>1 DEF AnswersInv, Tidy
<1>3. \A e \in Device : Busy(e)' = Busy(e)
  BY <1>1 DEF Busy, Working
<1>4. Shape'
  BY <1>1 DEF AnswersInv, Shape, Working
<1>5. ASSUME NEW e \in Device, object'[e] \in First
      PROVE  Tidy(e)'
  <2>1. CASE e # d
    <3>1. asking'[e] = asking[e] /\ inbox'[e] = inbox[e]
      BY <1>1, <2>1 DEF AnswersInv, Shape
    <3> QED BY <1>1, <1>3, <1>5, <3>1, OthersTidy
  <2>2. CASE e = d
    <3>1. asking'[d] = 0 /\ inbox'[d] = Tail(inbox[d])
      BY <1>1 DEF AnswersInv, Shape
    <3>2. inbox'[d] = <<>>
      <4>1. inbox[d] = <<asking[d]>>
        BY <1>1, <1>2, <1>5, <2>2
      <4>2. Tail(<<asking[d]>>) = <<>>
        OBVIOUS
      <4> QED BY <3>1, <4>1, <4>2
    <3> QED BY <1>1, <1>2, <1>3, <1>5, <2>2, <3>1, <3>2 DEF Tidy
  <2> QED BY <2>1, <2>2
<1>6. AnswersTheRequest'
  <2>1. object[d] = "verified" => Head(inbox[d]) = asking[d]
    BY <1>2 DEF First
  <2> QED BY <1>1, <2>1 DEF AnswersTheRequest
<1> QED BY <1>4, <1>5, <1>6 DEF AnswersInv

\* A device gives up: the request is withdrawn, and a worker that has it
\* answers to nobody (client::disconnect).
LEMMA FailStep ==
    ASSUME AnswersInv, NEW d \in Device, Fail(d)
    PROVE  AnswersInv'
<1>1. /\ inbox[d] = <<>> /\ asking' = [asking EXCEPT ![d] = 0] /\ outbox' = [outbox EXCEPT ![d] = None]
      /\ work' = [w \in Worker |-> IF w \in Working /\ work[w].dev = d THEN [work[w] EXCEPT !.dev = None] ELSE work[w]]
      /\ UNCHANGED <<object, inbox, n>>
  BY DEF Fail, Disconnect
<1>2. \A w \in Worker \ Busy(d) : work'[w] = work[w]
  BY <1>1 DEF Busy
<1>3. \A w \in Busy(d) : work'[w] = [dev |-> None, id |-> work[w].id, req |-> work[w].req, addrs |-> work[w].addrs]
  BY <1>1 DEF Busy, Working, AnswersInv, Shape
<1>3a. \A w \in Busy(d) : work'[w].dev = None
  <2> SUFFICES ASSUME NEW w \in Busy(d) PROVE work'[w].dev = None
    OBVIOUS
  <2>1. work'[w] = [dev |-> None, id |-> work[w].id, req |-> work[w].req, addrs |-> work[w].addrs]
    BY <1>3
  <2> QED BY <2>1
<1>4. Working' \subseteq Working
  BY <1>1 DEF Working
<1>5. Busy(d) \subseteq Worker /\ \A e \in Device : Busy(e) \subseteq Worker
  BY DEF Busy, Working
<1>6. Shape'
  <2>1. ASSUME NEW w \in Working'
        PROVE  /\ work'[w] = [dev |-> work'[w].dev, id |-> work'[w].id, req |-> work'[w].req, addrs |-> work'[w].addrs]
               /\ work'[w].dev \in Device \cup {None}
    <3>1. CASE w \in Busy(d)
      <4>1. work'[w] = [dev |-> None, id |-> work[w].id, req |-> work[w].req, addrs |-> work[w].addrs]
        BY <1>3, <3>1
      <4> QED BY <4>1
    <3>2. CASE w \notin Busy(d)
      <4>1. w \in Working /\ w \in Worker
        BY <1>4 DEF Working
      <4> QED BY <1>2, <3>2, <4>1 DEF AnswersInv, Shape
    <3> QED BY <3>1, <3>2
  <2> QED BY <1>1, <2>1 DEF AnswersInv, Shape
<1>7. ASSUME NEW e \in Device, object'[e] \in First
      PROVE  Tidy(e)'
  <2>1. CASE e # d
    <3>1. asking'[e] = asking[e] /\ outbox'[e] = outbox[e]
      BY <1>1, <2>1 DEF AnswersInv, Shape
    <3>2. \A w \in Busy(e) : w \notin Busy(d)
      BY <2>1 DEF Busy
    <3>3. \A w \in Busy(e) : work'[w] = work[w]
      BY <1>2, <1>5, <3>2
    <3>4. Busy(e)' = Busy(e)
      <4>1. Busy(e) \subseteq Busy(e)'
        BY <1>5, <3>3 DEF Busy, Working
      <4>2. ASSUME NEW w \in Busy(e)' PROVE w \in Busy(e)
        <5>1. w \in Worker /\ work'[w].dev = e /\ w \in Working
          BY <1>4 DEF Busy, Working
        <5>2. w \notin Busy(d)
          BY <1>3a, <5>1, NoneIsNoDevice
        <5> QED BY <1>2, <5>1, <5>2 DEF Busy
      <4> QED BY <4>1, <4>2
    <3> QED BY <1>1, <1>7, <3>1, <3>3, <3>4, OthersTidy
  <2>2. CASE e = d
    <3>1. asking'[d] = 0 /\ outbox'[d] = None /\ inbox'[d] = <<>>
      BY <1>1 DEF AnswersInv, Shape
    <3>2. Busy(d)' = {}
      <4> SUFFICES ASSUME NEW w \in Busy(d)' PROVE FALSE
        OBVIOUS
      <4>1. w \in Worker /\ work'[w].dev = d /\ w \in Working
        BY <1>4 DEF Busy, Working
      <4>2. w \notin Busy(d)
        BY <1>3a, <4>1, NoneIsNoDevice
      <4> QED BY <1>2, <4>1, <4>2 DEF Busy
    <3> QED BY <2>2, <3>1, <3>2 DEF Tidy
  <2> QED BY <2>1, <2>2
<1> QED BY <1>6, <1>7 DEF AnswersInv

\* The dialogue, and a device that is turned away.
LEMMA DialogueStep ==
    ASSUME AnswersInv, NEW d \in Device, Verify(d) \/ Challenge(d) \/ Reject(d)
    PROVE  AnswersInv'
<1>1. UNCHANGED <<asking, work, n>>
  BY DEF Verify, Challenge, Reject, chain
<1>2. \A e \in Device : Busy(e)' = Busy(e)
  BY <1>1 DEF Busy, Working
<1>3. CASE Verify(d)
  <2>1. object[d] = "hello" /\ object' = [object EXCEPT ![d] = "verified"] /\ UNCHANGED <<outbox, inbox>>
    BY <1>3 DEF Verify
  <2>2. Shape'
    BY <1>1, <2>1 DEF AnswersInv, Shape, Working
  <2>3. \A e \in Device : object'[e] \in First => object[e] \in First
    BY <2>1 DEF AnswersInv, Shape, First
  <2> QED BY <1>1, <1>2, <2>1, <2>2, <2>3, OthersTidy DEF AnswersInv
<1>4. CASE Challenge(d)
  <2>1. object' = [object EXCEPT ![d] = "spent"] /\ inbox' = [inbox EXCEPT ![d] = Append(@, 0)] /\ UNCHANGED outbox
    BY <1>4 DEF Challenge
  <2>2. Shape'
    BY <1>1, <2>1 DEF AnswersInv, Shape, Working
  <2>3. \A e \in Device : object'[e] \in First => object[e] \in First /\ inbox'[e] = inbox[e]
    BY <2>1 DEF AnswersInv, Shape, First
  <2> QED BY <1>1, <1>2, <2>1, <2>2, <2>3, OthersTidy DEF AnswersInv
<1>5. CASE Reject(d)
  <2>1. outbox' = [outbox EXCEPT ![d] = None] /\ UNCHANGED <<object, inbox>>
    BY <1>5 DEF Reject
  <2>2. Shape'
    BY <1>1, <2>1 DEF AnswersInv, Shape, Working
  <2>3. \A e \in Device : outbox'[e] = outbox[e] \/ outbox'[e] = None
    BY <2>1 DEF AnswersInv, Shape
  <2>4. ASSUME NEW e \in Device, object'[e] \in First PROVE Tidy(e)'
    BY <1>1, <1>2, <2>1, <2>3, <2>4 DEF AnswersInv, Tidy
  <2> QED BY <2>2, <2>4 DEF AnswersInv
<1> QED BY <1>3, <1>4, <1>5

\* The daemon ends: what it has sent still arrives.
LEMMA KillStep ==
    ASSUME AnswersInv, Kill
    PROVE  AnswersInv'
<1>1. /\ outbox' = [d \in Device |-> None] /\ work' = [w \in Worker |-> Idle]
      /\ UNCHANGED <<object, asking, inbox, n>>
  BY DEF Kill
<1>2. Working' = {} /\ \A e \in Device : Busy(e)' = {}
  BY <1>1 DEF Busy, Working, Idle
<1>3. Shape'
  BY <1>1, <1>2 DEF AnswersInv, Shape
<1>4. ASSUME NEW e \in Device, object'[e] \in First PROVE Tidy(e)'
  BY <1>1, <1>2, <1>4 DEF AnswersInv, Tidy
<1> QED BY <1>3, <1>4 DEF AnswersInv

\* Everything that leaves the exchange between devices and workers alone.
LEMMA ElsewhereStep ==
    ASSUME AnswersInv, UNCHANGED <<object, asking, outbox, inbox, work>>,
           n'.ask = n.ask, n' = [ask |-> n'.ask, boot |-> n'.boot, loc |-> n'.loc]
    PROVE  AnswersInv'
<1>1. \A e \in Device : Busy(e)' = Busy(e)
  BY DEF Busy, Working
<1>2. Shape'
  BY DEF AnswersInv, Shape, Working
<1> QED BY <1>1, <1>2, OthersTidy DEF AnswersInv

LEMMA InitAnswers == Init => AnswersInv /\ AnswersTheRequest
<1> SUFFICES ASSUME Init PROVE AnswersInv /\ AnswersTheRequest
  OBVIOUS
<1>1. Working = {} /\ \A d \in Device : Busy(d) = {}
  BY DEF Init, EndpointInit, Idle, Working, Busy
<1>2. Shape
  BY <1>1 DEF Init, RpcInit, EndpointInit, Shape
<1>3. \A d \in Device : Tidy(d)
  BY <1>1 DEF Init, RpcInit, Tidy
<1> QED BY <1>2, <1>3 DEF AnswersInv, AnswersTheRequest, Init

LEMMA AnswersStep ==
    ASSUME AnswersInv, SavingInv, AnswersTheRequest, [Next]_vars
    PROVE  AnswersInv' /\ AnswersTheRequest'
<1>1. ASSUME UNCHANGED taken PROVE AnswersTheRequest'
  BY <1>1 DEF AnswersTheRequest
<1>2. ASSUME NEW d \in Device, NEW req, Ask(d, req) PROVE AnswersInv' /\ AnswersTheRequest'
  <2>1. UNCHANGED taken
    BY <1>2 DEF Ask, past
  <2> QED BY <1>1, <1>2, <2>1, AskStep
<1>3. ASSUME NEW d \in Device, Receive(d) PROVE AnswersInv' /\ AnswersTheRequest'
  BY <1>3, ReceiveStep
<1>4. ASSUME NEW d \in Device, Fail(d) PROVE AnswersInv' /\ AnswersTheRequest'
  <2>1. UNCHANGED taken
    BY <1>4 DEF Fail, past
  <2> QED BY <1>1, <1>4, <2>1, FailStep
<1>5. ASSUME NEW d \in Device, Verify(d) \/ Challenge(d) \/ Reject(d) PROVE AnswersInv' /\ AnswersTheRequest'
  <2>1. UNCHANGED taken
    BY <1>5 DEF Verify, Challenge, Reject, past
  <2> QED BY <1>1, <1>5, <2>1, DialogueStep
<1>6. ASSUME NEW w \in Worker, NEW d \in Device,
             ServeReading(w, d) \/ ServePairing(w, d) \/ ServeSend(w, d) \/ Unreachable(w, d)
      PROVE  AnswersInv' /\ AnswersTheRequest'
  <2>1. PICK ops : Takes(w, d, ops) /\ Answer(d, outbox[d].id)
    BY <1>6 DEF ServeReading, ServePairing, ServeSend, Unreachable
  <2>2. UNCHANGED <<taken, object, asking, work, n>>
    BY <1>6 DEF ServeReading, ServePairing, ServeSend, Unreachable, past, chain
  <2> QED BY <1>1, <2>1, <2>2, AnsweredAtOnce
<1>7. ASSUME NEW w \in Worker, NEW d \in Device, Query(w, d) \/ ServeKeys(w, d)
      PROVE  AnswersInv' /\ AnswersTheRequest'
  <2>1. PICK ops, addrs : Takes(w, d, ops) /\ Busies(w, d, addrs)
    BY <1>7 DEF Query, ServeKeys
  <2>2. UNCHANGED <<taken, object, asking, inbox, n>>
    BY <1>7 DEF Query, ServeKeys, past
  <2> QED BY <1>1, <2>1, <2>2, TakenStep
<1>8. ASSUME NEW w \in Worker, Ping(w) \/ Balance(w) \/ Pay(w) \/ SignDraft(w) \/ GiveUp(w) \/ Tell(w)
      PROVE  AnswersInv' /\ AnswersTheRequest'
  <2>1. Done(w) /\ UNCHANGED <<taken, object, asking, outbox, n>> /\ (w \in Waiting \/ saving[w].at = "saved")
    BY <1>8 DEF Ping, Balance, Pay, SignDraft, GiveUp, Tell, Answered, past
  <2>2. w \in Working
    BY <2>1, SaversWork DEF Waiting
  <2> QED BY <1>1, <2>1, <2>2, DoneStep
<1>9. ASSUME NEW w \in Worker, CashQuery(w) \/ SaveBegins(w) \/ SaveEnds(w)
      PROVE  AnswersInv' /\ AnswersTheRequest'
  <2>1. UNCHANGED <<taken, object, asking, outbox, inbox, work, n>>
    BY <1>9 DEF CashQuery, SaveBegins, SaveEnds, past, wire, chain
  <2> QED BY <1>1, <2>1, ElsewhereStep DEF AnswersInv, Shape
<1>10. CASE Block
  <2>1. UNCHANGED <<taken, object, asking, outbox, inbox, work, n>>
    BY <1>10 DEF Block, past, wire
  <2> QED BY <1>1, <2>1, ElsewhereStep DEF AnswersInv, Shape
<1>11. CASE Start \/ \E k \in Key : LocalNew(k)
  <2>1. UNCHANGED <<taken, object, asking, outbox, inbox, work>>
    BY <1>11 DEF Start, LocalNew, past, wire, chain
  <2>2. n' = [n EXCEPT !.boot = @ + 1] \/ n' = [n EXCEPT !.loc = @ + 1]
    BY <1>11 DEF Start, LocalNew
  <2>3. n'.ask = n.ask /\ n' = [ask |-> n'.ask, boot |-> n'.boot, loc |-> n'.loc]
    BY <2>2 DEF AnswersInv, Shape
  <2> QED BY <1>1, <2>1, <2>3, ElsewhereStep
<1>12. CASE Kill
  <2>1. UNCHANGED taken
    BY <1>12 DEF Kill, past
  <2> QED BY <1>1, <1>12, <2>1, KillStep
<1>13. CASE UNCHANGED vars
  <2>1. UNCHANGED <<taken, object, asking, outbox, inbox, work, n>>
    BY <1>13 DEF vars, past, wire, chain
  <2> QED BY <1>1, <2>1, ElsewhereStep DEF AnswersInv, Shape
<1> QED
  BY <1>2, <1>3, <1>4, <1>5, <1>6, <1>7, <1>8, <1>9, <1>10, <1>11, <1>12, <1>13 DEF Next

-----------------------------------------------------------------------------
(***************************************************************************)
(* The keys.                                                               *)
(***************************************************************************)

\* The key is in the file when the workers that have it open are done.
InFile(k) == k \in file \/ \E v \in Writing : k \in saving[v].keys

\* The key is in the file when the workers that are to save it are done.
Kept(k) == InFile(k) \/ \E v \in Worker : saving[v].at = "asked" /\ saving[v].key = k

\* The keys, until one of the flaws: those in memory are kept; those whose
\* addresses somebody was told are in memory, or in the file from another
\* process, which no save has forgotten; and the flag is only down when the
\* workers that ask for a save can do without.
ToldKeysInFile ==
    Fine => /\ told \subseteq file \cup keys
            /\ Writing # {} => told \subseteq keys
            /\ ~up => told \subseteq file
            /\ up => \A k \in keys : Kept(k)
            /\ need_save \/ \A w \in Worker : saving[w].at = "asked" => InFile(saving[w].key)

\* A step of the workers that leaves those in struct wallet alone.
LEMMA SavingKept ==
    ASSUME SavingInv, UNCHANGED saving, keys \subseteq keys',
           \A w \in Worker : saving[w] # Outside =>
                up' /\ work'[w].id = work[w].id /\ work'[w].req = work[w].req
    PROVE  SavingInv'
<1>1. \A w \in Worker : saving[w] # Outside => (w \in Working <=> w \in Working')
  BY DEF Working
<1> QED BY <1>1 DEF SavingInv

\* A worker goes to another place in struct wallet.
LEMMA SavingGoes ==
    ASSUME SavingInv, NEW w \in Worker, NEW at \in {"asked", "writing", "saved"}, NEW k, NEW ks,
           GoTo(w, at, k, ks), k \in keys', ks \subseteq keys', keys \subseteq keys', up, UNCHANGED up,
           \A v \in Worker : v # w => work'[v] = work[v],
           w \in Working', work'[w].req.op \notin BackendOps
    PROVE  SavingInv'
<1>1. /\ saving'[w] = [at |-> at, key |-> k, keys |-> ks] /\ DOMAIN saving' = Worker
      /\ \A v \in Worker : v # w => saving'[v] = saving[v]
  BY DEF GoTo, SavingInv
<1>2. /\ saving'[w].at \in {"asked", "writing", "saved"} /\ saving'[w].key \in keys' /\ saving'[w].keys \subseteq keys'
  BY <1>1
<1>3. \A v \in Worker : v # w => (v \in Working <=> v \in Working')
  BY DEF Working
<1>4. ASSUME NEW v \in Worker
      PROVE  \/ saving'[v] = Outside
             \/ /\ saving'[v].at \in {"asked", "writing", "saved"} /\ up' /\ v \in Working'
                /\ work'[v].req.op \notin BackendOps /\ saving'[v].key \in keys' /\ saving'[v].keys \subseteq keys'
  BY <1>1, <1>2, <1>3 DEF SavingInv
<1> QED BY <1>1, <1>4 DEF SavingInv

LEMMA SavingStep ==
    ASSUME AnswersInv, SavingInv, \A d \in Device : outbox[d] # None => outbox[d].id # 0, [Next]_vars
    PROVE  SavingInv'
<1>1. \A w \in Worker : saving[w] # Outside => up /\ w \in Working /\ work[w].req.op \notin BackendOps
  BY DEF SavingInv
<1>2. ASSUME UNCHANGED <<saving, work, keys, up>> PROVE SavingInv'
  BY <1>1, <1>2, SavingKept
<1>3. ASSUME NEW w \in Worker, NEW d \in Device, ServeKeys(w, d) PROVE SavingInv'
  <2>1. /\ outbox[d] # None /\ outbox[d].req.op \in {"new_address", "add_address"} /\ up /\ UNCHANGED up
        /\ work' = [work EXCEPT ![w] = [dev |-> d, id |-> outbox[d].id, req |-> outbox[d].req, addrs |-> <<>>]]
    BY <1>3 DEF ServeKeys, Takes, Busies
  <2>2. /\ work'[w] = [dev |-> d, id |-> outbox[d].id, req |-> outbox[d].req, addrs |-> <<>>]
        /\ \A v \in Worker : v # w => work'[v] = work[v]
    BY <2>1 DEF AnswersInv, Shape
  <2>3. work'[w].id = outbox[d].id /\ work'[w].req = outbox[d].req
    BY <2>2
  <2>4. outbox[d].id # 0
    BY <2>1
  <2>5. w \in Working' /\ work'[w].req.op \notin BackendOps
    BY <2>1, <2>3, <2>4 DEF Working, BackendOps
  <2>6. PICK k \in Key : \/ k \in keys /\ UNCHANGED keys /\ GoTo(w, "saved", k, {})
                         \/ keys' = keys \cup {k} /\ GoTo(w, "asked", k, {})
    BY <1>3 DEF ServeKeys, AddAddress, NewAddress, Emplace
  <2> QED BY <2>1, <2>2, <2>5, <2>6, SavingGoes
<1>4. ASSUME NEW w \in Worker, SaveBegins(w) \/ SaveEnds(w) PROVE SavingInv'
  <2>1. saving[w].at \in {"asked", "writing"} /\ UNCHANGED <<work, keys, up>>
    BY <1>4 DEF SaveBegins, SaveEnds, chain
  <2>2. /\ up /\ w \in Working /\ work[w].req.op \notin BackendOps /\ saving[w].key \in keys
    BY <2>1 DEF SavingInv, Outside
  <2>3. \/ GoTo(w, "saved", saving[w].key, {})
        \/ GoTo(w, "writing", saving[w].key, keys)
    BY <1>4 DEF SaveBegins, SaveEnds
  <2>4. w \in Working'
    BY <2>1, <2>2 DEF Working
  <2> QED BY <2>1, <2>2, <2>3, <2>4, SavingGoes
<1>5. ASSUME NEW w \in Worker, Tell(w) PROVE SavingInv'
  <2>1. /\ saving' = [saving EXCEPT ![w] = Outside] /\ work' = [work EXCEPT ![w] = Idle] /\ UNCHANGED <<keys, up>>
    BY <1>5 DEF Tell, Done
  <2>2. saving'[w] = Outside /\ DOMAIN saving' = Worker
    BY <2>1 DEF SavingInv
  <2>3. \A v \in Worker : v # w => saving'[v] = saving[v] /\ work'[v] = work[v] /\ (v \in Working' <=> v \in Working)
    BY <2>1 DEF SavingInv, AnswersInv, Shape, Working
  <2> QED BY <2>1, <2>2, <2>3 DEF SavingInv
<1>6. CASE Kill
  <2>1. saving' = [w \in Worker |-> Outside]
    BY <1>6 DEF Kill
  <2> QED BY <2>1 DEF SavingInv
<1>7. CASE Start
  <2>1. ~up /\ UNCHANGED saving
    BY <1>7 DEF Start
  <2> QED BY <1>1, <2>1 DEF SavingInv
<1>8. ASSUME NEW w \in Worker, NEW d \in Device, Query(w, d) PROVE SavingInv'
  <2>1. /\ w \notin Working /\ UNCHANGED <<saving, keys, up>>
        /\ \E x : work' = [work EXCEPT ![w] = x]
    BY <1>8 DEF Query, Takes, Busies, mem
  <2>2. \A v \in Worker : v # w => work'[v] = work[v]
    BY <2>1 DEF AnswersInv, Shape
  <2> QED BY <1>1, <2>1, <2>2, SavingKept
<1>9. ASSUME NEW w \in Worker, Ping(w) \/ Balance(w) \/ Pay(w) \/ SignDraft(w) \/ GiveUp(w) PROVE SavingInv'
  <2>1. /\ w \in Waiting /\ UNCHANGED <<saving, keys, up>> /\ work' = [work EXCEPT ![w] = Idle]
    BY <1>9 DEF Ping, Balance, Pay, SignDraft, GiveUp, Answered, Done, mem
  <2>2. \A v \in Worker : v # w => work'[v] = work[v]
    BY <2>1 DEF AnswersInv, Shape
  <2>3. saving[w] = Outside
    BY <1>1, <2>1 DEF Waiting
  <2> QED BY <1>1, <2>1, <2>2, <2>3, SavingKept
<1>10. ASSUME NEW d \in Device, Fail(d) PROVE SavingInv'
  <2>1. /\ work' = [w \in Worker |-> IF w \in Working /\ work[w].dev = d THEN [work[w] EXCEPT !.dev = None] ELSE work[w]]
        /\ UNCHANGED <<saving, keys, up>>
    BY <1>10 DEF Fail, mem
  <2>2. ASSUME NEW w \in Worker PROVE work'[w].id = work[w].id /\ work'[w].req = work[w].req
    <3>1. CASE w \in Working /\ work[w].dev = d
      <4>1. work[w] = [dev |-> work[w].dev, id |-> work[w].id, req |-> work[w].req, addrs |-> work[w].addrs]
        BY <3>1 DEF AnswersInv, Shape
      <4>2. work'[w] = [work[w] EXCEPT !.dev = None]
        BY <2>1, <3>1
      <4> QED BY <4>1, <4>2
    <3>2. CASE ~(w \in Working /\ work[w].dev = d)
      BY <2>1, <3>2
    <3> QED BY <3>1, <3>2
  <2> QED BY <1>1, <2>1, <2>2, SavingKept
<1>11. ASSUME NEW d \in Device, \/ \E req : Ask(d, req)
                               \/ Receive(d) \/ Verify(d) \/ Challenge(d) \/ Reject(d)
      PROVE  SavingInv'
  <2>1. UNCHANGED <<saving, work, keys, up>>
    BY <1>11 DEF Ask, Receive, Verify, Challenge, Reject, mem, chain
  <2> QED BY <1>2, <2>1
<1>12. ASSUME NEW w \in Worker, NEW d \in Device,
             ServeReading(w, d) \/ ServePairing(w, d) \/ ServeSend(w, d) \/ Unreachable(w, d)
      PROVE  SavingInv'
  <2>1. UNCHANGED <<saving, work, keys, up>>
    BY <1>12 DEF ServeReading, ServePairing, ServeSend, Unreachable, mem, chain
  <2> QED BY <1>2, <2>1
<1>13. CASE (\E w \in Worker : CashQuery(w)) \/ Block \/ (\E k \in Key : LocalNew(k)) \/ UNCHANGED vars
  <2>1. UNCHANGED <<saving, work, keys, up>>
    BY <1>13 DEF CashQuery, Block, LocalNew, vars, mem, chain
  <2> QED BY <1>2, <2>1
<1> QED
  BY <1>3, <1>4, <1>5, <1>6, <1>7, <1>8, <1>9, <1>10, <1>11, <1>12, <1>13 DEF Next

\* A step leaves the keys alone.
LEMMA KeysUntouched ==
    ASSUME ToldKeysInFile, UNCHANGED <<keys, file, need_save, saving, told, up>>, Fine' => Fine
    PROVE  ToldKeysInFile'
BY DEF ToldKeysInFile, Kept, InFile, Writing

\* What another worker writes, and what it is to save, stays when one moves.
LEMMA OthersStay ==
    ASSUME SavingInv, NEW w \in Worker, NEW x, saving' = [saving EXCEPT ![w] = x]
    PROVE  saving'[w] = x /\ \A v \in Worker : v # w => saving'[v] = saving[v]
BY DEF SavingInv

\* A key is put in the table.
LEMMA ServeKeysStep ==
    ASSUME SavingInv, ToldKeysInFile, NEW w \in Worker, NEW d \in Device, ServeKeys(w, d), w \notin Working
    PROVE  ToldKeysInFile'
<1>1. Fine /\ up /\ UNCHANGED <<up, file, told, flaws>>
  BY DEF ServeKeys, Takes, past
<1>2. saving[w] = Outside
  BY DEF SavingInv
<1>3. PICK k \in Key : \/ k \in keys /\ UNCHANGED <<keys, need_save>> /\ GoTo(w, "saved", k, {})
                       \/ keys' = keys \cup {k} /\ need_save' = TRUE /\ GoTo(w, "asked", k, {})
  BY DEF ServeKeys, AddAddress, NewAddress, Emplace
<1>4. PICK at \in {"saved", "asked"} : /\ saving'[w] = [at |-> at, key |-> k, keys |-> {}]
                                       /\ \/ at = "saved" /\ k \in keys /\ UNCHANGED <<keys, need_save>>
                                          \/ at = "asked" /\ keys' = keys \cup {k} /\ need_save' = TRUE
  BY <1>3, OthersStay DEF GoTo
<1>5. \A v \in Worker : v # w => saving'[v] = saving[v]
  BY <1>3, OthersStay DEF GoTo
<1>6. saving'[w].at = at /\ saving'[w].key = k /\ saving[w].at = "outside"
  BY <1>2, <1>4 DEF Outside
<1>7. Writing' = Writing /\ \A v \in Writing : saving'[v] = saving[v]
  BY <1>4, <1>5, <1>6 DEF Writing
<1>8. \A x : InFile(x) => InFile(x)'
  BY <1>1, <1>7 DEF InFile
<1>9. \A x : Kept(x) => Kept(x)'
  BY <1>5, <1>6, <1>8 DEF Kept
<1>10. \A x \in keys' : Kept(x)'
  <2>1. \A x \in keys : Kept(x)
    BY <1>1 DEF ToldKeysInFile
  <2>2. at = "asked" => Kept(k)'
    BY <1>6 DEF Kept
  <2> QED BY <1>4, <1>9, <2>1, <2>2
<1>11. need_save' \/ \A v \in Worker : saving'[v].at = "asked" => InFile(saving[v].key)'
  BY <1>1, <1>4, <1>5, <1>6, <1>8 DEF ToldKeysInFile
<1> QED BY <1>1, <1>4, <1>7, <1>10, <1>11 DEF ToldKeysInFile

\* The file is opened, or need not be.
LEMMA SaveBeginsStep ==
    ASSUME SavingInv, ToldKeysInFile, NEW w \in Worker, SaveBegins(w)
    PROVE  ToldKeysInFile'
<1>1. Fine /\ saving[w].at = "asked" /\ UNCHANGED <<up, keys, need_save, told>>
  BY DEF SaveBegins, past
<1>2. up
  BY <1>1 DEF SavingInv, Outside
<1>3. CASE ~need_save /\ GoTo(w, "saved", saving[w].key, {}) /\ UNCHANGED <<file, flaws>>
  <2>1. saving'[w].at = "saved" /\ \A v \in Worker : v # w => saving'[v] = saving[v]
    <3>1. saving'[w] = [at |-> "saved", key |-> saving[w].key, keys |-> {}]
      BY <1>3, OthersStay DEF GoTo
    <3>2. \A v \in Worker : v # w => saving'[v] = saving[v]
      BY <1>3, OthersStay DEF GoTo
    <3> QED BY <3>1, <3>2
  <2>2. Writing' = Writing /\ \A v \in Writing : saving'[v] = saving[v]
    BY <1>1, <2>1 DEF Writing
  <2>3. \A x : InFile(x) => InFile(x)'
    BY <1>3, <2>2 DEF InFile
  <2>4. InFile(saving[w].key)
    BY <1>1, <1>3 DEF ToldKeysInFile
  <2>5. \A x : Kept(x) => Kept(x)'
    BY <2>1, <2>3, <2>4 DEF Kept
  <2>6. \A v \in Worker : saving'[v].at = "asked" => InFile(saving[v].key)'
    BY <1>1, <1>3, <2>1, <2>3 DEF ToldKeysInFile
  <2> QED BY <1>1, <1>2, <1>3, <2>2, <2>5, <2>6 DEF ToldKeysInFile
<1>4. CASE /\ need_save /\ GoTo(w, "writing", saving[w].key, keys) /\ file' = {}
           /\ flaws' = IF file \subseteq keys THEN {} ELSE {"overwritten"}
  <2>1. saving'[w] = [at |-> "writing", key |-> saving[w].key, keys |-> keys]
    BY <1>4, OthersStay DEF GoTo
  <2>2. w \in Writing' /\ saving'[w].keys = keys
    BY <2>1 DEF Writing
  <2>3. \A x \in keys : Kept(x)'
    BY <2>2 DEF Kept, InFile
  <2>4. Fine' => told \subseteq keys
    BY <1>1, <1>4 DEF ToldKeysInFile, Fine
  <2> QED BY <1>1, <1>2, <1>4, <2>3, <2>4 DEF ToldKeysInFile
<1> QED BY <1>3, <1>4 DEF SaveBegins

\* The file is written and closed.
LEMMA SaveEndsStep ==
    ASSUME SavingInv, ToldKeysInFile, NEW w \in Worker, SaveEnds(w)
    PROVE  ToldKeysInFile'
<1>1. /\ Fine /\ saving[w].at = "writing" /\ UNCHANGED <<up, keys, told>>
      /\ file' = saving[w].keys /\ need_save' = FALSE
  BY DEF SaveEnds, past
<1>2. up /\ w \in Writing
  BY <1>1 DEF SavingInv, Outside, Writing
<1>3. Fine' => /\ file \subseteq file'
               /\ \A v \in Worker : saving[v].at = "asked" => saving[v].key \in file'
  BY DEF SaveEnds, Fine
<1>4. saving'[w].at = "saved" /\ \A v \in Worker : v # w => saving'[v] = saving[v]
  <2>1. saving'[w] = [at |-> "saved", key |-> saving[w].key, keys |-> {}]
    BY OthersStay DEF SaveEnds, GoTo
  <2>2. \A v \in Worker : v # w => saving'[v] = saving[v]
    BY OthersStay DEF SaveEnds, GoTo
  <2> QED BY <2>1, <2>2
<1>5. ASSUME Fine', NEW x, InFile(x) PROVE InFile(x)'
  <2>1. CASE x \in file
    BY <1>3, <1>5, <2>1 DEF InFile
  <2>2. ASSUME NEW v \in Writing, x \in saving[v].keys PROVE InFile(x)'
    <3>1. CASE v = w
      BY <1>1, <2>2, <3>1 DEF InFile
    <3>2. CASE v # w
      <4>1. v \in Writing' /\ saving'[v] = saving[v]
        BY <1>4, <3>2 DEF Writing
      <4> QED BY <2>2, <4>1 DEF InFile
    <3> QED BY <3>1, <3>2
  <2> QED BY <1>5, <2>1, <2>2 DEF InFile
<1>6. ASSUME Fine', NEW x, Kept(x) PROVE Kept(x)'
  <2>1. CASE InFile(x)
    BY <1>5, <1>6, <2>1 DEF Kept
  <2>2. ASSUME NEW v \in Worker, saving[v].at = "asked", saving[v].key = x PROVE Kept(x)'
    BY <1>3, <1>6, <2>2 DEF Kept, InFile
  <2> QED BY <1>6, <2>1, <2>2 DEF Kept
<1>7. Fine' => \A v \in Worker : saving'[v].at = "asked" => InFile(saving[v].key)'
  BY <1>3, <1>4 DEF InFile
<1>8. told \subseteq keys
  BY <1>1, <1>2 DEF ToldKeysInFile
<1>9. Fine' => \A k \in keys : Kept(k)'
  BY <1>1, <1>2, <1>6 DEF ToldKeysInFile
<1> QED BY <1>1, <1>2, <1>7, <1>8, <1>9 DEF ToldKeysInFile

\* An address is answered.
LEMMA TellStep ==
    ASSUME SavingInv, ToldKeysInFile, NEW w \in Worker, Tell(w)
    PROVE  ToldKeysInFile'
<1>1. /\ Fine /\ saving[w].at = "saved" /\ saving' = [saving EXCEPT ![w] = Outside]
      /\ told' \subseteq told \cup {saving[w].key} /\ UNCHANGED <<up, keys, file, need_save, flaws>>
  BY DEF Tell
<1>2. up /\ saving[w].key \in keys
  BY <1>1 DEF SavingInv, Outside
<1>3. saving'[w].at = "outside" /\ \A v \in Worker : v # w => saving'[v] = saving[v]
  <2>1. saving'[w] = Outside
    BY <1>1, OthersStay
  <2>2. \A v \in Worker : v # w => saving'[v] = saving[v]
    BY <1>1, OthersStay
  <2> QED BY <2>1, <2>2 DEF Outside
<1>4. Writing' = Writing /\ \A v \in Writing : saving'[v] = saving[v]
  BY <1>1, <1>3 DEF Writing
<1>5. \A x : InFile(x) <=> InFile(x)'
  BY <1>1, <1>4 DEF InFile
<1>6. \A x : Kept(x) => Kept(x)'
  BY <1>1, <1>3, <1>5 DEF Kept
<1>7. need_save' \/ \A v \in Worker : saving'[v].at = "asked" => InFile(saving[v].key)'
  BY <1>1, <1>3, <1>5 DEF ToldKeysInFile
<1>8. \A k \in keys : Kept(k)'
  BY <1>1, <1>2, <1>6 DEF ToldKeysInFile
<1> QED BY <1>1, <1>2, <1>4, <1>7, <1>8 DEF ToldKeysInFile

\* Nobody is in wallet::save: the keys are in the file.
LEMMA SettledFile ==
    ASSUME SavingInv, ToldKeysInFile, Fine, Saving = {}
    PROVE  told \subseteq file
<1>1. Writing = {} /\ \A w \in Worker : saving[w].at # "asked"
  BY DEF Saving, Writing
<1>2. \A k : Kept(k) => k \in file
  BY <1>1 DEF Kept, InFile
<1> QED BY <1>2 DEF ToldKeysInFile

LEMMA ToldStep ==
    ASSUME SavingInv, ToldKeysInFile, [Next]_vars
    PROVE  ToldKeysInFile'
<1>1. ASSUME NEW w \in Worker, NEW d \in Device, ServeKeys(w, d) PROVE ToldKeysInFile'
  <2>1. w \notin Working
    BY <1>1 DEF ServeKeys, Takes
  <2> QED BY <1>1, <2>1, ServeKeysStep
<1>2. ASSUME NEW w \in Worker, SaveBegins(w) \/ SaveEnds(w) \/ Tell(w) PROVE ToldKeysInFile'
  BY <1>2, SaveBeginsStep, SaveEndsStep, TellStep
<1>3. ASSUME NEW k \in Key, LocalNew(k)
      PROVE  ToldKeysInFile'
  <2>1. Fine /\ UNCHANGED <<keys, up, need_save, saving>>
    BY <1>3 DEF LocalNew
  <2>2. Fine' => Writing = {} /\ file' = (file \cup {GovKey}) \cup {k} /\ told' = told \cup {k}
    BY <1>3 DEF LocalNew, Save, ImportGovKey, Load, Fine
  <2>3. Writing' = Writing
    BY <2>1 DEF Writing
  <2>4. Fine' => \A x : InFile(x) => InFile(x)'
    BY <2>2 DEF InFile
  <2>5. Fine' => \A x : Kept(x) => Kept(x)'
    BY <2>1, <2>4 DEF Kept
  <2>6. Fine' => need_save' \/ \A v \in Worker : saving'[v].at = "asked" => InFile(saving[v].key)'
    BY <2>1, <2>4 DEF ToldKeysInFile
  <2>7. Fine' => (up' => \A x \in keys' : Kept(x)')
    BY <2>1, <2>5 DEF ToldKeysInFile
  <2> QED BY <2>1, <2>2, <2>3, <2>6, <2>7 DEF ToldKeysInFile
<1>4. CASE Start
  <2>1. keys' = file \cup {GovKey} /\ file' = keys' /\ UNCHANGED <<told, saving>> /\ Fine /\ ~up
    BY <1>4 DEF Start, Save, ImportGovKey, Load, past
  <2>2. \A w \in Worker : saving[w].at = "outside"
    BY <2>1 DEF SavingInv, Outside
  <2>3. Writing' = {} /\ \A w \in Worker : saving'[w].at # "asked"
    BY <2>1, <2>2 DEF Writing
  <2>4. told \subseteq file
    BY <2>1 DEF ToldKeysInFile
  <2>5. \A k \in keys' : Kept(k)'
    BY <2>1 DEF Kept, InFile
  <2> QED BY <2>1, <2>3, <2>4, <2>5 DEF ToldKeysInFile
<1>5. CASE Kill
  <2>1. /\ saving' = [w \in Worker |-> Outside] /\ up' = FALSE /\ UNCHANGED told /\ Fine
        /\ file' \in IF Writing = {} THEN {file} ELSE SUBSET keys
        /\ Fine' => flaws' = IF Saving # {} /\ ~(told \subseteq file') THEN {"cut"} ELSE {}
    BY <1>5 DEF Kill, Fine, past
  <2>2. Writing' = {} /\ \A w \in Worker : saving'[w].at # "asked"
    BY <2>1 DEF Writing, Outside
  <2>3. Fine' => told \subseteq file'
    <3>1. CASE Saving # {}
      BY <2>1, <3>1 DEF Fine
    <3>2. CASE Saving = {}
      <4>1. Writing = {}
        BY <3>2 DEF Saving, Writing
      <4> QED BY <2>1, <3>2, <4>1, SettledFile
    <3> QED BY <3>1, <3>2
  <2> QED BY <2>1, <2>2, <2>3 DEF ToldKeysInFile
<1>6. ASSUME NEW d \in Device, \/ \E req : Ask(d, req)
                              \/ Receive(d) \/ Fail(d) \/ Verify(d) \/ Challenge(d) \/ Reject(d)
      PROVE  ToldKeysInFile'
  <2>1. UNCHANGED <<keys, file, need_save, saving, told, flaws, up>>
    BY <1>6 DEF Ask, Receive, Fail, Verify, Challenge, Reject, mem, past
  <2> QED BY <2>1, KeysUntouched DEF Fine
<1>7. ASSUME NEW w \in Worker, NEW d \in Device,
             ServeReading(w, d) \/ ServePairing(w, d) \/ ServeSend(w, d) \/ Unreachable(w, d) \/ Query(w, d)
      PROVE  ToldKeysInFile'
  <2>1. UNCHANGED <<keys, file, need_save, saving, told, up>> /\ Fine
    BY <1>7 DEF ServeReading, ServePairing, ServeSend, Unreachable, Query, Takes, mem, past
  <2> QED BY <2>1, KeysUntouched
<1>8. ASSUME NEW w \in Worker, Ping(w) \/ Balance(w) \/ Pay(w) \/ SignDraft(w) \/ GiveUp(w) \/ CashQuery(w)
      PROVE  ToldKeysInFile'
  <2>1. UNCHANGED <<keys, file, need_save, saving, told, flaws, up>>
    BY <1>8 DEF Ping, Balance, Pay, SignDraft, GiveUp, CashQuery, Answered, mem, past
  <2> QED BY <2>1, KeysUntouched DEF Fine
<1>9. CASE Block \/ UNCHANGED vars
  <2>1. UNCHANGED <<keys, file, need_save, saving, told, flaws, up>>
    BY <1>9 DEF Block, vars, mem, past
  <2> QED BY <2>1, KeysUntouched DEF Fine
<1> QED BY <1>1, <1>2, <1>3, <1>4, <1>5, <1>6, <1>7, <1>8, <1>9 DEF Next

-----------------------------------------------------------------------------
(***************************************************************************)
(* Sums over finite sets.  SumFunctionOnSet is a recursion on a set that   *)
(* takes out the element CHOOSE picks; that the order does not matter,     *)
(* and all that follows from it, is proved by induction on the size of     *)
(* the set, with the set of the sizes for which the claim holds in the     *)
(* place of a predicate.                                                   *)
(***************************************************************************)

\* A nonempty set of numbers has a least one.
LEMMA LeastNumber ==
    ASSUME NEW T, T \subseteq Nat, T # {}
    PROVE  \E x \in T : \A y \in T : x <= y
<1> DEFINE R == OpToRel(<, Nat)
<1>1. IsWellFoundedOn(R, Nat)
  BY NatLessThanWellFounded
<1> HIDE DEF R
<1>2. PICK x \in T : \A y \in T : ~ (<<y, x>> \in R)
  BY <1>1, WFMin
<1>3. \A i, j \in Nat : i < j => <<i, j>> \in R
  BY DEF R, OpToRel
<1>4. x \in Nat /\ \A y \in T : y \in Nat
  OBVIOUS
<1>5. \A y \in T : ~(y < x)
  BY <1>2, <1>3, <1>4
<1> QED BY <1>4, <1>5

\* Induction over the subsets of a finite set, with a set of subsets in the
\* place of a predicate.
LEMMA SubsetInduction ==
    ASSUME NEW S, IsFiniteSet(S), NEW G, {} \in G,
           \A T \in SUBSET S : T # {} /\ (\A x \in T : T \ {x} \in G) => T \in G
    PROVE  S \in G
<1> SUFFICES ASSUME S \notin G PROVE FALSE
  OBVIOUS
<1> DEFINE Bad == {c \in Nat : \E T \in SUBSET S : Cardinality(T) = c /\ T \notin G}
<1>1. \A T \in SUBSET S : IsFiniteSet(T) /\ Cardinality(T) \in Nat
  BY FS_Subset, FS_CardinalityType
<1>2. PICK c \in Bad : \A m \in Bad : c <= m
  <2>1. Bad \subseteq Nat /\ Bad # {}
    BY <1>1
  <2> HIDE DEF Bad
  <2> QED BY <2>1, LeastNumber
<1>3. PICK T \in SUBSET S : Cardinality(T) = c /\ T \notin G
  BY <1>2
<1>4. \A x \in T : T \ {x} \in G
  <2> SUFFICES ASSUME NEW x \in T, T \ {x} \notin G PROVE FALSE
    OBVIOUS
  <2>1. Cardinality(T \ {x}) = Cardinality(T) - 1
    BY <1>1, FS_RemoveElement
  <2>2. Cardinality(T \ {x}) \in Nat /\ Cardinality(T) \in Nat
    BY <1>1
  <2>3. Cardinality(T \ {x}) \in Bad
    BY <2>2
  <2>4. c <= Cardinality(T \ {x})
    BY <1>2, <2>3
  <2> QED BY <1>3, <2>1, <2>2, <2>4
<1> QED BY <1>3, <1>4

-----------------------------------------------------------------------------
(***************************************************************************)
(* SumFunctionOnSet of the community modules.                              *)
(***************************************************************************)

Pick(s) == CHOOSE x \in s : TRUE

\* The function on subsets by which FoldFunctionOnSet is defined.
IsSum(g, f, S) ==
    g = [s \in SUBSET S |-> IF s = {} THEN 0 ELSE f[CHOOSE x \in s : TRUE] + g[s \ {CHOOSE x \in s : TRUE}]]

\* SumFunctionOnSet is the value at S of a function on the subsets of S, once
\* there is one that satisfies its recursion.
LEMMA SumIs ==
    ASSUME NEW f, NEW S, \E g : IsSum(g, f, S)
    PROVE  \E g : IsSum(g, f, S) /\ SumFunctionOnSet(f, S) = g[S]
BY DEF SumFunctionOnSet, FoldFunctionOnSet, MapThenFoldSet, IsSum

SumAt(g, f, s) == g[s] = IF s = {} THEN 0 ELSE f[Pick(s)] + g[s \ {Pick(s)}]

\* The recursion, one subset at a time.
LEMMA SumAtIs ==
    ASSUME NEW f, NEW S, NEW g
    PROVE  IsSum(g, f, S) <=> /\ g = [s \in SUBSET S |-> g[s]]
                              /\ \A s \in SUBSET S : SumAt(g, f, s)
BY DEF IsSum, SumAt, Pick

\* The element that the fold takes first.
LEMMA FirstIn ==
    ASSUME NEW s, s # {}
    PROVE  Pick(s) \in s
BY DEF Pick

\* Induction over numbers, likewise for a set in the place of a predicate.
LEMMA NumberInduction ==
    ASSUME NEW G, 0 \in G, \A c \in Nat : c \in G => c + 1 \in G
    PROVE  \A c \in Nat : c \in G
<1> SUFFICES ASSUME NEW k \in Nat, k \notin G PROVE FALSE
  OBVIOUS
<1> DEFINE Bad == {c \in Nat : c \notin G}
<1>1. PICK c \in Bad : \A m \in Bad : c <= m
  <2>1. Bad \subseteq Nat /\ Bad # {}
    OBVIOUS
  <2> HIDE DEF Bad
  <2> QED BY <2>1, LeastNumber
<1>2. c \in Nat /\ c # 0 /\ c \notin G
  OBVIOUS
<1>3. c - 1 \in Nat /\ (c - 1) + 1 = c /\ ~(c <= c - 1)
  BY <1>2
<1>4. c - 1 \in G
  BY <1>1, <1>3
<1> QED BY <1>2, <1>3, <1>4

\* It exists for finite sets: it can be had for subsets of up to c elements.
LEMMA SumExists ==
    ASSUME NEW f, NEW S, IsFiniteSet(S)
    PROVE  \E g : IsSum(g, f, S)
<1> DEFINE Level(c) == {s \in SUBSET S : Cardinality(s) <= c}
           IsPart(g, c) == /\ g = [s \in Level(c) |-> g[s]]
                           /\ \A s \in Level(c) : SumAt(g, f, s)
           G == {c \in Nat : \E g : IsPart(g, c)}
<1>1. \A s \in SUBSET S : IsFiniteSet(s) /\ Cardinality(s) \in Nat
  BY FS_Subset, FS_CardinalityType
<1>2. 0 \in G
  <2> DEFINE g == [s \in Level(0) |-> 0]
  <2>1. \A s \in Level(0) : s = {}
    BY <1>1, FS_EmptySet
  <2>2. g = [s \in Level(0) |-> g[s]] /\ \A s \in Level(0) : g[s] = 0
    OBVIOUS
  <2> HIDE DEF g
  <2>3. IsPart(g, 0)
    BY <2>1, <2>2 DEF SumAt
  <2> QED BY <2>3
<1>3. ASSUME NEW c \in Nat, c \in G
      PROVE  c + 1 \in G
  <2>1. PICK g : IsPart(g, c)
    BY <1>3
  <2> DEFINE e(s) == IF s = {} THEN 0 ELSE f[Pick(s)] + g[s \ {Pick(s)}]
             h == [s \in Level(c + 1) |-> e(s)]
  <2>2. \A s \in Level(c) : s \in Level(c + 1) /\ h[s] = g[s]
    <3> SUFFICES ASSUME NEW s \in Level(c) PROVE s \in Level(c + 1) /\ h[s] = g[s]
      OBVIOUS
    <3>1. s \in Level(c + 1)
      BY <1>1
    <3>2. h[s] = e(s)
      BY <3>1
    <3>3. SumAt(g, f, s)
      BY <2>1
    <3> QED BY <3>1, <3>2, <3>3 DEF SumAt
  <2>3. \A s \in Level(c + 1) : s # {} => s \ {Pick(s)} \in Level(c)
    <3> SUFFICES ASSUME NEW s \in Level(c + 1), s # {} PROVE s \ {Pick(s)} \in Level(c)
      OBVIOUS
    <3>1. Pick(s) \in s
      BY FirstIn
    <3>2. IsFiniteSet(s) /\ Cardinality(s) \in Nat /\ Cardinality(s) <= c + 1
      BY <1>1
    <3>3. Cardinality(s \ {Pick(s)}) = Cardinality(s) - 1
      BY <3>1, <3>2, FS_RemoveElement
    <3> QED BY <3>2, <3>3
  <2>4. h = [s \in Level(c + 1) |-> h[s]] /\ \A s \in Level(c + 1) : h[s] = e(s)
    OBVIOUS
  <2>5. \A s \in Level(c + 1) : SumAt(h, f, s)
    <3> SUFFICES ASSUME NEW s \in Level(c + 1) PROVE SumAt(h, f, s)
      OBVIOUS
    <3> HIDE DEF h, Level
    <3> QED BY <2>2, <2>3, <2>4 DEF SumAt
  <2>6. IsPart(h, c + 1)
    BY <2>4, <2>5
  <2> HIDE DEF IsPart, h
  <2>7. c + 1 \in Nat /\ \E k : IsPart(k, c + 1)
    BY <2>6
  <2> QED BY <2>7
<1>4. Cardinality(S) \in Nat /\ \A s \in SUBSET S : Cardinality(s) <= Cardinality(S)
  BY FS_CardinalityType, FS_Subset
<1>5. Cardinality(S) \in G
  <2> HIDE DEF G
  <2>1. \A c \in Nat : c \in G
    BY <1>2, <1>3, NumberInduction
  <2> QED BY <1>4, <2>1
<1>6. PICK g : IsPart(g, Cardinality(S))
  BY <1>5
<1>7. Level(Cardinality(S)) = SUBSET S
  BY <1>4
<1> QED BY <1>6, <1>7, SumAtIs

\* Two such functions agree where both are defined.
LEMMA SumUnique ==
    ASSUME NEW f, NEW S, IsFiniteSet(S), NEW T \in SUBSET S, NEW g, NEW h, IsSum(g, f, S), IsSum(h, f, T)
    PROVE  g[T] = h[T]
<1> DEFINE G == {s \in SUBSET T : g[s] = h[s]}
<1>1. \A s \in SUBSET T : SumAt(g, f, s) /\ SumAt(h, f, s)
  BY SumAtIs
<1>2. {} \in G
  BY <1>1 DEF SumAt
<1>3. \A s \in SUBSET T : s # {} /\ (\A x \in s : s \ {x} \in G) => s \in G
  BY <1>1, FirstIn DEF SumAt
<1>4. IsFiniteSet(T)
  BY FS_Subset
<1> HIDE DEF G
<1>5. T \in G
  BY ONLY <1>2, <1>3, <1>4, SubsetInduction, Zenon
<1> QED BY <1>5 DEF G

\* The sum over nothing, and over one more element: the chosen one.
LEMMA SumDef ==
    ASSUME NEW f, NEW S, IsFiniteSet(S)
    PROVE  SumFunctionOnSet(f, S) =
              IF S = {} THEN 0 ELSE f[Pick(S)] + SumFunctionOnSet(f, S \ {Pick(S)})
<1>1. PICK g : IsSum(g, f, S) /\ SumFunctionOnSet(f, S) = g[S]
  BY SumIs, SumExists
<1>2. SumAt(g, f, S)
  BY <1>1, SumAtIs
<1>3. ASSUME S # {}
      PROVE  SumFunctionOnSet(f, S \ {Pick(S)}) = g[S \ {Pick(S)}]
  <2> DEFINE T == S \ {Pick(S)}
  <2>1. IsFiniteSet(T) /\ T \in SUBSET S
    BY FS_RemoveElement
  <2> HIDE DEF T
  <2>2. PICK h : IsSum(h, f, T) /\ SumFunctionOnSet(f, T) = h[T]
    BY <2>1, SumIs, SumExists
  <2>3. g[T] = h[T]
    BY <1>1, <2>1, <2>2, SumUnique
  <2> QED BY <2>2, <2>3 DEF T
<1> QED BY <1>1, <1>2, <1>3 DEF SumAt

\* The sum of nothing.
LEMMA SumEmpty ==
    ASSUME NEW f
    PROVE  SumFunctionOnSet(f, {}) = 0
BY SumDef, FS_EmptySet

\* The sum, without the element that CHOOSE takes.
LEMMA SumFirst ==
    ASSUME NEW f, NEW S, IsFiniteSet(S), S # {}
    PROVE  /\ Pick(S) \in S
           /\ SumFunctionOnSet(f, S) = f[Pick(S)] + SumFunctionOnSet(f, S \ {Pick(S)})
BY SumDef, FirstIn

\* Sums of integers are integers.
LEMMA SumType ==
    ASSUME NEW f, NEW S, IsFiniteSet(S), \A x \in S : f[x] \in Int
    PROVE  SumFunctionOnSet(f, S) \in Int
<1> DEFINE G == {s \in SUBSET S : SumFunctionOnSet(f, s) \in Int}
<1>1. \A s \in SUBSET S : IsFiniteSet(s)
  BY FS_Subset
<1>2. {} \in G
  BY SumEmpty
<1>3. ASSUME NEW s \in SUBSET S, s # {}, \A x \in s : s \ {x} \in G
      PROVE  s \in G
  <2> DEFINE c == Pick(s)
  <2>1. c \in s /\ SumFunctionOnSet(f, s) = f[c] + SumFunctionOnSet(f, s \ {c})
    BY <1>1, <1>3, SumFirst
  <2> HIDE DEF c
  <2>2. SumFunctionOnSet(f, s \ {c}) \in Int /\ f[c] \in Int
    BY <1>3, <2>1
  <2> QED BY <2>1, <2>2
<1> HIDE DEF G
<1>4. S \in G
  BY ONLY IsFiniteSet(S), <1>2, <1>3, SubsetInduction, Zenon
<1> QED BY <1>4 DEF G

\* Any element may be taken out first.
LEMMA SumRemove ==
    ASSUME NEW f, NEW S, IsFiniteSet(S), \A x \in S : f[x] \in Int, NEW y \in S
    PROVE  SumFunctionOnSet(f, S) = f[y] + SumFunctionOnSet(f, S \ {y})
<1> DEFINE Total(s) == SumFunctionOnSet(f, s)
           G == {s \in SUBSET S : \A x \in s : Total(s) = f[x] + Total(s \ {x})}
<1>1. \A s \in SUBSET S : IsFiniteSet(s) /\ Total(s) \in Int
  BY FS_Subset, SumType
<1>2. {} \in G
  OBVIOUS
<1>3. ASSUME NEW s \in SUBSET S, s # {}, \A x \in s : s \ {x} \in G, NEW x \in s
      PROVE  Total(s) = f[x] + Total(s \ {x})
  <2> DEFINE c == Pick(s)
             u == (s \ {c}) \ {x}
  <2>1. c \in s /\ Total(s) = f[c] + Total(s \ {c})
    BY <1>1, <1>3, SumDef, FirstIn
  <2>2. CASE x = c
    BY <2>1, <2>2
  <2>3. CASE x # c
    <3> HIDE DEF c
    <3>1. u = (s \ {x}) \ {c} /\ x \in s \ {c} /\ c \in s \ {x}
      BY <2>1, <2>3
    <3>2. Total(s \ {c}) = f[x] + Total(u) /\ Total(s \ {x}) = f[c] + Total(u)
      BY <1>3, <2>1, <3>1
    <3>3. Total(u) \in Int /\ f[c] \in Int /\ f[x] \in Int
      BY <1>1, <2>1
    <3> HIDE DEF Total, u
    <3> QED BY <2>1, <3>2, <3>3
  <2> QED BY <2>2, <2>3
<1>4. \A s \in SUBSET S : s # {} /\ (\A x \in s : s \ {x} \in G) => s \in G
  BY <1>3
<1> HIDE DEF G
<1>5. S \in G
  BY ONLY IsFiniteSet(S), <1>2, <1>4, SubsetInduction, Zenon
<1> QED BY <1>5 DEF G

\* A sum only depends on the values.
LEMMA SumSame ==
    ASSUME NEW f, NEW h, NEW S, IsFiniteSet(S), \A x \in S : f[x] = h[x]
    PROVE  SumFunctionOnSet(f, S) = SumFunctionOnSet(h, S)
<1> DEFINE G == {s \in SUBSET S : SumFunctionOnSet(f, s) = SumFunctionOnSet(h, s)}
<1>1. \A s \in SUBSET S : IsFiniteSet(s)
  BY FS_Subset
<1>2. {} \in G
  BY SumEmpty
<1>3. ASSUME NEW s \in SUBSET S, s # {}, \A x \in s : s \ {x} \in G
      PROVE  s \in G
  <2> DEFINE c == Pick(s)
  <2>1. /\ c \in s
        /\ SumFunctionOnSet(f, s) = f[c] + SumFunctionOnSet(f, s \ {c})
        /\ SumFunctionOnSet(h, s) = h[c] + SumFunctionOnSet(h, s \ {c})
    BY <1>1, <1>3, SumFirst
  <2> HIDE DEF c
  <2>2. SumFunctionOnSet(f, s \ {c}) = SumFunctionOnSet(h, s \ {c}) /\ f[c] = h[c]
    BY <1>3, <2>1
  <2>3. SumFunctionOnSet(f, s) = SumFunctionOnSet(h, s)
    BY <2>1, <2>2
  <2> QED BY <2>3
<1> HIDE DEF G
<1>4. S \in G
  BY ONLY IsFiniteSet(S), <1>2, <1>3, SubsetInduction, Zenon
<1> QED BY <1>4 DEF G

-----------------------------------------------------------------------------
(***************************************************************************)
(* The file of devices: what was saved is loaded again, as long as every   *)
(* name is one word of it.                                                 *)
(***************************************************************************)

\* A table of devices.
IsRoster(ds) == ds = [d \in DOMAIN ds |-> ds[d]] /\ DOMAIN ds \subseteq Device /\ IsFiniteSet(DOMAIN ds)

\* The tables are gone through, each element once.
LEMMA OrderIs ==
    ASSUME NEW S, IsFiniteSet(S)
    PROVE  /\ Cardinality(S) \in Nat
           /\ InOrder(S) \in [1..Cardinality(S) -> S] /\ IsInjective(InOrder(S))
           /\ \A x \in S : \E i \in 1..Cardinality(S) : InOrder(S)[i] = x
<1> DEFINE k == Cardinality(S)
           w == InOrder(S)
<1>1. k \in Nat /\ ExistsBijection(1..k, S)
  BY FS_CardinalityType
<1>2. \E f \in [1..k -> S] : IsInjective(f)
  BY <1>1 DEF ExistsBijection, Bijection, Injection
<1>3. w \in [1..k -> S] /\ IsInjective(w)
  BY <1>2 DEF InOrder, SetToSeq
<1> HIDE DEF w, k
<1>4. w \in Injection(1..k, S)
  BY <1>3 DEF Injection
<1>5. Cardinality(1..k) = k
  <2>1. Cardinality(1..k) = IF 1 > k THEN 0 ELSE k - 1 + 1
    BY <1>1, FS_Interval
  <2> QED BY <1>1, <2>1
<1>6. w \in Surjection(1..k, S)
  BY <1>4, <1>5, FS_Injection DEF k
<1> QED BY <1>1, <1>3, <1>6 DEF Surjection, w, k

\* The function by which FlattenSeq is defined.
IsFlat(g, s) == g = [i \in 1..Len(s) |-> IF i = 1 THEN s[i] ELSE g[i-1] \o s[i]]

LEMMA FlatIs ==
    ASSUME NEW s, Len(s) # 0, \E g : IsFlat(g, s)
    PROVE  \E g : IsFlat(g, s) /\ FlattenSeq(s) = g[Len(s)]
BY DEF FlattenSeq, IsFlat

FlatAt(g, s, i) == g[i] = IF i = 1 THEN s[i] ELSE g[i-1] \o s[i]

\* The recursion, one position at a time.
LEMMA FlatAtIs ==
    ASSUME NEW s, NEW g
    PROVE  IsFlat(g, s) <=> g = [i \in 1..Len(s) |-> g[i]] /\ \A i \in 1..Len(s) : FlatAt(g, s, i)
BY DEF IsFlat, FlatAt

\* There is such a function, for sequences of sequences.
LEMMA FlatExists ==
    ASSUME NEW V, NEW s, Len(s) \in Nat, \A i \in 1..Len(s) : s[i] \in Seq(V)
    PROVE  \E g : IsFlat(g, s) /\ \A i \in 1..Len(s) : g[i] \in Seq(V)
<1> DEFINE c == Len(s)
           IsPart(g, m) == /\ g = [i \in 1..m |-> g[i]]
                           /\ \A i \in 1..m : FlatAt(g, s, i) /\ g[i] \in Seq(V)
           G == {m \in Nat : m <= c => \E g : IsPart(g, m)}
<1>1. 0 \in G
  <2> DEFINE e == [i \in 1..0 |-> 0]
  <2>1. IsPart(e, 0)
    OBVIOUS
  <2> HIDE DEF IsPart
  <2> QED BY <2>1
<1>2. ASSUME NEW m \in Nat, m \in G PROVE m + 1 \in G
  <2>1. CASE ~(m + 1 <= c)
    BY <2>1
  <2>2. CASE m + 1 <= c
    <3>1. PICK g : IsPart(g, m)
      BY <1>2, <2>2
    <3> DEFINE new == IF m + 1 = 1 THEN s[m + 1] ELSE g[m] \o s[m + 1]
               h == [i \in 1..(m + 1) |-> IF i = m + 1 THEN new ELSE g[i]]
    <3>2. new \in Seq(V)
      <4>1. s[m + 1] \in Seq(V)
        BY <2>2
      <4>2. CASE m = 0
        BY <4>1, <4>2
      <4>3. CASE m # 0
        <5>1. m \in 1..m
          BY <4>3
        <5>11. g[m] \in Seq(V)
          BY <3>1, <5>1
        <5>2. g[m] \o s[m + 1] \in Seq(V)
          BY <4>1, <5>11, ConcatProperties
        <5> QED BY <4>3, <5>2
      <4> QED BY <4>2, <4>3
    <3>3. \A i \in 1..m : i \in 1..(m + 1) /\ i # m + 1 /\ h[i] = g[i]
      OBVIOUS
    <3>4. h[m + 1] = new /\ m + 1 \in 1..(m + 1) /\ (m + 1) - 1 = m
      OBVIOUS
    <3>5. h = [i \in 1..(m + 1) |-> h[i]]
      OBVIOUS
    <3> HIDE DEF h
    <3>6. FlatAt(h, s, m + 1)
      <4>1. m # 0 => h[m] = g[m]
        BY <3>3
      <4> QED BY <3>4, <4>1 DEF FlatAt
    <3>7. ASSUME NEW i \in 1..m PROVE FlatAt(h, s, i) /\ h[i] \in Seq(V)
      <4>1. FlatAt(g, s, i) /\ g[i] \in Seq(V)
        BY <3>1
      <4>2. i # 1 => i - 1 \in 1..m
        OBVIOUS
      <4> QED BY <3>3, <4>1, <4>2 DEF FlatAt
    <3>8. \A i \in 1..(m + 1) : i \in 1..m \/ i = m + 1
      OBVIOUS
    <3>9. IsPart(h, m + 1)
      <4>1. \A i \in 1..(m + 1) : FlatAt(h, s, i) /\ h[i] \in Seq(V)
        BY <3>2, <3>4, <3>6, <3>7, <3>8
      <4> QED BY <3>5, <4>1
    <3> HIDE DEF IsPart
    <3> QED BY <3>9
  <2> QED BY <2>1, <2>2
<1>3. \A m \in Nat : m \in G
  <2> HIDE DEF G
  <2> QED BY <1>1, <1>2, NumberInduction
<1>4. PICK g : IsPart(g, c)
  BY <1>3
<1> QED BY <1>4, FlatAtIs

\* The words of the file.
WordsOf(ds) == Device \cup {ds[d] : d \in DOMAIN ds} \cup {"my", "device"}

\* What devices_t::save_ puts together: the words of one device after another.
Lines(ds) == [i \in DOMAIN InOrder(DOMAIN ds) |-> DeviceWords(ds, InOrder(DOMAIN ds)[i])]

LEMMA LinesAre ==
    ASSUME NEW ds, IsRoster(ds)
    PROVE  /\ SaveDevices(ds) = FlattenSeq(Lines(ds))
           /\ Len(Lines(ds)) = Cardinality(DOMAIN ds) /\ Cardinality(DOMAIN ds) \in Nat
           /\ \A i \in 1..Cardinality(DOMAIN ds) :
                /\ InOrder(DOMAIN ds)[i] \in DOMAIN ds
                /\ Lines(ds)[i] = DeviceWords(ds, InOrder(DOMAIN ds)[i])
                /\ Lines(ds)[i] \in Seq(WordsOf(ds))
<1> DEFINE o == InOrder(DOMAIN ds)
           c == Cardinality(DOMAIN ds)
<1>1. c \in Nat /\ o \in [1..c -> DOMAIN ds]
  BY OrderIs DEF IsRoster
<1>2. SaveDevices(ds) = FlattenSeq(Lines(ds))
  BY DEF SaveDevices, Lines
<1> HIDE DEF o, c
<1>3. DOMAIN o = 1..c /\ Lines(ds) = [i \in 1..c |-> DeviceWords(ds, o[i])]
  BY <1>1 DEF Lines, o
<1>4. ASSUME NEW i \in 1..c PROVE o[i] \in DOMAIN ds /\ DeviceWords(ds, o[i]) \in Seq(WordsOf(ds))
  <2>1. o[i] \in DOMAIN ds /\ o[i] \in WordsOf(ds) /\ ds[o[i]] \in WordsOf(ds)
    BY <1>1 DEF IsRoster, WordsOf
  <2>2. "my" \in WordsOf(ds) /\ "device" \in WordsOf(ds)
    BY DEF WordsOf
  <2> DEFINE V == WordsOf(ds)
             nm == ds[o[i]]
             dv == o[i]
  <2>3. dv \in V /\ nm \in V /\ "my" \in V /\ "device" \in V
    BY <2>1, <2>2
  <2> HIDE DEF V, nm, dv
  <2>4. Words(nm) \in Seq(V)
    <3>1. <<>> \in Seq(V) /\ <<nm>> \in Seq(V) /\ <<"my", "device">> \in Seq(V)
      BY <2>3
    <3> QED BY <3>1 DEF Words
  <2>5. <<dv>> \in Seq(V)
    BY <2>3
  <2>6. <<dv>> \o Words(nm) \in Seq(V)
    BY <2>4, <2>5, ConcatProperties
  <2> QED BY <2>1, <2>6 DEF DeviceWords, V, nm, dv
<1>5. Lines(ds) \in [1..c -> Seq(WordsOf(ds))]
  BY <1>3, <1>4
<1>6. Len(Lines(ds)) = c
  BY <1>1, <1>5
<1>7. \A i \in 1..c : Lines(ds)[i] = DeviceWords(ds, o[i])
  BY <1>3
<1> QED BY <1>1, <1>2, <1>4, <1>6, <1>7 DEF o, c

\* The file is a sequence of words.
LEMMA SavedIsSeq ==
    ASSUME NEW ds, IsRoster(ds)
    PROVE  SaveDevices(ds) \in Seq(WordsOf(ds))
<1> DEFINE s == Lines(ds)
           V == WordsOf(ds)
<1>1. SaveDevices(ds) = FlattenSeq(s) /\ Len(s) \in Nat /\ \A i \in 1..Len(s) : s[i] \in Seq(V)
  BY LinesAre
<1> HIDE DEF s, V
<1>2. CASE Len(s) = 0
  <2>1. FlattenSeq(s) = s
    BY <1>2 DEF FlattenSeq
  <2>2. s \in Seq(V)
    <3>1. s = [i \in 1..Cardinality(DOMAIN ds) |-> s[i]] /\ Cardinality(DOMAIN ds) = 0
      <4>1. Cardinality(DOMAIN ds) = 0 /\ InOrder(DOMAIN ds) \in [1..Cardinality(DOMAIN ds) -> DOMAIN ds]
        BY <1>2, LinesAre, OrderIs DEF IsRoster, s
      <4> QED BY <4>1 DEF s, Lines
    <3>2. s \in [1..0 -> V]
      BY <3>1
    <3> QED BY <3>2
  <2> QED BY <1>1, <2>1, <2>2 DEF V
<1>3. CASE Len(s) # 0
  <2>1. \E g : IsFlat(g, s)
    BY <1>1, FlatExists
  <2>2. PICK g : IsFlat(g, s) /\ FlattenSeq(s) = g[Len(s)]
    BY <1>3, <2>1, FlatIs
  <2>3. \A i \in 1..Len(s) : FlatAt(g, s, i)
    BY <2>2, FlatAtIs
  <2> DEFINE G == {m \in Nat : m \in 1..Len(s) => g[m] \in Seq(V)}
  <2>4. 0 \in G
    OBVIOUS
  <2>5. ASSUME NEW m \in Nat, m \in G PROVE m + 1 \in G
    <3> SUFFICES ASSUME m + 1 \in 1..Len(s) PROVE g[m + 1] \in Seq(V)
      OBVIOUS
    <3>1. FlatAt(g, s, m + 1) /\ (m + 1) - 1 = m /\ s[m + 1] \in Seq(V)
      BY <1>1, <2>3
    <3>2. CASE m = 0
      BY <3>1, <3>2 DEF FlatAt
    <3>3. CASE m # 0
      <4>1. m \in 1..Len(s)
        BY <1>1, <3>3
      <4>2. g[m] \in Seq(V)
        BY <2>5, <4>1
      <4>3. g[m] \o s[m + 1] \in Seq(V)
        BY <3>1, <4>2, ConcatProperties
      <4>4. g[m + 1] = g[m] \o s[m + 1]
        <5>1. m + 1 # 1
          BY <3>3
        <5>2. g[m + 1] = g[(m + 1) - 1] \o s[m + 1]
          BY <3>1, <5>1, Zenon DEF FlatAt
        <5> QED BY <3>1, <5>2, Zenon
      <4> QED BY <4>3, <4>4
    <3> QED BY <3>2, <3>3
  <2>6. \A m \in Nat : m \in G
    <3> HIDE DEF G
    <3> QED BY <2>4, <2>5, NumberInduction
  <2>7. Len(s) \in 1..Len(s)
    BY <1>1, <1>3
  <2>8. g[Len(s)] \in Seq(V)
    BY <1>1, <2>6, <2>7
  <2> QED BY <1>1, <2>2, <2>8 DEF V
<1> QED BY <1>2, <1>3

\* Names that are one word of the file.
OneWord(ds) == \A d \in DOMAIN ds : ds[d] \notin {NoName, DefaultName}

\* Two words for each device, the key and the name.
LEMMA SavedPairs ==
    ASSUME NEW ds, IsRoster(ds), OneWord(ds)
    PROVE  /\ Len(SaveDevices(ds)) = 2 * Cardinality(DOMAIN ds)
           /\ \A i \in 1..Cardinality(DOMAIN ds) :
                /\ SaveDevices(ds)[2*i - 1] = InOrder(DOMAIN ds)[i]
                /\ SaveDevices(ds)[2*i] = ds[InOrder(DOMAIN ds)[i]]
<1> DEFINE s == Lines(ds)
           V == WordsOf(ds)
           o == InOrder(DOMAIN ds)
           c == Cardinality(DOMAIN ds)
<1>1. /\ SaveDevices(ds) = FlattenSeq(s) /\ Len(s) = c /\ c \in Nat
      /\ \A i \in 1..c : o[i] \in DOMAIN ds /\ s[i] = DeviceWords(ds, o[i]) /\ s[i] \in Seq(V)
  BY LinesAre
<1> HIDE DEF s, V, o, c
<1>2. ASSUME NEW i \in 1..c
      PROVE  Len(s[i]) = 2 /\ s[i][1] = o[i] /\ s[i][2] = ds[o[i]]
  <2>1. Words(ds[o[i]]) = <<ds[o[i]]>>
    BY <1>1 DEF OneWord, Words
  <2>2. s[i] = <<o[i]>> \o <<ds[o[i]]>>
    BY <1>1, <2>1 DEF DeviceWords
  <2> DEFINE x == <<o[i]>>
             y == <<ds[o[i]]>>
  <2>3. o[i] \in V /\ ds[o[i]] \in V
    BY <1>1 DEF V, WordsOf, IsRoster
  <2>4. x \in Seq(V) /\ y \in Seq(V) /\ Len(x) = 1 /\ Len(y) = 1 /\ x[1] = o[i] /\ y[1] = ds[o[i]]
    BY <2>3
  <2> HIDE DEF x, y
  <2> DEFINE z == x \o y
  <2>5. /\ Len(z) = Len(x) + Len(y)
        /\ \A k \in 1..(Len(x) + Len(y)) : z[k] = IF k <= Len(x) THEN x[k] ELSE y[k - Len(x)]
    BY <2>4, ConcatProperties
  <2> HIDE DEF z
  <2>6. Len(z) = 2 /\ z[1] = x[1] /\ z[2] = y[1]
    BY <2>4, <2>5
  <2> QED BY <2>2, <2>4, <2>6 DEF x, y, z
<1>3. CASE c = 0
  <2>1. FlattenSeq(s) = s
    BY <1>1, <1>3 DEF FlattenSeq
  <2>2. \A i \in 1..c : FALSE
    BY <1>3
  <2>3. Len(SaveDevices(ds)) = 0 /\ 2 * c = 0
    BY <1>1, <1>3, <2>1
  <2> QED BY <2>2, <2>3 DEF c
<1>4. CASE c # 0
  <2>1. \E g : IsFlat(g, s)
    BY <1>1, FlatExists
  <2>2. PICK g : IsFlat(g, s) /\ FlattenSeq(s) = g[c]
    BY <1>1, <1>4, <2>1, FlatIs
  <2>3. \A i \in 1..c : FlatAt(g, s, i)
    BY <1>1, <2>2, FlatAtIs
  <2> DEFINE Good(t, m) == /\ t \in Seq(V) /\ Len(t) = 2 * m
                           /\ \A i \in 1..m : t[2*i - 1] = o[i] /\ t[2*i] = ds[o[i]]
             G == {m \in Nat : m \in 1..c => Good(g[m], m)}
  <2>4. 0 \in G
    OBVIOUS
  <2>5. ASSUME NEW m \in Nat, m \in G PROVE m + 1 \in G
    <3>0. ASSUME m + 1 \in 1..c PROVE Good(g[m + 1], m + 1)
      <4> DEFINE p == s[m + 1]
                 t == g[m]
                 u == g[m + 1]
      <4>1. FlatAt(g, s, m + 1) /\ (m + 1) - 1 = m
        BY <2>3, <3>0
      <4>2. p \in Seq(V) /\ Len(p) = 2 /\ p[1] = o[m + 1] /\ p[2] = ds[o[m + 1]]
        BY <1>1, <1>2, <3>0
      <4>3. CASE m = 0
        <5>1. u = p
          BY <4>1, <4>3 DEF FlatAt
        <5>2. 2 * (m + 1) = 2 /\ \A i \in 1..(m + 1) : i = m + 1 /\ 2*i - 1 = 1 /\ 2*i = 2
          BY <4>3
        <5> HIDE DEF p, u
        <5> QED BY <4>2, <5>1, <5>2 DEF u
      <4>4. CASE m # 0
        <5>1. m \in 1..c /\ m + 1 # 1
          BY <1>1, <3>0, <4>4
        <5>2. t \in Seq(V) /\ Len(t) = 2 * m /\ \A i \in 1..m : t[2*i - 1] = o[i] /\ t[2*i] = ds[o[i]]
          BY <2>5, <5>1
        <5>3. g[m + 1] = g[(m + 1) - 1] \o s[m + 1]
          BY <4>1, <5>1, Zenon DEF FlatAt
        <5>4. u = t \o p
          BY <4>1, <5>3, Zenon
        <5> HIDE DEF u, t, p
        <5>5. /\ u \in Seq(V) /\ Len(u) = Len(t) + Len(p)
              /\ \A i \in 1..(Len(t) + Len(p)) : u[i] = IF i <= Len(t) THEN t[i] ELSE p[i - Len(t)]
          BY <4>2, <5>2, <5>4, ConcatProperties, ZenonT(60)
        <5>6. Len(u) = 2 * (m + 1)
          BY <4>2, <5>2, <5>5
        <5>7. ASSUME NEW i \in 1..m PROVE u[2*i - 1] = o[i] /\ u[2*i] = ds[o[i]]
          <6>1. 2*i - 1 \in 1..(2*m + 2) /\ 2*i \in 1..(2*m + 2) /\ 2*i - 1 <= 2*m /\ 2*i <= 2*m
            OBVIOUS
          <6>2. u[2*i - 1] = t[2*i - 1] /\ u[2*i] = t[2*i]
            BY <4>2, <5>2, <5>5, <6>1
          <6> QED BY <5>2, <6>2
        <5>8. u[2*(m + 1) - 1] = p[1] /\ u[2*(m + 1)] = p[2]
          <6>1. /\ 2*(m + 1) - 1 \in 1..(2*m + 2) /\ 2*(m + 1) \in 1..(2*m + 2)
                /\ ~(2*(m + 1) - 1 <= 2*m) /\ ~(2*(m + 1) <= 2*m)
                /\ 2*(m + 1) - 1 - 2*m = 1 /\ 2*(m + 1) - 2*m = 2
            OBVIOUS
          <6> QED BY <4>2, <5>2, <5>5, <6>1
        <5>9. \A i \in 1..(m + 1) : i \in 1..m \/ i = m + 1
          OBVIOUS
        <5> QED BY <4>2, <5>5, <5>6, <5>7, <5>8, <5>9 DEF u
      <4> QED BY <4>3, <4>4
    <3>1. m + 1 \in Nat
      OBVIOUS
    <3> HIDE DEF Good
    <3> QED BY <3>0, <3>1
  <2>6. \A m \in Nat : m \in G
    <3> HIDE DEF G
    <3> QED BY <2>4, <2>5, NumberInduction
  <2>7. c \in 1..c
    BY <1>1, <1>4
  <2>8. Good(g[c], c)
    BY <1>1, <2>6, <2>7
  <2> QED BY <1>1, <2>2, <2>8 DEF c, o
<1> QED BY <1>3, <1>4

\* What is saved is loaded again: devices_t::load_ after devices_t::save_.
LEMMA LoadsWhatWasSaved ==
    ASSUME NEW ds, IsRoster(ds), OneWord(ds)
    PROVE  LoadDevices(SaveDevices(ds)) = ds
<1> DEFINE words == SaveDevices(ds)
           o == InOrder(DOMAIN ds)
           c == Cardinality(DOMAIN ds)
<1>1. c \in Nat /\ o \in [1..c -> DOMAIN ds] /\ IsInjective(o) /\ \A d \in DOMAIN ds : \E i \in 1..c : o[i] = d
  BY OrderIs DEF IsRoster
<1>2. Len(words) = 2 * c /\ \A i \in 1..c : words[2*i - 1] = o[i] /\ words[2*i] = ds[o[i]]
  BY SavedPairs
<1> HIDE DEF words, o, c
<1> DEFINE good == {i \in 0..(Len(words) \div 2) : \A j \in 1..i : IsDevice(words, j)}
           pairs == CHOOSE i \in good : \A j \in good : j <= i
<1>3. Len(words) \div 2 = c
  BY <1>1, <1>2
<1>4. \A j \in 1..c : IsDevice(words, j)
  <2> SUFFICES ASSUME NEW j \in 1..c PROVE IsDevice(words, j)
    OBVIOUS
  <2>1. 2*j <= Len(words)
    BY <1>1, <1>2
  <2>2. words[2*j - 1] \in Device
    BY <1>1, <1>2 DEF IsRoster
  <2> QED BY <2>1, <2>2 DEF IsDevice
<1>5. c \in good /\ \A j \in good : j <= c /\ j \in Nat
  BY <1>1, <1>3, <1>4
<1>6. pairs = c
  <2>1. pairs \in good /\ \A j \in good : j <= pairs
    <3> HIDE DEF good
    <3> QED BY <1>5
  <2> HIDE DEF pairs, good
  <2>2. c <= pairs /\ pairs <= c /\ pairs \in Nat
    BY <1>5, <2>1
  <2> QED BY <1>1, <2>2
<1>7. LoadDevices(words) =
        [d \in {words[2*i - 1] : i \in 1..pairs} |-> words[2 * (CHOOSE i \in 1..pairs : words[2*i - 1] = d)]]
  BY DEF LoadDevices
<1> HIDE DEF pairs, good
<1>8. LoadDevices(words) =
        [d \in {words[2*i - 1] : i \in 1..c} |-> words[2 * (CHOOSE i \in 1..c : words[2*i - 1] = d)]]
  BY <1>6, <1>7
<1>9. {words[2*i - 1] : i \in 1..c} = DOMAIN ds
  <2>1. \A i \in 1..c : words[2*i - 1] \in DOMAIN ds
    BY <1>1, <1>2
  <2>2. \A d \in DOMAIN ds : \E i \in 1..c : words[2*i - 1] = d
    BY <1>1, <1>2
  <2> QED BY <2>1, <2>2
<1>10. ASSUME NEW d \in DOMAIN ds
       PROVE  words[2 * (CHOOSE i \in 1..c : words[2*i - 1] = d)] = ds[d]
  <2> DEFINE k == CHOOSE i \in 1..c : words[2*i - 1] = d
  <2>1. \E i \in 1..c : words[2*i - 1] = d
    BY <1>1, <1>2
  <2>2. k \in 1..c /\ words[2*k - 1] = d
    BY <2>1
  <2> HIDE DEF k
  <2>3. words[2*k] = ds[o[k]] /\ o[k] = d
    BY <1>2, <2>2
  <2> QED BY <2>3 DEF k
<1>11. LoadDevices(words) = [d \in DOMAIN ds |-> words[2 * (CHOOSE i \in 1..c : words[2*i - 1] = d)]]
  BY <1>8, <1>9
<1>12. LoadDevices(words) = [d \in DOMAIN ds |-> ds[d]]
  BY <1>10, <1>11
<1> QED BY <1>12 DEF IsRoster, words

\* Whatever the words are, only devices are loaded.
LEMMA LoadsDevices ==
    ASSUME NEW words, Len(words) \in Nat
    PROVE  DOMAIN LoadDevices(words) \subseteq Device
<1> DEFINE c == Len(words) \div 2
           good == {i \in 0..c : \A j \in 1..i : IsDevice(words, j)}
           pairs == CHOOSE i \in good : \A j \in good : j <= i
           rest == {c - i : i \in good}
<1>1. c \in Nat
  OBVIOUS
<1> HIDE DEF c
<1>2. 0 \in good /\ good \subseteq Nat /\ \A i \in good : i <= c
  BY <1>1
<1>3. PICK r \in rest : \A q \in rest : r <= q
  <2>1. rest \subseteq Nat /\ rest # {}
    BY <1>1, <1>2
  <2> HIDE DEF rest
  <2> QED BY <2>1, LeastNumber
<1>4. PICK m \in good : r = c - m
  OBVIOUS
<1>5. \A j \in good : j <= m
  <2> SUFFICES ASSUME NEW j \in good PROVE j <= m
    OBVIOUS
  <2>1. c - j \in rest
    OBVIOUS
  <2>2. r <= c - j /\ j \in Nat /\ m \in Nat
    BY <1>2, <1>3, <2>1
  <2> QED BY <1>1, <1>4, <2>2
<1>6. pairs \in good
  <2> HIDE DEF good
  <2> QED BY <1>5
<1>7. \A j \in 1..pairs : words[2*j - 1] \in Device
  BY <1>6 DEF IsDevice
<1>8. LoadDevices(words) =
        [d \in {words[2*i - 1] : i \in 1..pairs} |-> words[2 * (CHOOSE i \in 1..pairs : words[2*i - 1] = d)]]
  BY DEF LoadDevices, c
<1> HIDE DEF pairs
<1> QED BY <1>7, <1>8

-----------------------------------------------------------------------------
(***************************************************************************)
(* Payments: the accounts in the order of their balances, the sources that *)
(* are selected, the transaction that is made of them and its signatures.  *)
(***************************************************************************)

\* A finite set has an element with the largest value.
LEMMA HasLargest ==
    ASSUME NEW f, NEW S, IsFiniteSet(S), S # {}, \A x \in S : f[x] \in Int
    PROVE  \E b \in S : \A a \in S : f[a] <= f[b]
<1> DEFINE G == {T \in SUBSET S : T = {} \/ \E b \in T : \A a \in T : f[a] <= f[b]}
<1>1. {} \in G
  OBVIOUS
<1>2. ASSUME NEW T \in SUBSET S, T # {}, \A x \in T : T \ {x} \in G PROVE T \in G
  <2>1. PICK x \in T : TRUE
    BY <1>2
  <2>2. CASE T \ {x} = {}
    <3>1. \A y \in T : f[y] <= f[x]
      BY <2>2
    <3> QED BY <3>1
  <2>3. CASE \E b \in T \ {x} : \A y \in T \ {x} : f[y] <= f[b]
    <3>1. PICK b \in T \ {x} : \A y \in T \ {x} : f[y] <= f[b]
      BY <2>3
    <3>2. f[x] \in Int /\ f[b] \in Int /\ \A y \in T : f[y] \in Int
      OBVIOUS
    <3>3. CASE f[x] <= f[b]
      <4>1. \A y \in T : f[y] <= f[b]
        BY <3>1, <3>3
      <4> QED BY <4>1
    <3>4. CASE f[b] <= f[x]
      <4>1. \A y \in T : f[y] <= f[x]
        BY <3>1, <3>2, <3>4
      <4> QED BY <4>1
    <3> QED BY <3>2, <3>3, <3>4
  <2> QED BY <1>2, <2>2, <2>3
<1> HIDE DEF G
<1>3. S \in G
  BY ONLY IsFiniteSet(S), <1>1, <1>2, SubsetInduction, Zenon
<1> QED BY <1>3 DEF G

\* v goes through the elements of T, those with the smallest values first.
Sorted(v, f, T) ==
    /\ v \in [1..Cardinality(T) -> T] /\ IsInjective(v)
    /\ \A i, j \in 1..Cardinality(T) : i < j => f[v[i]] <= f[v[j]]

\* There is such a sequence.
LEMMA SortedExists ==
    ASSUME NEW f, NEW S, IsFiniteSet(S), \A x \in S : f[x] \in Int
    PROVE  \E v : Sorted(v, f, S)
<1> DEFINE G == {T \in SUBSET S : \E v : Sorted(v, f, T)}
<1>1. {} \in G
  <2> DEFINE e == [i \in {} |-> 0]
  <2>1. Cardinality({}) = 0 /\ 1..0 = {}
    BY FS_EmptySet
  <2>2. e \in [{} -> {}] /\ IsInjective(e)
    BY DEF IsInjective
  <2>3. Sorted(e, f, {})
    BY <2>1, <2>2 DEF Sorted
  <2> QED BY <2>3
<1>2. ASSUME NEW T \in SUBSET S, T # {}, \A x \in T : T \ {x} \in G PROVE T \in G
  <2>1. IsFiniteSet(T) /\ \A x \in T : f[x] \in Int
    BY FS_Subset
  <2>2. PICK b \in T : \A a \in T : f[a] <= f[b]
    BY <1>2, <2>1, HasLargest
  <2> DEFINE U == T \ {b}
             k == Cardinality(U)
  <2>3. U \in G
    BY <1>2, <2>2
  <2>4. PICK s : Sorted(s, f, U)
    <3> HIDE DEF U
    <3> QED BY <2>3
  <2>5. k \in Nat /\ Cardinality(T) = k + 1
    <3>1. Cardinality(T) \in Nat /\ Cardinality(U) \in Nat /\ Cardinality(U) = Cardinality(T) - 1
      BY <2>1, <2>2, FS_RemoveElement, FS_CardinalityType
    <3> QED BY <3>1
  <2>6. s \in [1..k -> U] /\ IsInjective(s) /\ \A i, j \in 1..k : i < j => f[s[i]] <= f[s[j]]
    BY <2>4 DEF Sorted
  <2> HIDE DEF k
  <2>7. \A x \in U : x # b /\ x \in T /\ f[x] <= f[b]
    BY <2>2
  <2> HIDE DEF U
  <2> DEFINE t == [i \in 1..(k + 1) |-> IF i = k + 1 THEN b ELSE s[i]]
  <2>8. \A i \in 1..(k + 1) : i = k + 1 \/ i \in 1..k
    BY <2>5
  <2>9. t \in [1..(k + 1) -> T]
    BY <2>2, <2>6, <2>7, <2>8
  <2>10. t[k + 1] = b /\ \A i \in 1..k : t[i] = s[i] /\ t[i] \in U
    BY <2>5, <2>6
  <2> HIDE DEF t
  <2>11. ASSUME NEW i \in 1..(k + 1), NEW j \in 1..(k + 1), i < j PROVE f[t[i]] <= f[t[j]]
    <3>1. i \in 1..k
      BY <2>5, <2>8, <2>11
    <3>2. CASE j = k + 1
      BY <2>7, <2>10, <3>1, <3>2
    <3>3. CASE j \in 1..k
      BY <2>6, <2>10, <2>11, <3>1, <3>3
    <3> QED BY <2>8, <3>2, <3>3
  <2>12. IsInjective(t)
    <3> SUFFICES ASSUME NEW i \in 1..(k + 1), NEW j \in 1..(k + 1), t[i] = t[j] PROVE i = j
      BY <2>9 DEF IsInjective
    <3>1. CASE i = k + 1 /\ j = k + 1
      BY <3>1
    <3>2. CASE i \in 1..k /\ j \in 1..k
      <4>1. s[i] = s[j] /\ DOMAIN s = 1..k
        BY <2>6, <2>10, <3>2
      <4> QED BY <2>6, <3>2, <4>1 DEF IsInjective
    <3>3. CASE i \in 1..k /\ j = k + 1
      BY <2>7, <2>10, <3>3
    <3>4. CASE i = k + 1 /\ j \in 1..k
      BY <2>7, <2>10, <3>4
    <3> QED BY <2>8, <3>1, <3>2, <3>3, <3>4
  <2>13. Sorted(t, f, T)
    BY <2>5, <2>9, <2>11, <2>12 DEF Sorted
  <2> QED BY <2>13
<1> HIDE DEF G
<1>3. S \in G
  BY ONLY IsFiniteSet(S), <1>1, <1>2, SubsetInduction, Zenon
<1> QED BY <1>3 DEF G

\* Balances of a finite number of accounts, all of them positive.
IsBoxes(boxes) == IsFiniteSet(DOMAIN boxes) /\ \A a \in DOMAIN boxes : boxes[a] \in Int /\ boxes[a] > 0

\* select_sources sorts the accounts.
LEMMA AscendingIs ==
    ASSUME NEW boxes, IsBoxes(boxes)
    PROVE  /\ Sorted(Ascending(boxes), boxes, DOMAIN boxes) /\ Cardinality(DOMAIN boxes) \in Nat
           /\ \A a \in DOMAIN boxes : \E i \in 1..Cardinality(DOMAIN boxes) : Ascending(boxes)[i] = a
<1> DEFINE D == DOMAIN boxes
           k == Cardinality(D)
           w == Ascending(boxes)
<1>1. IsFiniteSet(D) /\ k \in Nat
  BY FS_CardinalityType DEF IsBoxes
<1>2. PICK s : Sorted(s, boxes, D)
  BY SortedExists DEF IsBoxes
<1>3. w = CHOOSE v \in [1..k -> D] : IsInjective(v) /\ \A i, j \in DOMAIN v : i < j => boxes[v[i]] <= boxes[v[j]]
  BY DEF Ascending
<1> HIDE DEF w, k, D
<1>4. s \in [1..k -> D] /\ IsInjective(s) /\ \A i, j \in DOMAIN s : i < j => boxes[s[i]] <= boxes[s[j]]
  BY <1>2 DEF Sorted, k
<1>5. w \in [1..k -> D] /\ IsInjective(w) /\ \A i, j \in DOMAIN w : i < j => boxes[w[i]] <= boxes[w[j]]
  BY <1>3, <1>4
<1>6. Sorted(w, boxes, D)
  BY <1>5 DEF Sorted, k
<1>7. w \in Injection(1..k, D)
  BY <1>5 DEF Injection
<1>8. Cardinality(1..k) = k
  <2>1. Cardinality(1..k) = IF 1 > k THEN 0 ELSE k - 1 + 1
    BY <1>1, FS_Interval
  <2> QED BY <1>1, <2>1
<1>9. w \in Surjection(1..k, D)
  BY <1>1, <1>7, <1>8, FS_Injection DEF k
<1> QED BY <1>1, <1>6, <1>9 DEF Surjection, w, k, D

\* A sequence of numbers, and one more.
LEMMA SumNext ==
    ASSUME NEW f, NEW g, NEW m \in Nat, DOMAIN f = 1..(m + 1), DOMAIN g = 1..m,
           \A j \in 1..m : f[j] = g[j], \A j \in 1..(m + 1) : f[j] \in Int
    PROVE  Sum(f) = Sum(g) + f[m + 1] /\ Sum(g) \in Int /\ Sum(f) \in Int
<1>1. IsFiniteSet(1..m) /\ IsFiniteSet(1..(m + 1))
  BY FS_Interval
<1>2. m + 1 \in 1..(m + 1) /\ (1..(m + 1)) \ {m + 1} = 1..m /\ \A j \in 1..m : j \in 1..(m + 1)
  OBVIOUS
<1>3. SumFunctionOnSet(f, 1..(m + 1)) = f[m + 1] + SumFunctionOnSet(f, (1..(m + 1)) \ {m + 1})
  BY <1>1, <1>2, SumRemove
<1>4. SumFunctionOnSet(f, 1..m) = SumFunctionOnSet(g, 1..m)
  BY <1>1, SumSame
<1>5. SumFunctionOnSet(f, 1..m) \in Int /\ f[m + 1] \in Int
  BY <1>1, <1>2, SumType
<1>6. Sum(f) = SumFunctionOnSet(f, 1..(m + 1)) /\ Sum(g) = SumFunctionOnSet(g, 1..m)
  BY DEF Sum, SumFunction
<1>7. SumFunctionOnSet(f, 1..(m + 1)) = f[m + 1] + SumFunctionOnSet(f, 1..m)
  BY <1>2, <1>3, Zenon
<1>8. Sum(f) = f[m + 1] + Sum(g) /\ Sum(g) \in Int
  BY <1>4, <1>5, <1>6, <1>7
<1> HIDE DEF Sum
<1> QED BY <1>5, <1>8

\* A sum over positions is a sum over what is at them.
LEMMA SumReindex ==
    ASSUME NEW f, NEW v, NEW c \in Nat, \A i, j \in 1..c : v[i] = v[j] => i = j, \A i \in 1..c : f[v[i]] \in Int
    PROVE  /\ Sum([j \in 1..c |-> f[v[j]]]) = SumFunctionOnSet(f, {v[j] : j \in 1..c})
           /\ Sum([j \in 1..c |-> f[v[j]]]) \in Int /\ IsFiniteSet({v[j] : j \in 1..c})
<1> DEFINE P(m) == Sum([j \in 1..m |-> f[v[j]]])
           S(m) == {v[j] : j \in 1..m}
           G == {m \in Nat : m <= c => P(m) = SumFunctionOnSet(f, S(m)) /\ P(m) \in Int /\ IsFiniteSet(S(m))}
<1>1. 0 \in G
  <2>1. 1..0 = {} /\ S(0) = {}
    OBVIOUS
  <2>2. P(0) = SumFunctionOnSet([j \in 1..0 |-> f[v[j]]], {})
    BY <2>1 DEF Sum, SumFunction
  <2>3. P(0) = 0 /\ SumFunctionOnSet(f, {}) = 0
    BY <2>2, SumEmpty
  <2>4. IsFiniteSet({})
    BY FS_EmptySet
  <2> HIDE DEF P, S
  <2> QED BY <2>1, <2>3, <2>4
<1>2. ASSUME NEW m \in Nat, m \in G PROVE m + 1 \in G
  <2>1. CASE ~(m + 1 <= c)
    BY <2>1
  <2>2. CASE m + 1 <= c
    <3>1. P(m) = SumFunctionOnSet(f, S(m)) /\ P(m) \in Int /\ IsFiniteSet(S(m))
      BY <1>2, <2>2
    <3>2. P(m + 1) = P(m) + f[v[m + 1]] /\ P(m + 1) \in Int
      <4> DEFINE a == [j \in 1..(m + 1) |-> f[v[j]]]
                 b == [j \in 1..m |-> f[v[j]]]
      <4>1. DOMAIN a = 1..(m + 1) /\ DOMAIN b = 1..m /\ (\A j \in 1..m : a[j] = b[j]) /\ a[m + 1] = f[v[m + 1]]
        OBVIOUS
      <4>2. \A j \in 1..(m + 1) : a[j] \in Int
        BY <2>2
      <4> HIDE DEF a, b
      <4>3. Sum(a) = Sum(b) + a[m + 1] /\ Sum(a) \in Int
        BY <4>1, <4>2, SumNext
      <4> QED BY <4>1, <4>3 DEF a, b
    <3>3. S(m + 1) = S(m) \cup {v[m + 1]} /\ v[m + 1] \notin S(m) /\ S(m + 1) \ {v[m + 1]} = S(m)
      <4>1. v[m + 1] \notin S(m)
        BY <2>2
      <4>2. \A j \in 1..(m + 1) : j \in 1..m \/ j = m + 1
        OBVIOUS
      <4>3. S(m + 1) = S(m) \cup {v[m + 1]}
        BY <4>2
      <4> HIDE DEF S
      <4> QED BY <4>1, <4>3
    <3>4. IsFiniteSet(S(m + 1))
      <4> HIDE DEF S
      <4> QED BY <3>1, <3>3, FS_AddElement
    <3>5. \A x \in S(m + 1) : f[x] \in Int
      BY <2>2
    <3>6. v[m + 1] \in S(m + 1) /\ f[v[m + 1]] \in Int
      BY <2>2
    <3> HIDE DEF S, P
    <3>7. SumFunctionOnSet(f, S(m + 1)) = f[v[m + 1]] + SumFunctionOnSet(f, S(m))
      BY <3>3, <3>4, <3>5, <3>6, SumRemove
    <3>8. P(m + 1) = SumFunctionOnSet(f, S(m + 1))
      BY <3>1, <3>2, <3>6, <3>7
    <3> QED BY <3>2, <3>4, <3>8
  <2> QED BY <2>1, <2>2
<1>3. \A m \in Nat : m \in G
  <2> HIDE DEF G
  <2> QED BY <1>1, <1>2, NumberInduction
<1>4. c \in G
  BY <1>3
<1> QED BY <1>4

\* What the accounts before the i-th hold.
Before(boxes, i) == Sum([j \in 1..(i - 1) |-> boxes[Ascending(boxes)[j]]])

\* The first m accounts.
Smallest(boxes, m) == {Ascending(boxes)[j] : j \in 1..m}

NumBoxes(boxes) == Cardinality(DOMAIN boxes)

LEMMA BeforeIs ==
    ASSUME NEW boxes, IsBoxes(boxes), NEW m \in 0..NumBoxes(boxes)
    PROVE  /\ NumBoxes(boxes) \in Nat
           /\ Before(boxes, m + 1) \in Int
           /\ Before(boxes, m + 1) = SumFunctionOnSet(boxes, Smallest(boxes, m))
           /\ m = 0 => Before(boxes, m + 1) = 0
           /\ m > 0 => Before(boxes, m + 1) = Before(boxes, m) + boxes[Ascending(boxes)[m]]
<1> DEFINE v == Ascending(boxes)
           c == NumBoxes(boxes)
<1>1. Sorted(v, boxes, DOMAIN boxes) /\ c \in Nat
  BY AscendingIs DEF NumBoxes
<1>2. v \in [1..c -> DOMAIN boxes] /\ IsInjective(v)
  BY <1>1 DEF Sorted, NumBoxes
<1> HIDE DEF v, c
<1>3. m \in Nat /\ m <= c /\ (m + 1) - 1 = m
  BY <1>1 DEF c
<1>4. \A i \in 1..m : i \in 1..c /\ boxes[v[i]] \in Int
  BY <1>1, <1>2, <1>3 DEF IsBoxes
<1>5. \A i, j \in 1..m : v[i] = v[j] => i = j
  BY <1>2, <1>4 DEF IsInjective
<1>6. Before(boxes, m + 1) = Sum([j \in 1..m |-> boxes[v[j]]])
  BY <1>3 DEF Before, v
<1>7. /\ Sum([j \in 1..m |-> boxes[v[j]]]) = SumFunctionOnSet(boxes, {v[j] : j \in 1..m})
      /\ Sum([j \in 1..m |-> boxes[v[j]]]) \in Int
  <2>1. \A i \in 1..m : boxes[v[i]] \in Int
    BY <1>4
  <2>2. m \in Nat
    BY <1>3
  <2> QED BY ONLY <1>5, <2>1, <2>2, SumReindex, SMTT(30)
<1>8. CASE m = 0
  <2>1. {v[j] : j \in 1..m} = {}
    BY <1>8
  <2>2. SumFunctionOnSet(boxes, {}) = 0
    BY SumEmpty
  <2> QED BY <1>1, <1>3, <1>6, <1>7, <1>8, <2>1, <2>2 DEF Smallest, v, c
<1>9. CASE m # 0
  <2> DEFINE a == [j \in 1..m |-> boxes[v[j]]]
             b == [j \in 1..(m - 1) |-> boxes[v[j]]]
             k == m - 1
  <2>1. k \in Nat /\ k + 1 = m /\ DOMAIN a = 1..(k + 1) /\ DOMAIN b = 1..k /\ (\A j \in 1..k : a[j] = b[j])
    BY <1>3, <1>9
  <2>2. a[k + 1] = boxes[v[m]] /\ \A j \in 1..(k + 1) : a[j] \in Int
    BY <1>3, <1>4, <1>9, <2>1
  <2>3. Before(boxes, m) = Sum(b)
    BY DEF Before, v
  <2> HIDE DEF a, b, k
  <2>4. Sum(a) = Sum(b) + a[k + 1]
    BY <2>1, <2>2, SumNext
  <2>5. Before(boxes, m + 1) = Before(boxes, m) + boxes[v[m]]
    BY <1>6, <2>2, <2>3, <2>4 DEF a
  <2> QED BY <1>1, <1>3, <1>6, <1>7, <1>9, <2>5 DEF Smallest, v, c
<1> QED BY <1>8, <1>9

\* All accounts are not enough, or just enough: each of them is emptied.
TakesAll(boxes, total, src) ==
    /\ DOMAIN src = 1..NumBoxes(boxes)
    /\ \A i \in DOMAIN src : src[i].addr = Ascending(boxes)[i] /\ src[i].amount = boxes[Ascending(boxes)[i]]
    /\ Before(boxes, NumBoxes(boxes) + 1) <= total

\* The k-th account holds more than what is still wanted.
TakesSome(boxes, total, src, k) ==
    /\ k \in 1..NumBoxes(boxes) /\ DOMAIN src = 1..k
    /\ \A i \in DOMAIN src : src[i].addr = Ascending(boxes)[i]
    /\ \A i \in 1..(k - 1) : src[i].amount = boxes[Ascending(boxes)[i]]
    /\ src[k].amount = total - Before(boxes, k)
    /\ src[k].amount >= 0 /\ src[k].amount < boxes[Ascending(boxes)[k]]

LEMMA Selection ==
    ASSUME NEW boxes, IsBoxes(boxes), NEW total \in Nat
    PROVE  LET src == SelectSources(boxes, total)
           IN  TakesAll(boxes, total, src) \/ \E k \in Nat : TakesSome(boxes, total, src, k)
<1> DEFINE v == Ascending(boxes)
           c == NumBoxes(boxes)
           before(i) == Before(boxes, i)
           src == SelectSources(boxes, total)
           last == {i \in DOMAIN v : boxes[v[i]] + before(i) > total}
           used == IF last = {} THEN Len(v) ELSE CHOOSE i \in last : \A j \in last : i <= j
<1>1. Sorted(v, boxes, DOMAIN boxes) /\ c \in Nat
  BY AscendingIs DEF NumBoxes
<1>2. v \in [1..c -> DOMAIN boxes]
  BY <1>1 DEF Sorted, NumBoxes
<1>3. src = [i \in 1..used |-> [addr |-> v[i],
              amount |-> IF before(i) + boxes[v[i]] <= total THEN boxes[v[i]] ELSE total - before(i)]]
  BY DEF SelectSources, Before
<1> HIDE DEF v, c, before, src
<1>4. DOMAIN v = 1..c /\ Len(v) = c
  BY <1>1, <1>2
<1>5. \A i \in 1..c : boxes[v[i]] \in Int /\ boxes[v[i]] > 0
  BY <1>2 DEF IsBoxes
<1>6. before(1) = 0
  <2>1. 0 \in 0..NumBoxes(boxes) /\ 0 + 1 = 1
    BY <1>1 DEF c
  <2>2. Before(boxes, 0 + 1) = 0
    BY <2>1, BeforeIs
  <2> QED BY <2>1, <2>2 DEF before
<1>7. \A i \in 1..c : before(i) \in Int /\ before(i + 1) \in Int /\ before(i + 1) = before(i) + boxes[v[i]]
  <2> SUFFICES ASSUME NEW i \in 1..c
               PROVE  before(i) \in Int /\ before(i + 1) \in Int /\ before(i + 1) = before(i) + boxes[v[i]]
    OBVIOUS
  <2>1. i \in 0..NumBoxes(boxes) /\ i - 1 \in 0..NumBoxes(boxes) /\ (i - 1) + 1 = i /\ i > 0
    BY <1>1 DEF c
  <2>2. Before(boxes, i + 1) \in Int /\ Before(boxes, i + 1) = Before(boxes, i) + boxes[Ascending(boxes)[i]]
    BY <2>1, BeforeIs
  <2>3. Before(boxes, (i - 1) + 1) \in Int
    BY <2>1, BeforeIs
  <2> QED BY <2>1, <2>2, <2>3 DEF before, v
<1>8. CASE last = {}
  <2>1. used = c
    BY <1>4, <1>8
  <2>2. \A i \in 1..c : ~(boxes[v[i]] + before(i) > total)
    BY <1>4, <1>8
  <2> HIDE DEF last, used
  <2>3. \A i \in 1..c : before(i) + boxes[v[i]] <= total
    BY <1>5, <1>7, <2>2
  <2>4. DOMAIN src = 1..c /\ \A i \in 1..c : src[i].addr = v[i] /\ src[i].amount = boxes[v[i]]
    BY <1>3, <2>1, <2>3
  <2>5. before(c + 1) <= total
    <3>1. CASE c = 0
      BY <1>6, <3>1
    <3>2. CASE c # 0
      <4>1. c \in 1..c
        BY <1>1, <3>2
      <4> QED BY <1>7, <2>3, <4>1
    <3> QED BY <3>1, <3>2
  <2>6. TakesAll(boxes, total, src)
    BY <2>4, <2>5 DEF TakesAll, before, v, c
  <2> QED BY <2>6 DEF src
<1>9. CASE last # {}
  <2>1. \E i \in last : \A j \in last : i <= j
    <3>1. last \subseteq Nat
      BY <1>1, <1>4
    <3> HIDE DEF last
    <3> QED BY <1>9, <3>1, LeastNumber
  <2>2. used \in last /\ \A j \in last : used <= j
    <3>1. used = CHOOSE i \in last : \A j \in last : i <= j
      BY <1>9
    <3> HIDE DEF last, used
    <3> QED BY <2>1, <3>1
  <2>3. used \in 1..c /\ boxes[v[used]] + before(used) > total
    BY <1>4, <2>2
  <2>4. ASSUME NEW i \in 1..c, i < used PROVE before(i) + boxes[v[i]] <= total
    <3>1. i \notin last
      <4> HIDE DEF last, used
      <4> QED BY <1>1, <2>2, <2>3, <2>4
    <3>2. ~(boxes[v[i]] + before(i) > total)
      BY <1>4, <3>1
    <3> HIDE DEF last, used
    <3> QED BY <1>5, <1>7, <3>2
  <2> HIDE DEF last, used
  <2>5. used \in Nat /\ before(used) \in Int /\ boxes[v[used]] \in Int
    BY <1>1, <1>5, <1>7, <2>3
  <2>6. DOMAIN src = 1..used /\ \A i \in 1..used : src[i].addr = v[i]
    BY <1>3
  <2>7. src[used].amount = total - before(used)
    <3>1. used \in 1..used /\ ~(before(used) + boxes[v[used]] <= total)
      BY <1>1, <2>3, <2>5
    <3> QED BY <1>3, <3>1
  <2>8. ASSUME NEW i \in 1..(used - 1) PROVE src[i].amount = boxes[v[i]]
    <3>1. i \in 1..used /\ i \in 1..c /\ i < used
      BY <1>1, <2>3
    <3>2. before(i) + boxes[v[i]] <= total
      BY <2>4, <3>1
    <3> QED BY <1>3, <3>1, <3>2
  <2>9. before(used) <= total
    <3>1. CASE used = 1
      BY <1>6, <3>1
    <3>2. CASE used # 1
      <4>1. used - 1 \in 1..c /\ used - 1 < used /\ (used - 1) + 1 = used
        BY <1>1, <2>3, <3>2
      <4>2. before(used - 1) + boxes[v[used - 1]] <= total
        BY <2>4, <4>1
      <4>3. before((used - 1) + 1) = before(used - 1) + boxes[v[used - 1]]
        BY <1>7, <4>1
      <4> QED BY <4>1, <4>2, <4>3
    <3> QED BY <3>1, <3>2
  <2>10. src[used].amount >= 0 /\ src[used].amount < boxes[v[used]]
    BY <2>3, <2>5, <2>7, <2>9
  <2>11. TakesSome(boxes, total, src, used)
    BY <2>3, <2>6, <2>7, <2>8, <2>10 DEF TakesSome, before, v, c
  <2> QED BY <2>5, <2>11 DEF src
<1> QED BY <1>8, <1>9

\* Inputs and outputs that can be summed up, and a transaction with such.
IsItems(s) == IsFiniteSet(DOMAIN s) /\ \A i \in DOMAIN s : s[i].amount \in Int

IsTx(t) ==
    /\ t = [inputs |-> t.inputs, outputs |-> t.outputs, ts |-> t.ts]
    /\ IsItems(t.inputs) /\ IsItems(t.outputs)
    /\ \A i \in DOMAIN t.inputs :
         t.inputs[i] = [addr |-> t.inputs[i].addr, amount |-> t.inputs[i].amount, sig |-> t.inputs[i].sig]

\* What SpendsAsAsked says of a payment, and RefusedForAReason of a refusal.
Paid(tx, req, shown) ==
    /\ tx.outputs = <<[addr |-> req.rcpt, amount |-> req.amount]>>
    /\ GetWithdrawAmount(tx.inputs) = req.amount + Fee
    /\ \A i \in DOMAIN tx.inputs : tx.inputs[i].amount \in 1..shown[tx.inputs[i].addr]
    /\ \A i, j \in DOMAIN tx.inputs : tx.inputs[i].addr = tx.inputs[j].addr => i = j
    /\ \A i \in DOMAIN tx.inputs : Unlock(tx, i) \/ (i > 1 /\ "this" \in ToSet(req.codes))

Funded(shown) == {a \in DOMAIN shown : shown[a] > 0}

TurnedDown(req, shown) ==
    \/ req.amount = 0
    \/ SumFunctionOnSet(shown, Funded(shown)) < req.amount + Fee
    \/ \E S \in SUBSET Funded(shown) :
         /\ SumFunctionOnSet(shown, S) = req.amount + Fee
         /\ \E b \in Funded(shown) \ S : \A a \in S : shown[a] <= shown[b]

\* The sources: accounts of the wallet, each once, none for more than it holds.
LEMMA SourcesAre ==
    ASSUME NEW boxes, IsBoxes(boxes), NEW total \in Nat
    PROVE  LET src == SelectSources(boxes, total)
               c == NumBoxes(boxes)
           IN  /\ \E k \in 0..c : DOMAIN src = 1..k
               /\ \A i \in DOMAIN src : /\ src[i].addr \in DOMAIN boxes /\ src[i].addr = Ascending(boxes)[i]
                                        /\ src[i].amount \in 0..boxes[src[i].addr]
               /\ \A i, j \in DOMAIN src : src[i].addr = src[j].addr => i = j
               /\ GetWithdrawAmount(src) \in Int
               /\ \/ TakesAll(boxes, total, src) /\ GetWithdrawAmount(src) = Before(boxes, c + 1)
                  \/ (\E k \in Nat : TakesSome(boxes, total, src, k)) /\ GetWithdrawAmount(src) = total
<1> DEFINE src == SelectSources(boxes, total)
           v == Ascending(boxes)
           c == NumBoxes(boxes)
<1>1. Sorted(v, boxes, DOMAIN boxes) /\ c \in Nat
  BY AscendingIs DEF NumBoxes
<1>2. v \in [1..c -> DOMAIN boxes] /\ IsInjective(v)
  BY <1>1 DEF Sorted, NumBoxes
<1>3. TakesAll(boxes, total, src) \/ \E k \in Nat : TakesSome(boxes, total, src, k)
  BY Selection
<1> HIDE DEF src, v, c
<1>4. \A i \in 1..c : v[i] \in DOMAIN boxes /\ boxes[v[i]] \in Int /\ boxes[v[i]] > 0
  BY <1>2 DEF IsBoxes
<1>5. \A i, j \in 1..c : v[i] = v[j] => i = j
  BY <1>2 DEF IsInjective
<1>6. CASE TakesAll(boxes, total, src)
  <2>1. DOMAIN src = 1..c /\ \A i \in 1..c : src[i].addr = v[i] /\ src[i].amount = boxes[v[i]]
    BY <1>6 DEF TakesAll, v, c
  <2>2. c \in 0..c
    BY <1>1
  <2>3. \A i \in 1..c : src[i].amount \in 0..boxes[v[i]]
    BY <1>4, <2>1
  <2>4. [i \in DOMAIN src |-> src[i].amount] = [j \in 1..c |-> boxes[v[j]]]
    BY <2>1
  <2>5. GetWithdrawAmount(src) = Before(boxes, c + 1)
    <3>1. (c + 1) - 1 = c
      BY <1>1
    <3>2. Before(boxes, c + 1) = Sum([j \in 1..c |-> boxes[v[j]]])
      BY <3>1 DEF Before, v
    <3> QED BY <2>4, <3>2 DEF GetWithdrawAmount
  <2>6. Before(boxes, c + 1) \in Int
    BY <2>2, BeforeIs DEF c
  <2> QED BY <1>4, <1>5, <1>6, <2>1, <2>2, <2>3, <2>5, <2>6 DEF src, v, c
<1>7. ASSUME NEW k \in Nat, TakesSome(boxes, total, src, k)
      PROVE  /\ \E m \in 0..c : DOMAIN src = 1..m
             /\ \A i \in DOMAIN src : src[i].addr \in DOMAIN boxes /\ src[i].addr = v[i] /\ src[i].amount \in 0..boxes[src[i].addr]
             /\ \A i, j \in DOMAIN src : src[i].addr = src[j].addr => i = j
             /\ GetWithdrawAmount(src) = total
  <2>1. /\ k \in 1..c /\ DOMAIN src = 1..k /\ \A i \in 1..k : src[i].addr = v[i]
        /\ \A i \in 1..(k - 1) : src[i].amount = boxes[v[i]]
        /\ src[k].amount = total - Before(boxes, k)
        /\ src[k].amount >= 0 /\ src[k].amount < boxes[v[k]]
    BY <1>7 DEF TakesSome, v, c
  <2>2. k - 1 \in 0..c /\ k \in 0..c /\ k - 1 \in Nat /\ (k - 1) + 1 = k /\ \A i \in 1..k : i \in 1..c
    BY <1>1, <2>1
  <2>3. Before(boxes, k) \in Int /\ Before(boxes, k) = Sum([j \in 1..(k - 1) |-> boxes[v[j]]])
    <3>1. Before(boxes, (k - 1) + 1) \in Int
      BY <2>2, BeforeIs DEF c
    <3> QED BY <2>2, <3>1 DEF Before, v
  <2>4. \A i \in 1..k : i \in 1..(k - 1) \/ i = k
    BY <2>2
  <2>5. \A i \in 1..k : src[i].amount \in 0..boxes[v[i]]
    <3> SUFFICES ASSUME NEW i \in 1..k PROVE src[i].amount \in 0..boxes[v[i]]
      OBVIOUS
    <3>1. boxes[v[i]] \in Int /\ boxes[v[i]] > 0
      BY <1>4, <2>2
    <3>2. CASE i \in 1..(k - 1)
      BY <2>1, <3>1, <3>2
    <3>3. CASE i = k
      BY <2>1, <2>3, <3>1, <3>3
    <3> QED BY <2>4, <3>2, <3>3
  <2> DEFINE f == [i \in 1..k |-> src[i].amount]
             g == [j \in 1..(k - 1) |-> boxes[v[j]]]
             m == k - 1
  <2>6. DOMAIN f = 1..(m + 1) /\ DOMAIN g = 1..m /\ m \in Nat /\ (\A j \in 1..m : f[j] = g[j])
    BY <2>1, <2>2
  <2>7. f[m + 1] = src[k].amount /\ \A j \in 1..(m + 1) : f[j] \in Int
    BY <2>2, <2>5
  <2>8. GetWithdrawAmount(src) = Sum(f)
    BY <2>1 DEF GetWithdrawAmount
  <2>9. Before(boxes, k) = Sum(g)
    BY <2>3
  <2> HIDE DEF f, g, m
  <2>10. Sum(f) = Sum(g) + f[m + 1] /\ Sum(g) \in Int
    BY <2>6, <2>7, SumNext
  <2>11. GetWithdrawAmount(src) = total
    BY <2>1, <2>3, <2>7, <2>8, <2>9, <2>10
  <2> QED BY <1>4, <1>5, <2>1, <2>2, <2>5, <2>11
<1>8. total \in Int
  OBVIOUS
<1> QED BY <1>3, <1>6, <1>7, <1>8 DEF src, v, c

\* tx::check adds up the inputs and the one output.
LEMMA OneOutput ==
    ASSUME NEW x, x.amount \in Int
    PROVE  Sum([i \in DOMAIN <<x>> |-> <<x>>[i].amount]) = x.amount
<1> DEFINE f == [i \in DOMAIN <<x>> |-> <<x>>[i].amount]
           g == [i \in 1..0 |-> 0]
<1>1. DOMAIN f = 1..(0 + 1) /\ DOMAIN g = 1..0 /\ f[0 + 1] = x.amount /\ \A j \in 1..0 : f[j] = g[j]
  OBVIOUS
<1>2. \A j \in 1..(0 + 1) : f[j] \in Int
  OBVIOUS
<1>3. Sum(g) = 0
  <2>1. 1..0 = {} /\ Sum(g) = SumFunctionOnSet(g, 1..0)
    BY <1>1 DEF Sum, SumFunction
  <2>2. SumFunctionOnSet(g, {}) = 0
    BY SumEmpty
  <2> QED BY <2>1, <2>2
<1> HIDE DEF f, g
<1>4. Sum(f) = Sum(g) + f[0 + 1]
  BY <1>1, <1>2, SumNext
<1> QED BY <1>1, <1>3, <1>4 DEF f

\* The message that is signed is about addresses and amounts, not signatures.
LEMMA HashIgnoresSigs ==
    ASSUME NEW t, NEW s, NEW i \in DOMAIN t.inputs, NEW codes,
           DOMAIN s.inputs = DOMAIN t.inputs, s.outputs = t.outputs, s.ts = t.ts,
           \A j \in DOMAIN t.inputs : s.inputs[j].addr = t.inputs[j].addr /\ s.inputs[j].amount = t.inputs[j].amount
    PROVE  GetHash(s, i, codes) = GetHash(t, i, codes)
<1>1. InputsSigMsg(s, i, codes[1]) = InputsSigMsg(t, i, codes[1])
  <2>1. CASE codes[1] = "all"
    BY <2>1 DEF InputsSigMsg
  <2>2. CASE codes[1] # "all"
    <3> DEFINE x == s.inputs[i]
               y == t.inputs[i]
    <3>1. x.addr = y.addr /\ x.amount = y.amount
      OBVIOUS
    <3>2. /\ InputsSigMsg(s, i, codes[1]) = [j \in DOMAIN <<x>> |-> <<(<<x>>)[j].addr, (<<x>>)[j].amount>>]
          /\ InputsSigMsg(t, i, codes[1]) = [j \in DOMAIN <<y>> |-> <<(<<y>>)[j].addr, (<<y>>)[j].amount>>]
      BY <2>2 DEF InputsSigMsg
    <3> HIDE DEF x, y
    <3>3. DOMAIN <<x>> = 1..1 /\ DOMAIN <<y>> = 1..1 /\ \A j \in 1..1 : (<<x>>)[j] = x /\ (<<y>>)[j] = y
      OBVIOUS
    <3>4. \A j \in 1..1 : <<(<<x>>)[j].addr, (<<x>>)[j].amount>> = <<(<<y>>)[j].addr, (<<y>>)[j].amount>>
      BY <3>1, <3>3
    <3> QED BY <3>2, <3>3, <3>4
  <2> QED BY <2>1, <2>2
<1>2. OutputsSigMsg(s, i, codes[2]) = OutputsSigMsg(t, i, codes[2])
  BY DEF OutputsSigMsg
<1> QED BY <1>1, <1>2 DEF GetHash

\* Signing changes nothing but the signatures.
LEMMA SignAllKeeps ==
    ASSUME NEW t, NEW codes, IsTx(t)
    PROVE  LET s == SignAll(t, codes)
           IN  /\ s = [inputs |-> s.inputs, outputs |-> t.outputs, ts |-> t.ts]
               /\ DOMAIN s.inputs = DOMAIN t.inputs /\ s.outputs = t.outputs /\ s.ts = t.ts
               /\ \A i \in DOMAIN t.inputs :
                    s.inputs[i] = [addr |-> t.inputs[i].addr, amount |-> t.inputs[i].amount,
                                   sig |-> LockingInput(GetHash(t, IF SameSigMsgAcrossInputs(codes) THEN 1 ELSE i, codes),
                                                        codes, t.inputs[i].addr)]
<1> DEFINE s == SignAll(t, codes)
           L(i) == LockingInput(GetHash(t, IF SameSigMsgAcrossInputs(codes) THEN 1 ELSE i, codes), codes, t.inputs[i].addr)
           in == [i \in DOMAIN t.inputs |-> [t.inputs[i] EXCEPT !.sig = L(i)]]
<1>1. s = [t EXCEPT !.inputs = in]
  BY DEF SignAll
<1>2. t = [inputs |-> t.inputs, outputs |-> t.outputs, ts |-> t.ts]
  BY DEF IsTx
<1>3. ASSUME NEW i \in DOMAIN t.inputs
      PROVE  in[i] = [addr |-> t.inputs[i].addr, amount |-> t.inputs[i].amount, sig |-> L(i)]
  <2>1. in[i] = [t.inputs[i] EXCEPT !.sig = L(i)]
    OBVIOUS
  <2>2. t.inputs[i] = [addr |-> t.inputs[i].addr, amount |-> t.inputs[i].amount, sig |-> t.inputs[i].sig]
    BY DEF IsTx
  <2> HIDE DEF in, L
  <2> QED BY <2>1, <2>2
<1>4. DOMAIN in = DOMAIN t.inputs
  OBVIOUS
<1> HIDE DEF in, L, s
<1>5. s = [inputs |-> in, outputs |-> t.outputs, ts |-> t.ts]
  BY <1>1, <1>2
<1>6. s.inputs = in /\ s.outputs = t.outputs /\ s.ts = t.ts
  BY <1>5
<1> QED BY <1>3, <1>4, <1>5, <1>6 DEF L, s

\* A signature is not the empty string.
LEMMA SigIsNot ==
    ASSUME NEW hash, NEW codes, NEW key
    PROVE  CreateInput(hash, codes, key) # NoSig
<1>1. DOMAIN CreateInput(hash, codes, key) = {"hash", "codes", "key"}
  BY DEF CreateInput
<1>2. DOMAIN NoSig = {}
  <2>1. DOMAIN <<>> = 1..0 /\ 1..0 = {}
    OBVIOUS
  <2> QED BY <2>1 DEF NoSig
<1>3. {"hash", "codes", "key"} # {}
  OBVIOUS
<1> QED BY <1>1, <1>2, <1>3

\* Every input whose key is in the wallet unlocks its account, but for those
\* after the first that are signed over the message of the first.
LEMMA SignAllUnlocks ==
    ASSUME NEW t, NEW codes \in SigCode \X SigCode, IsTx(t), NEW c \in Nat, DOMAIN t.inputs = 1..c,
           \A i \in DOMAIN t.inputs : t.inputs[i].addr \in keys
    PROVE  LET s == SignAll(t, codes)
           IN  \A i \in DOMAIN s.inputs : Unlock(s, i) \/ (i > 1 /\ "this" \in ToSet(codes))
<1> DEFINE s == SignAll(t, codes)
           at(i) == IF SameSigMsgAcrossInputs(codes) THEN 1 ELSE i
           S(i) == LockingInput(GetHash(t, at(i), codes), codes, t.inputs[i].addr)
<1>1. /\ DOMAIN s.inputs = DOMAIN t.inputs /\ s.outputs = t.outputs /\ s.ts = t.ts
      /\ \A i \in DOMAIN t.inputs :
           s.inputs[i] = [addr |-> t.inputs[i].addr, amount |-> t.inputs[i].amount, sig |-> S(i)]
  BY SignAllKeeps
<1> HIDE DEF s, S
<1> SUFFICES ASSUME NEW i \in DOMAIN s.inputs, ~(i > 1 /\ "this" \in ToSet(codes))
             PROVE  Unlock(s, i)
  BY DEF s
<1>2. i \in DOMAIN t.inputs /\ i \in 1..c /\ t.inputs[i].addr \in keys
  BY <1>1
<1>3. at(i) = i
  <2>1. CASE i = 1
    BY <2>1
  <2>2. CASE i # 1
    <3>1. "this" \notin ToSet(codes)
      BY <1>2, <2>2
    <3>2. codes[1] \in ToSet(codes) /\ codes[2] \in ToSet(codes)
      BY DEF ToSet
    <3> QED BY <3>1, <3>2 DEF SameSigMsgAcrossInputs
  <2> QED BY <2>1, <2>2
<1> HIDE DEF at
<1> DEFINE h == GetHash(t, i, codes)
           k == t.inputs[i].addr
<1>4. S(i) = CreateInput(h, codes, k)
  <2>1. S(i) = LockingInput(GetHash(t, at(i), codes), codes, t.inputs[i].addr)
    BY DEF S
  <2>2. S(i) = LockingInput(h, codes, k)
    BY <1>3, <2>1
  <2> QED BY <1>2, <2>2 DEF LockingInput
<1>5. \A j \in DOMAIN t.inputs : s.inputs[j].addr = t.inputs[j].addr /\ s.inputs[j].amount = t.inputs[j].amount
  <2> SUFFICES ASSUME NEW j \in DOMAIN t.inputs
               PROVE  s.inputs[j].addr = t.inputs[j].addr /\ s.inputs[j].amount = t.inputs[j].amount
    OBVIOUS
  <2>1. s.inputs[j] = [addr |-> t.inputs[j].addr, amount |-> t.inputs[j].amount, sig |-> S(j)]
    BY <1>1
  <2> QED BY <2>1
<1>6. GetHash(s, i, codes) = h
  BY <1>1, <1>2, <1>5, HashIgnoresSigs, SMTT(30)
<1> HIDE DEF h, k
<1>7. s.inputs[i].sig = CreateInput(h, codes, k) /\ s.inputs[i].addr = k
  <2>1. s.inputs[i] = [addr |-> t.inputs[i].addr, amount |-> t.inputs[i].amount, sig |-> S(i)]
    BY <1>1, <1>2
  <2>2. s.inputs[i].sig = S(i) /\ s.inputs[i].addr = t.inputs[i].addr
    BY <2>1
  <2> QED BY <1>4, <2>2 DEF k
<1>8. LET g == CreateInput(h, codes, k) IN g.key = k /\ g.hash = h /\ g.codes = codes
  BY DEF CreateInput
<1>9. CreateInput(h, codes, k) # NoSig
  BY SigIsNot
<1> QED BY <1>6, <1>7, <1>8, <1>9 DEF Unlock

\* A transaction before it is signed.
LEMMA NewTxIs ==
    ASSUME NEW src, NEW req, NEW ts, IsFiniteSet(DOMAIN src), req.amount \in Int,
           \A i \in DOMAIN src : src[i].amount \in Int
    PROVE  LET t == NewTx(src, req, ts)
           IN  /\ IsTx(t) /\ DOMAIN t.inputs = DOMAIN src
               /\ t.outputs = <<[addr |-> req.rcpt, amount |-> req.amount]>>
               /\ \A i \in DOMAIN src : t.inputs[i].addr = src[i].addr /\ t.inputs[i].amount = src[i].amount
<1> DEFINE t == NewTx(src, req, ts)
           in == [i \in DOMAIN src |-> [addr |-> src[i].addr, amount |-> src[i].amount, sig |-> NoSig]]
           x == [addr |-> req.rcpt, amount |-> req.amount]
           out == <<x>>
<1>1. t = [inputs |-> in, outputs |-> out, ts |-> ts]
  BY DEF NewTx
<1>2. DOMAIN in = DOMAIN src /\ \A i \in DOMAIN src : in[i] = [addr |-> src[i].addr, amount |-> src[i].amount, sig |-> NoSig]
  OBVIOUS
<1>3. x.amount = req.amount
  OBVIOUS
<1> HIDE DEF t, in, x
<1>4. DOMAIN out = 1..1 /\ \A i \in 1..1 : out[i] = x
  OBVIOUS
<1>5. t.inputs = in /\ t.outputs = out /\ t.ts = ts
  BY <1>1
<1>6. IsFiniteSet(1..1)
  <2>1. 1..1 = {1}
    OBVIOUS
  <2>2. IsFiniteSet({1})
    BY FS_Singleton
  <2> QED BY <2>1, <2>2
<1>7. ASSUME NEW i \in DOMAIN src
      PROVE  /\ in[i].addr = src[i].addr /\ in[i].amount = src[i].amount
             /\ in[i] = [addr |-> in[i].addr, amount |-> in[i].amount, sig |-> in[i].sig]
  <2>1. in[i] = [addr |-> src[i].addr, amount |-> src[i].amount, sig |-> NoSig]
    BY <1>2
  <2>2. in[i].addr = src[i].addr /\ in[i].amount = src[i].amount /\ in[i].sig = NoSig
    BY <2>1
  <2> QED BY <2>1, <2>2
<1>8. IsItems(t.inputs)
  BY <1>2, <1>5, <1>7 DEF IsItems
<1>9. IsItems(t.outputs)
  BY <1>3, <1>4, <1>5, <1>6 DEF IsItems
<1>10. IsTx(t)
  BY <1>1, <1>2, <1>5, <1>7, <1>8, <1>9 DEF IsTx
<1> QED BY <1>2, <1>5, <1>7, <1>10 DEF t, x

\* A payment that the wallet makes, and one that it refuses.
LEMMA MadeTx ==
    ASSUME NEW boxes, IsBoxes(boxes), NEW req \in MakeInput, NEW ts, NEW shown,
           DOMAIN boxes = Funded(shown), \A a \in DOMAIN boxes : shown[a] = boxes[a] /\ a \in keys
    PROVE  LET r == MakeTx(boxes, req, ts)
           IN  /\ r.err = "" => IsTx(r.tx) /\ Paid(r.tx, req, shown)
               /\ r.err # "" => TurnedDown(req, shown)
<1> DEFINE r == MakeTx(boxes, req, ts)
           total == req.amount + Fee
           src == SelectSources(boxes, total)
           t == NewTx(src, req, ts)
           s == SignAll(t, req.codes)
           c == NumBoxes(boxes)
           v == Ascending(boxes)
<1>1. req.amount \in Nat /\ Fee \in Nat /\ Fee > 0 /\ total \in Nat /\ req.codes \in SigCode \X SigCode
  <2>1. req.amount \in Amount /\ req.codes \in SigCodes
    BY DEF MakeInput
  <2>2. req.amount \in Nat /\ Fee \in Nat /\ Fee # 0 /\ req.codes \in SigCode \X SigCode
    BY <2>1, WalletAssumption
  <2> QED BY <2>2
<1>2. r = IF src = <<>> THEN Refuse("Insufficient balance")
          ELSE IF GetWithdrawAmount(src) # total THEN Refuse("Inconsistency")
          ELSE IF Check(t) < 1 THEN Refuse("Failed check")
          ELSE Accept(s)
  BY DEF MakeTx
<1>3. /\ \E k \in 0..c : DOMAIN src = 1..k
      /\ \A i \in DOMAIN src : src[i].addr \in DOMAIN boxes /\ src[i].addr = v[i] /\ src[i].amount \in 0..boxes[src[i].addr]
      /\ \A i, j \in DOMAIN src : src[i].addr = src[j].addr => i = j
      /\ GetWithdrawAmount(src) \in Int
      /\ \/ TakesAll(boxes, total, src) /\ GetWithdrawAmount(src) = Before(boxes, c + 1)
         \/ (\E k \in Nat : TakesSome(boxes, total, src, k)) /\ GetWithdrawAmount(src) = total
  BY <1>1, SourcesAre
<1>4. /\ Sorted(v, boxes, DOMAIN boxes) /\ c \in Nat /\ v \in [1..c -> DOMAIN boxes] /\ IsInjective(v)
      /\ \A a \in DOMAIN boxes : \E i \in 1..c : v[i] = a
  BY AscendingIs DEF NumBoxes, Sorted
<1> HIDE DEF src, t, s, c, v, r, total
<1>5. PICK k \in 0..c : DOMAIN src = 1..k
  BY <1>3
<1>6. IsFiniteSet(DOMAIN src) /\ k \in Nat /\ \A i \in DOMAIN src : src[i].amount \in Int /\ src[i].amount >= 0
  <2>1. k \in Nat
    BY <1>4, <1>5
  <2>2. IsFiniteSet(1..k)
    BY <2>1, FS_Interval
  <2>3. \A i \in DOMAIN src : boxes[src[i].addr] \in Int
    BY <1>3 DEF IsBoxes
  <2> QED BY <1>3, <1>5, <2>1, <2>2, <2>3
<1>7. /\ IsTx(t) /\ DOMAIN t.inputs = DOMAIN src
      /\ t.outputs = <<[addr |-> req.rcpt, amount |-> req.amount]>>
      /\ \A i \in DOMAIN src : t.inputs[i].addr = src[i].addr /\ t.inputs[i].amount = src[i].amount
  BY <1>1, <1>6, NewTxIs DEF t
<1>8. \/ \E i \in DOMAIN src : src[i].amount = 0
      \/ req.amount = 0
      \/ Check(t) = GetWithdrawAmount(src) - req.amount
  <2> DEFINE x == [addr |-> req.rcpt, amount |-> req.amount]
  <2>1. x.amount = req.amount /\ t.outputs = <<x>>
    BY <1>7
  <2> HIDE DEF x
  <2>2. DOMAIN <<x>> = 1..1 /\ \A i \in 1..1 : (<<x>>)[i] = x
    OBVIOUS
  <2>3. Sum([i \in DOMAIN t.outputs |-> t.outputs[i].amount]) = req.amount
    <3>1. Sum([i \in DOMAIN <<x>> |-> (<<x>>)[i].amount]) = x.amount
      BY <1>1, <2>1, OneOutput
    <3> QED BY <2>1, <3>1
  <2>4. [i \in DOMAIN t.inputs |-> t.inputs[i].amount] = [i \in DOMAIN src |-> src[i].amount]
    BY <1>7
  <2>5. (\E i \in DOMAIN t.inputs : t.inputs[i].amount = 0) => \E i \in DOMAIN src : src[i].amount = 0
    BY <1>7
  <2>6. (\E i \in DOMAIN t.outputs : t.outputs[i].amount = 0) => req.amount = 0
    BY <2>1, <2>2
  <2>7. Sum([i \in DOMAIN t.inputs |-> t.inputs[i].amount]) = GetWithdrawAmount(src)
    BY <2>4 DEF GetWithdrawAmount
  <2> QED BY <2>3, <2>5, <2>6, <2>7 DEF Check
<1>9. (\E i \in DOMAIN src : src[i].amount = 0) => Check(t) = 0
  BY <1>7 DEF Check
<1>10. ASSUME r.err = "" PROVE IsTx(r.tx) /\ Paid(r.tx, req, shown)
  <2>1. GetWithdrawAmount(src) = total /\ ~(Check(t) < 1) /\ r.tx = s
    <3>1. /\ Refuse("Insufficient balance").err # "" /\ Refuse("Inconsistency").err # ""
          /\ Refuse("Failed check").err # "" /\ Accept(s).tx = s
      BY DEF Refuse, Accept
    <3> QED BY <1>2, <1>10, <3>1
  <2>2. \A i \in DOMAIN src : src[i].amount # 0
    BY <1>9, <2>1
  <2> DEFINE L(i) == LockingInput(GetHash(t, IF SameSigMsgAcrossInputs(req.codes) THEN 1 ELSE i, req.codes),
                                  req.codes, t.inputs[i].addr)
  <2>3. /\ s = [inputs |-> s.inputs, outputs |-> t.outputs, ts |-> t.ts]
        /\ DOMAIN s.inputs = DOMAIN t.inputs /\ s.outputs = t.outputs /\ s.ts = t.ts
        /\ \A i \in DOMAIN t.inputs :
             s.inputs[i] = [addr |-> t.inputs[i].addr, amount |-> t.inputs[i].amount, sig |-> L(i)]
    BY <1>7, SignAllKeeps DEF s
  <2> HIDE DEF L
  <2>4. ASSUME NEW i \in DOMAIN src
        PROVE  /\ s.inputs[i].addr = src[i].addr /\ s.inputs[i].amount = src[i].amount
               /\ s.inputs[i] = [addr |-> s.inputs[i].addr, amount |-> s.inputs[i].amount, sig |-> s.inputs[i].sig]
    <3>1. s.inputs[i] = [addr |-> t.inputs[i].addr, amount |-> t.inputs[i].amount, sig |-> L(i)]
      BY <1>7, <2>3
    <3>2. s.inputs[i].addr = t.inputs[i].addr /\ s.inputs[i].amount = t.inputs[i].amount /\ s.inputs[i].sig = L(i)
      BY <3>1
    <3> QED BY <1>7, <3>1, <3>2
  <2>5. IsTx(s)
    <3>1. IsItems(s.inputs)
      BY <1>6, <1>7, <2>3, <2>4 DEF IsItems
    <3>2. IsItems(s.outputs)
      BY <1>7, <2>3 DEF IsTx
    <3>3. s = [inputs |-> s.inputs, outputs |-> s.outputs, ts |-> s.ts]
      BY <2>3
    <3> QED BY <1>7, <2>3, <2>4, <3>1, <3>2, <3>3 DEF IsTx
  <2>6. GetWithdrawAmount(s.inputs) = total
    <3>1. [i \in DOMAIN s.inputs |-> s.inputs[i].amount] = [i \in DOMAIN src |-> src[i].amount]
      BY <1>7, <2>3, <2>4
    <3> QED BY <2>1, <3>1 DEF GetWithdrawAmount
  <2>7. ASSUME NEW i \in DOMAIN s.inputs PROVE s.inputs[i].amount \in 1..shown[s.inputs[i].addr]
    <3>1. i \in DOMAIN src
      BY <1>7, <2>3
    <3>2. /\ src[i].addr \in DOMAIN boxes /\ src[i].amount \in 0..boxes[src[i].addr] /\ src[i].amount # 0
          /\ boxes[src[i].addr] \in Int /\ shown[src[i].addr] = boxes[src[i].addr]
      BY <1>3, <2>2, <3>1 DEF IsBoxes
    <3>3. src[i].amount \in 1..boxes[src[i].addr]
      BY <3>2
    <3> QED BY <2>4, <3>1, <3>2, <3>3
  <2>8. \A i, j \in DOMAIN s.inputs : s.inputs[i].addr = s.inputs[j].addr => i = j
    BY <1>3, <1>7, <2>3, <2>4
  <2>9. \A i \in DOMAIN s.inputs : Unlock(s, i) \/ (i > 1 /\ "this" \in ToSet(req.codes))
    <3>1. \A i \in DOMAIN t.inputs : t.inputs[i].addr \in keys
      BY <1>3, <1>7
    <3>2. DOMAIN t.inputs = 1..k
      BY <1>5, <1>7
    <3> QED BY <1>1, <1>6, <1>7, <3>1, <3>2, SignAllUnlocks DEF s
  <2>10. s.outputs = <<[addr |-> req.rcpt, amount |-> req.amount]>>
    BY <1>7, <2>3
  <2>11. Paid(s, req, shown)
    BY <2>6, <2>7, <2>8, <2>9, <2>10 DEF Paid, total
  <2> QED BY <2>1, <2>5, <2>11
<1>11. ASSUME r.err # "" PROVE TurnedDown(req, shown)
  <2>1. src = <<>> \/ GetWithdrawAmount(src) # total \/ Check(t) < 1
    <3>1. Accept(s).err = ""
      BY DEF Accept
    <3> QED BY <1>2, <1>11, <3>1
  <2>2. IsFiniteSet(Funded(shown)) /\ \A a \in Funded(shown) : shown[a] = boxes[a] /\ shown[a] \in Int
    BY DEF IsBoxes
  <2>3. CASE TakesAll(boxes, total, src) /\ GetWithdrawAmount(src) = Before(boxes, c + 1) /\ GetWithdrawAmount(src) # total
    <3>1. Smallest(boxes, c) = Funded(shown)
      <4>1. \A i \in 1..c : v[i] \in DOMAIN boxes
        BY <1>4
      <4>2. Smallest(boxes, c) = DOMAIN boxes
        BY <1>4, <4>1 DEF Smallest, v
      <4> QED BY <4>2
    <3>2. Before(boxes, c + 1) = SumFunctionOnSet(boxes, Smallest(boxes, c))
      <4>1. c \in 0..NumBoxes(boxes)
        BY <1>4 DEF c
      <4> QED BY <4>1, BeforeIs
    <3>3. SumFunctionOnSet(boxes, Funded(shown)) = SumFunctionOnSet(shown, Funded(shown))
      BY <2>2, SumSame
    <3>4. Before(boxes, c + 1) <= total
      BY <2>3 DEF TakesAll, c
    <3>5. Before(boxes, c + 1) < total
      BY <1>1, <1>3, <2>3, <3>4
    <3>6. SumFunctionOnSet(shown, Funded(shown)) < total
      BY <3>1, <3>2, <3>3, <3>5
    <3> QED BY <3>6 DEF TurnedDown, total
  <2>4. CASE src = <<>> /\ GetWithdrawAmount(src) = total
    <3>1. DOMAIN src = {}
      <4>1. DOMAIN <<>> = {}
        OBVIOUS
      <4> QED BY <2>4, <4>1
    <3>2. [i \in DOMAIN src |-> src[i].amount] = [i \in {} |-> src[i].amount]
      BY <3>1
    <3>3. GetWithdrawAmount(src) = 0
      <4> DEFINE f == [i \in DOMAIN src |-> src[i].amount]
      <4>1. DOMAIN f = {}
        BY <3>1
      <4>2. GetWithdrawAmount(src) = SumFunctionOnSet(f, DOMAIN f)
        BY DEF GetWithdrawAmount, Sum, SumFunction
      <4> HIDE DEF f
      <4> QED BY <4>1, <4>2, SumEmpty
    <3> QED BY <1>1, <2>4, <3>3 DEF total
  <2>5. CASE req.amount = 0
    BY <2>5 DEF TurnedDown
  <2>6. ASSUME NEW m \in Nat, TakesSome(boxes, total, src, m), NEW i \in DOMAIN src, src[i].amount = 0
        PROVE  TurnedDown(req, shown)
    <3>1. /\ m \in 1..c /\ DOMAIN src = 1..m
          /\ \A j \in 1..(m - 1) : src[j].amount = boxes[v[j]]
          /\ src[m].amount = total - Before(boxes, m)
      BY <2>6 DEF TakesSome, c, v
    <3>2. \A j \in 1..c : v[j] \in DOMAIN boxes /\ boxes[v[j]] \in Int /\ boxes[v[j]] > 0
      BY <1>4 DEF IsBoxes
    <3>3. i = m
      <4>1. \A j \in 1..m : j \in 1..c /\ (j \in 1..(m - 1) \/ j = m)
        BY <1>4, <3>1
      <4> QED BY <2>6, <3>1, <3>2, <4>1
    <3> DEFINE S == Smallest(boxes, m - 1)
               b == v[m]
    <3>4. m - 1 \in 0..NumBoxes(boxes) /\ (m - 1) + 1 = m
      BY <1>4, <3>1 DEF c
    <3>5. Before(boxes, m) = SumFunctionOnSet(boxes, S) /\ Before(boxes, m) \in Int
      <4>1. /\ Before(boxes, (m - 1) + 1) = SumFunctionOnSet(boxes, Smallest(boxes, m - 1))
            /\ Before(boxes, (m - 1) + 1) \in Int
        BY <3>4, BeforeIs
      <4> QED BY <3>4, <4>1
    <3>6. Before(boxes, m) = total
      BY <1>1, <2>6, <3>1, <3>3, <3>5
    <3>7. \A a \in S : \E j \in 1..(m - 1) : a = v[j]
      BY DEF Smallest, v
    <3>8. \A j \in 1..(m - 1) : j \in 1..c /\ j < m /\ j # m
      BY <1>4, <3>1
    <3>9. S \in SUBSET Funded(shown)
      BY <3>2, <3>7, <3>8
    <3>10. b \in Funded(shown) \ S
      <4>1. b \in Funded(shown)
        BY <3>1, <3>2
      <4>2. ASSUME b \in S PROVE FALSE
        <5>1. PICK j \in 1..(m - 1) : v[m] = v[j]
          BY <3>7, <4>2
        <5>2. j \in 1..c /\ j # m
          BY <3>8
        <5> QED BY <1>4, <3>1, <5>1, <5>2 DEF IsInjective
      <4> QED BY <4>1, <4>2
    <3>11. ASSUME NEW a \in S PROVE shown[a] <= shown[b]
      <4>1. PICK j \in 1..(m - 1) : a = v[j]
        BY <3>7
      <4>2. boxes[v[j]] <= boxes[v[m]]
        <5>1. \A p, q \in 1..c : p < q => boxes[v[p]] <= boxes[v[q]]
          BY <1>4 DEF Sorted, c, NumBoxes
        <5>2. j \in 1..c /\ j < m /\ m \in 1..c
          BY <3>1, <3>8
        <5> QED BY <5>1, <5>2
      <4>3. shown[v[j]] = boxes[v[j]] /\ shown[v[m]] = boxes[v[m]]
        BY <3>1, <3>2, <3>8
      <4> QED BY <4>1, <4>2, <4>3
    <3>12. SumFunctionOnSet(boxes, S) = SumFunctionOnSet(shown, S)
      <4>1. IsFiniteSet(S)
        BY <2>2, <3>9, FS_Subset
      <4>2. \A a \in S : boxes[a] = shown[a]
        BY <2>2, <3>9
      <4> HIDE DEF S
      <4> QED BY <4>1, <4>2, SumSame
    <3> HIDE DEF S, b
    <3>13. SumFunctionOnSet(shown, S) = req.amount + Fee
      BY <3>5, <3>6, <3>12 DEF total
    <3> QED BY <3>9, <3>10, <3>11, <3>13 DEF TurnedDown
  <2>7. ASSUME TakesAll(boxes, total, src), NEW i \in DOMAIN src PROVE src[i].amount # 0
    <3>1. src[i].amount = boxes[src[i].addr] /\ src[i].addr \in DOMAIN boxes
      BY <1>3, <2>7 DEF TakesAll
    <3> QED BY <3>1 DEF IsBoxes
  <2>8. CASE Check(t) < 1 /\ GetWithdrawAmount(src) = total /\ req.amount # 0
    <3>1. GetWithdrawAmount(src) - req.amount >= 1
      <4>1. GetWithdrawAmount(src) = req.amount + Fee
        BY <2>8 DEF total
      <4>2. (req.amount + Fee) - req.amount >= 1
        BY <1>1
      <4> QED BY <4>1, <4>2
    <3>2. PICK i \in DOMAIN src : src[i].amount = 0
      <4>1. GetWithdrawAmount(src) - req.amount \in Int
        BY <1>1, <1>3
      <4>2. Check(t) # GetWithdrawAmount(src) - req.amount
        BY <2>8, <3>1, <4>1
      <4> QED BY <1>8, <2>8, <4>2
    <3>3. ~TakesAll(boxes, total, src)
      BY <2>7, <3>2
    <3>4. PICK m \in Nat : TakesSome(boxes, total, src, m)
      BY <1>3, <3>3
    <3> QED BY <2>6, <3>2, <3>4
  <2> QED BY <1>3, <2>1, <2>3, <2>4, <2>5, <2>8
<1> QED BY <1>10, <1>11 DEF r

-----------------------------------------------------------------------------
(***************************************************************************)
(* The table of devices and its file.                                      *)
(***************************************************************************)

\* Until one of the flaws, the file of devices is what the users know, and so
\* is the table of a daemon that runs.
RosterInv == Fine => IsRoster(roster) /\ dfile = SaveDevices(roster) /\ (up => devices = roster)

\* A request that was asked.
IsAsked(req) ==
    /\ req.op = "pair" => req.dev \in Device
    /\ req.op = "tx_make" => req \in MakeInput
    /\ req.op \in {"tx_sign", "tx_send"} => IsTx(req.tx)

\* The connections: a device that something is on its way to or from has a
\* socket.
WireInv ==
    /\ DOMAIN stage = Device /\ DOMAIN conn = Device
    /\ \A d \in Device :
         /\ stage[d] # "off" => conn[d]
         /\ inbox[d] # <<>> => conn[d]
         /\ outbox[d] # None => conn[d] /\ outbox[d].id \in 1..n.ask /\ IsAsked(outbox[d].req)
    /\ \A w \in Working : work[w].dev # None => conn[work[w].dev]

\* What a home directory has at the start are tables of devices.
LEMMA PairedAre ==
    ASSUME NEW ds \in Paired
    PROVE  IsRoster(ds)
<1>1. PICK S \in SUBSET Device : IsFiniteSet(S) /\ ds \in [S -> Name \cup {FirstSeen}]
  BY WalletAssumption DEF Rosters
<1>2. DOMAIN ds = S /\ ds = [d \in S |-> ds[d]]
  BY <1>1
<1> QED BY <1>1, <1>2 DEF IsRoster

\* devices_t::authorize, pair and unpair make tables of tables.
LEMMA AdmitIs ==
    ASSUME NEW ds, IsRoster(ds), NEW d \in Device
    PROVE  IsRoster(Admit(d, ds))
<1> DEFINE o == [e \in {d} |-> FirstSeen]
<1>1. DOMAIN o = {d} /\ o = [e \in DOMAIN o |-> o[e]] /\ IsFiniteSet({d})
  BY FS_Singleton
<1> HIDE DEF o
<1>2. IsRoster(o)
  BY <1>1 DEF IsRoster
<1> QED BY <1>2 DEF Admit, o

LEMMA PairIs ==
    ASSUME IsRoster(devices), NEW d \in Device, NEW name
    PROVE  IsRoster(Pair(d, name))
<1>1. DOMAIN Pair(d, name) = DOMAIN devices \cup {d} /\ Pair(d, name) = [e \in DOMAIN Pair(d, name) |-> Pair(d, name)[e]]
  BY DEF Pair
<1>2. IsFiniteSet(DOMAIN devices \cup {d})
  BY FS_AddElement DEF IsRoster
<1> QED BY <1>1, <1>2 DEF IsRoster

LEMMA UnpairIs ==
    ASSUME IsRoster(devices), NEW d
    PROVE  IsRoster(Unpair(d))
<1>1. DOMAIN Unpair(d) = DOMAIN devices \ {d} /\ Unpair(d) = [e \in DOMAIN Unpair(d) |-> Unpair(d)[e]]
  BY DEF Unpair, Restrict
<1>2. IsFiniteSet(DOMAIN devices \ {d})
  BY FS_RemoveElement DEF IsRoster
<1> QED BY <1>1, <1>2 DEF IsRoster

LEMMA RosterStep ==
    ASSUME RosterInv, WireInv, [Next]_vars
    PROVE  RosterInv'
<1>1. ASSUME UNCHANGED <<roster, dfile, devices>>, Fine' => Fine, up' => up
      PROVE  RosterInv'
  BY <1>1 DEF RosterInv
<1>2. ASSUME NEW d \in Device, Verify(d) PROVE RosterInv'
  <2>1. /\ Fine /\ up /\ devices' = Admit(d, devices) /\ roster' = Admit(d, roster)
        /\ dfile' = IF devices' = devices THEN dfile ELSE SaveDevices(devices')
    BY <1>2 DEF Verify
  <2>2. IsRoster(roster) /\ dfile = SaveDevices(roster) /\ devices = roster
    BY <2>1 DEF RosterInv
  <2>3. IsRoster(roster')
    BY <2>1, <2>2, AdmitIs
  <2> QED BY <2>1, <2>2, <2>3 DEF RosterInv
<1>3. ASSUME NEW w \in Worker, NEW d \in Device, ServePairing(w, d) PROVE RosterInv'
  <2> DEFINE req == outbox[d].req
  <2>1. /\ Fine /\ up /\ devices' = IF req.op = "pair" THEN Pair(req.dev, req.name) ELSE Unpair(req.dev)
        /\ dfile' = IF devices' = devices THEN dfile ELSE SaveDevices(devices')
        /\ roster' = devices' /\ outbox[d] # None
    BY <1>3 DEF ServePairing, Takes
  <2>2. IsRoster(roster) /\ dfile = SaveDevices(roster) /\ devices = roster
    BY <2>1 DEF RosterInv
  <2>3. req.op = "pair" => req.dev \in Device
    BY <2>1 DEF WireInv, IsAsked
  <2>4. IsRoster(devices')
    BY <2>1, <2>2, <2>3, PairIs, UnpairIs
  <2> QED BY <2>1, <2>2, <2>4 DEF RosterInv
<1>4. CASE Start
  <2>1. /\ Fine /\ devices' = LoadDevices(dfile) /\ UNCHANGED <<dfile, roster>>
        /\ flaws' = IF \E d \in DOMAIN roster : roster[d] \in {NoName, DefaultName} THEN {"names"} ELSE {}
    BY <1>4 DEF Start, past
  <2>2. IsRoster(roster) /\ dfile = SaveDevices(roster)
    BY <2>1 DEF RosterInv
  <2>3. Fine' => OneWord(roster)
    BY <2>1 DEF Fine, OneWord
  <2>4. Fine' => devices' = roster
    BY <2>1, <2>2, <2>3, LoadsWhatWasSaved
  <2> QED BY <2>1, <2>2, <2>4 DEF RosterInv
<1>5. CASE Kill
  <2>1. Fine /\ UNCHANGED <<roster, devices>> /\ up' = FALSE /\ (Fine' => UNCHANGED dfile)
    BY <1>5 DEF Kill, Fine, past
  <2> QED BY <2>1 DEF RosterInv
<1>6. ASSUME NEW d \in Device, \/ \E req : Ask(d, req)
                              \/ Receive(d) \/ Fail(d) \/ Challenge(d) \/ Reject(d)
      PROVE  RosterInv'
  <2>1. UNCHANGED <<roster, dfile, devices, flaws, up>>
    BY <1>6 DEF Ask, Receive, Fail, Challenge, Reject, mem, past
  <2> QED BY <1>1, <2>1 DEF Fine
<1>7. ASSUME NEW w \in Worker, NEW d \in Device,
             ServeReading(w, d) \/ ServeKeys(w, d) \/ ServeSend(w, d) \/ Unreachable(w, d) \/ Query(w, d)
      PROVE  RosterInv'
  <2>1. UNCHANGED <<roster, dfile, devices, up>> /\ Fine
    BY <1>7 DEF ServeReading, ServeKeys, ServeSend, Unreachable, Query, Takes, mem, past
  <2> QED BY <1>1, <2>1
<1>8. ASSUME NEW w \in Worker, \/ Ping(w) \/ Balance(w) \/ Pay(w) \/ SignDraft(w) \/ GiveUp(w) \/ CashQuery(w)
                               \/ SaveBegins(w) \/ SaveEnds(w) \/ Tell(w)
      PROVE  RosterInv'
  <2>1. UNCHANGED <<roster, dfile, devices, up>> /\ Fine
    BY <1>8 DEF Ping, Balance, Pay, SignDraft, GiveUp, CashQuery, Answered, SaveBegins, SaveEnds, Tell, mem, past
  <2> QED BY <1>1, <2>1
<1>9. CASE Block \/ (\E k \in Key : LocalNew(k))
  <2>1. UNCHANGED <<roster, dfile, devices, up>> /\ Fine
    BY <1>9 DEF Block, LocalNew, mem, past
  <2> QED BY <1>1, <2>1
<1>10. CASE UNCHANGED vars
  <2>1. UNCHANGED <<roster, dfile, devices, flaws, up>>
    BY <1>10 DEF vars, mem, past
  <2> QED BY <1>1, <2>1 DEF Fine
<1> QED BY <1>2, <1>3, <1>4, <1>5, <1>6, <1>7, <1>8, <1>9, <1>10 DEF Next

-----------------------------------------------------------------------------
(***************************************************************************)
(* The connections.                                                        *)
(***************************************************************************)

\* The chain: balances are numbers, and transactions can be summed up.
ChainInv == ledger \in [Key -> Int] /\ \A t \in mempool \cup made : IsTx(t)

\* What a device may ask, with the transactions it has.
LEMMA CommandsAre ==
    ASSUME ChainInv, NEW req \in KeyCommand \cup TxCommand \cup PairCommand
    PROVE  IsAsked(req)
<1>1. CASE req \in KeyCommand
  <2>1. req.op \in {"balance", "list", "new_address", "add_address"}
    BY <1>1 DEF KeyCommand
  <2> QED BY <2>1 DEF IsAsked
<1>2. CASE req \in MakeInput
  <2>1. req.op = "tx_make"
    BY <1>2 DEF MakeInput
  <2> QED BY <1>2, <2>1 DEF IsAsked
<1>3. CASE req \in [op : {"tx_sign"}, tx : made, codes : SigCodes] \cup [op : {"tx_send", "tx_check", "tx_decode"}, tx : made]
  <2>1. req.op \in {"tx_sign", "tx_send", "tx_check", "tx_decode"} /\ req.tx \in made
    BY <1>3
  <2> QED BY <2>1 DEF IsAsked, ChainInv
<1>4. CASE req \in PairCommand
  <2>1. req.op \in {"pair", "unpair", "list_devices", "ping"} /\ (req.op = "pair" => req.dev \in Device)
    BY <1>4 DEF PairCommand
  <2> QED BY <2>1 DEF IsAsked
<1> QED BY <1>1, <1>2, <1>3, <1>4 DEF TxCommand

\* The connections stay, and nothing is sent.
LEMMA WireUntouched ==
    ASSUME AnswersInv, WireInv, UNCHANGED <<conn, stage>>, n'.ask = n.ask,
           \A d \in Device : inbox'[d] # <<>> => conn[d],
           \A d \in Device : outbox'[d] = outbox[d] \/ outbox'[d] = None,
           \A w \in Working' : work'[w].dev = None \/ (w \in Working /\ work'[w].dev = work[w].dev)
    PROVE  WireInv'
<1>1. \A d \in Device : IsAsked(outbox'[d].req) => IsAsked(outbox[d].req)'
  BY DEF IsAsked, MakeInput, IsTx, IsItems
<1>2. \A d \in Device : outbox'[d] # None => conn'[d] /\ outbox'[d].id \in 1..n'.ask /\ IsAsked(outbox'[d].req)
  BY DEF WireInv
<1>3. \A w \in Working' : work'[w].dev # None => conn'[work'[w].dev]
  BY DEF WireInv
<1> QED BY <1>1, <1>2, <1>3 DEF WireInv

\* A device asks: it has a socket then.
LEMMA AskWire ==
    ASSUME AnswersInv, WireInv, ChainInv, NEW d \in Device,
           NEW req \in KeyCommand \cup TxCommand \cup PairCommand, Ask(d, req)
    PROVE  WireInv'
<1>1. /\ n' = [n EXCEPT !.ask = @ + 1] /\ UNCHANGED <<inbox, work>>
      /\ outbox' = [outbox EXCEPT ![d] = IF stage'[d] = "off" \/ object'[d] = "mute" THEN None
                                         ELSE [id |-> n'.ask, req |-> req]]
  BY DEF Ask, chain
<1>2. n'.ask = n.ask + 1 /\ n.ask \in Nat
  BY <1>1 DEF AnswersInv, Shape
<1>3. /\ DOMAIN conn' = Device /\ DOMAIN stage' = Device /\ conn'[d]
      /\ \A e \in Device : e # d => conn'[e] = conn[e] /\ stage'[e] = stage[e]
      /\ \A e \in Device : conn[e] => conn'[e]
  BY DEF Ask, ConnectWalletd, Connect, WireInv
<1>4. \A e \in Device : e # d => outbox'[e] = outbox[e]
  BY <1>1 DEF AnswersInv, Shape
<1>5. outbox'[d] # None => outbox'[d].id = n'.ask /\ outbox'[d].req = req
  <2>1. outbox'[d] # None => outbox'[d] = [id |-> n'.ask, req |-> req]
    BY <1>1 DEF AnswersInv, Shape
  <2> QED BY <2>1
<1>6. IsAsked(req)
  BY CommandsAre
<1>7. ASSUME NEW e \in Device
      PROVE  /\ stage'[e] # "off" => conn'[e]
             /\ inbox'[e] # <<>> => conn'[e]
             /\ outbox'[e] # None => conn'[e] /\ outbox'[e].id \in 1..n'.ask /\ IsAsked(outbox'[e].req)
  <2>1. CASE e = d
    BY <1>2, <1>3, <1>5, <1>6, <2>1
  <2>2. CASE e # d
    <3>1. outbox[e] # None => outbox[e].id \in 1..(n.ask + 1)
      BY <1>2 DEF WireInv
    <3> QED BY <1>1, <1>2, <1>3, <1>4, <2>2, <3>1 DEF WireInv
  <2> QED BY <2>1, <2>2
<1>8. \A w \in Working' : work'[w].dev # None => conn'[work'[w].dev]
  <2>1. Working' = Working
    BY <1>1 DEF Working
  <2> QED BY <1>1, <1>3, <2>1 DEF WireInv, AnswersInv, Shape
<1>9. \A e \in Device : IsAsked(outbox'[e].req) => IsAsked(outbox[e].req)'
  BY DEF IsAsked, MakeInput, IsTx, IsItems
<1> QED BY <1>3, <1>7, <1>8, <1>9 DEF WireInv

\* A device gives up.
LEMMA FailWire ==
    ASSUME AnswersInv, WireInv, NEW d \in Device, Fail(d)
    PROVE  WireInv'
<1>1. /\ inbox[d] = <<>> /\ outbox' = [outbox EXCEPT ![d] = None]
      /\ conn' = [conn EXCEPT ![d] = FALSE] /\ stage' = [stage EXCEPT ![d] = "off"]
      /\ work' = [w \in Worker |-> IF w \in Working /\ work[w].dev = d THEN [work[w] EXCEPT !.dev = None] ELSE work[w]]
      /\ UNCHANGED <<inbox, n>>
  BY DEF Fail, Disconnect
<1>2. /\ DOMAIN conn' = Device /\ DOMAIN stage' = Device /\ stage'[d] = "off" /\ outbox'[d] = None
      /\ \A e \in Device : e # d => conn'[e] = conn[e] /\ stage'[e] = stage[e] /\ outbox'[e] = outbox[e]
  BY <1>1 DEF WireInv, AnswersInv, Shape
<1>3. \A e \in Device : /\ stage'[e] # "off" => conn'[e]
                        /\ inbox'[e] # <<>> => conn'[e]
                        /\ outbox'[e] # None => conn'[e] /\ outbox'[e].id \in 1..n'.ask /\ IsAsked(outbox'[e].req)
  BY <1>1, <1>2 DEF WireInv
<1>4. ASSUME NEW w \in Working', work'[w].dev # None PROVE conn'[work'[w].dev]
  <2>1. w \in Worker
    BY DEF Working
  <2>2. CASE w \in Working /\ work[w].dev = d
    <3>1. work[w] = [dev |-> work[w].dev, id |-> work[w].id, req |-> work[w].req, addrs |-> work[w].addrs]
      BY <2>2 DEF AnswersInv, Shape
    <3>2. work'[w] = [work[w] EXCEPT !.dev = None]
      BY <1>1, <2>1, <2>2
    <3>3. work'[w].dev = None
      BY <3>1, <3>2
    <3> QED BY <1>4, <3>3
  <2>3. CASE ~(w \in Working /\ work[w].dev = d)
    <3>1. work'[w] = work[w]
      BY <1>1, <2>1, <2>3
    <3>2. w \in Working
      BY <2>1, <3>1 DEF Working
    <3>3. work[w].dev \in Device /\ work[w].dev # d
      BY <1>4, <2>3, <3>1, <3>2 DEF AnswersInv, Shape
    <3> QED BY <1>2, <1>4, <3>1, <3>2, <3>3 DEF WireInv
  <2> QED BY <2>2, <2>3
<1>5. \A e \in Device : IsAsked(outbox'[e].req) => IsAsked(outbox[e].req)'
  BY DEF IsAsked, MakeInput, IsTx, IsItems
<1> QED BY <1>2, <1>3, <1>4, <1>5 DEF WireInv

LEMMA WireStep ==
    ASSUME AnswersInv, SavingInv, WireInv, ChainInv, [Next]_vars
    PROVE  WireInv'
<1>1. ASSUME NEW d \in Device, NEW req \in KeyCommand \cup TxCommand \cup PairCommand, Ask(d, req) PROVE WireInv'
  BY <1>1, AskWire
<1>2. ASSUME NEW d \in Device, Fail(d) PROVE WireInv'
  BY <1>2, FailWire
<1>3. ASSUME UNCHANGED work PROVE \A w \in Working' : w \in Working /\ work'[w].dev = work[w].dev
  BY <1>3 DEF Working
<1>4. ASSUME NEW d \in Device, conn[d], NEW x, inbox' = [inbox EXCEPT ![d] = x]
      PROVE  \A e \in Device : inbox'[e] # <<>> => conn[e]
  BY <1>4 DEF WireInv, AnswersInv, Shape
<1>5. ASSUME NEW d \in Device, outbox' = [outbox EXCEPT ![d] = None]
      PROVE  \A e \in Device : outbox'[e] = outbox[e] \/ outbox'[e] = None
  BY <1>5 DEF AnswersInv, Shape
<1>6. ASSUME NEW d \in Device, Receive(d) PROVE WireInv'
  <2>1. /\ inbox[d] # <<>> /\ inbox' = [inbox EXCEPT ![d] = Tail(inbox[d])] /\ UNCHANGED <<conn, stage, outbox, work, n>>
    BY <1>6 DEF Receive, chain
  <2>2. conn[d]
    BY <2>1 DEF WireInv
  <2> QED BY <1>3, <1>4, <2>1, <2>2, WireUntouched
<1>7. ASSUME NEW d \in Device, Challenge(d) PROVE WireInv'
  <2>1. /\ stage[d] = "anonymous" /\ inbox' = [inbox EXCEPT ![d] = Append(inbox[d], 0)]
        /\ UNCHANGED <<conn, stage, outbox, work, n>>
    BY <1>7 DEF Challenge, chain
  <2>2. conn[d]
    BY <2>1 DEF WireInv
  <2> QED BY <1>3, <1>4, <2>1, <2>2, WireUntouched
<1>8. ASSUME NEW w \in Worker, NEW d \in Device,
             ServeReading(w, d) \/ ServePairing(w, d) \/ ServeSend(w, d) \/ Unreachable(w, d)
      PROVE  WireInv'
  <2>1. PICK ops : Takes(w, d, ops) /\ Answer(d, outbox[d].id)
    BY <1>8 DEF ServeReading, ServePairing, ServeSend, Unreachable
  <2>2. UNCHANGED <<conn, stage, work, n>>
    BY <1>8 DEF ServeReading, ServePairing, ServeSend, Unreachable, chain
  <2>3. /\ stage[d] = "authorized" /\ outbox' = [outbox EXCEPT ![d] = None]
        /\ inbox' = [inbox EXCEPT ![d] = Append(inbox[d], outbox[d].id)]
    BY <2>1 DEF Takes, Answer
  <2>4. conn[d]
    BY <2>3 DEF WireInv
  <2> QED BY <1>3, <1>4, <1>5, <2>2, <2>3, <2>4, WireUntouched
<1>9. ASSUME NEW w \in Worker, NEW d \in Device, Query(w, d) \/ ServeKeys(w, d) PROVE WireInv'
  <2>1. /\ stage[d] = "authorized" /\ outbox' = [outbox EXCEPT ![d] = None]
        /\ UNCHANGED <<conn, stage, inbox, n>>
    BY <1>9 DEF Query, ServeKeys, Takes
  <2>2. PICK id, req, addrs : work' = [work EXCEPT ![w] = [dev |-> d, id |-> id, req |-> req, addrs |-> addrs]]
    BY <1>9 DEF Query, ServeKeys, Busies
  <2>3. conn[d] /\ \A e \in Device : outbox'[e] = outbox[e] \/ outbox'[e] = None
    BY <1>5, <2>1 DEF WireInv
  <2>4. \A v \in Worker : v # w => work'[v] = work[v]
    BY <2>2 DEF AnswersInv, Shape
  <2>5. work'[w].dev = d
    BY <2>2 DEF AnswersInv, Shape
  <2>6. \A v \in Working' : v \in Worker /\ (v # w => v \in Working)
    BY <2>4 DEF Working
  <2>7. \A e \in Device : outbox'[e] # None => conn'[e] /\ outbox'[e].id \in 1..n'.ask /\ IsAsked(outbox'[e].req)
    BY <2>1, <2>3 DEF WireInv
  <2>8. \A e \in Device : IsAsked(outbox'[e].req) => IsAsked(outbox[e].req)'
    BY DEF IsAsked, MakeInput, IsTx, IsItems
  <2>9. \A v \in Working' : work'[v].dev # None => conn'[work'[v].dev]
    BY <2>1, <2>3, <2>4, <2>5, <2>6 DEF WireInv
  <2> QED BY <2>1, <2>7, <2>8, <2>9 DEF WireInv
<1>10. ASSUME NEW w \in Worker, Ping(w) \/ Balance(w) \/ Pay(w) \/ SignDraft(w) \/ GiveUp(w) \/ Tell(w)
      PROVE  WireInv'
  <2>0. Done(w) /\ UNCHANGED <<conn, stage, outbox, n>> /\ (w \in Waiting \/ saving[w].at = "saved")
    BY <1>10 DEF Ping, Balance, Pay, SignDraft, GiveUp, Tell, Answered
  <2>1. w \in Working /\ Done(w) /\ UNCHANGED <<conn, stage, outbox, n>>
    BY <2>0, SaversWork DEF Waiting
  <2>2. /\ work' = [work EXCEPT ![w] = Idle]
        /\ IF work[w].dev = None THEN inbox' = inbox
           ELSE inbox' = [inbox EXCEPT ![work[w].dev] = Append(inbox[work[w].dev], work[w].id)]
    BY <2>1 DEF Done, Answer
  <2>3. \A e \in Device : inbox'[e] # <<>> => conn[e]
    <3>1. CASE work[w].dev = None
      BY <2>2, <3>1 DEF WireInv
    <3>2. CASE work[w].dev # None
      <4>1. work[w].dev \in Device /\ conn[work[w].dev]
        BY <2>1, <3>2 DEF WireInv, AnswersInv, Shape
      <4> QED BY <1>4, <2>2, <3>2, <4>1
    <3> QED BY <3>1, <3>2
  <2>4. \A v \in Working' : v \in Working /\ work'[v].dev = work[v].dev
    <3>1. work'[w].id = 0 /\ \A v \in Worker : v # w => work'[v] = work[v]
      BY <2>2 DEF AnswersInv, Shape, Idle
    <3> QED BY <3>1 DEF Working
  <2> QED BY <2>1, <2>3, <2>4, WireUntouched
<1>11. ASSUME NEW d \in Device, Verify(d) \/ Reject(d) PROVE WireInv'
  <2>1. /\ UNCHANGED <<conn, inbox, work, n>> /\ stage[d] # "off"
        /\ \E x : stage' = [stage EXCEPT ![d] = x]
        /\ outbox' = outbox \/ outbox' = [outbox EXCEPT ![d] = None]
    BY <1>11 DEF Verify, Reject, chain
  <2>2. /\ DOMAIN stage' = Device /\ \A e \in Device : stage'[e] # "off" => conn[e]
        /\ \A e \in Device : outbox'[e] = outbox[e] \/ outbox'[e] = None
    BY <1>5, <2>1 DEF WireInv
  <2>3. \A e \in Device : outbox'[e] # None => conn'[e] /\ outbox'[e].id \in 1..n'.ask /\ IsAsked(outbox'[e].req)
    BY <2>1, <2>2 DEF WireInv
  <2>4. \A e \in Device : IsAsked(outbox'[e].req) => IsAsked(outbox[e].req)'
    BY DEF IsAsked, MakeInput, IsTx, IsItems
  <2>5. \A v \in Working' : work'[v].dev # None => conn'[work'[v].dev]
    BY <1>3, <2>1 DEF WireInv
  <2> QED BY <2>1, <2>2, <2>3, <2>4, <2>5 DEF WireInv
<1>12. CASE Kill
  <2>1. /\ stage' = [d \in Device |-> "off"] /\ outbox' = [d \in Device |-> None]
        /\ work' = [w \in Worker |-> Idle] /\ UNCHANGED <<conn, inbox, n>>
    BY <1>12 DEF Kill
  <2>2. Working' = {}
    BY <2>1 DEF Working, Idle
  <2> QED BY <2>1, <2>2 DEF WireInv
<1>13. CASE Start \/ \E k \in Key : LocalNew(k)
  <2>1. UNCHANGED <<conn, stage, outbox, inbox, work>> /\ (n' = [n EXCEPT !.boot = @ + 1] \/ n' = [n EXCEPT !.loc = @ + 1])
    BY <1>13 DEF Start, LocalNew, wire, chain
  <2>2. n'.ask = n.ask /\ \A e \in Device : inbox'[e] # <<>> => conn[e]
    BY <2>1 DEF AnswersInv, Shape, WireInv
  <2> QED BY <1>3, <2>1, <2>2, WireUntouched
<1>14. CASE (\E w \in Worker : CashQuery(w) \/ SaveBegins(w) \/ SaveEnds(w)) \/ Block \/ UNCHANGED vars
  <2>1. UNCHANGED <<conn, stage, outbox, inbox, work, n>>
    BY <1>14 DEF CashQuery, SaveBegins, SaveEnds, Block, vars, wire, chain
  <2>2. \A e \in Device : inbox'[e] # <<>> => conn[e]
    BY <2>1 DEF WireInv
  <2> QED BY <1>3, <2>1, <2>2, WireUntouched
<1> QED BY <1>1, <1>2, <1>6, <1>7, <1>8, <1>9, <1>10, <1>11, <1>12, <1>13, <1>14 DEF Next

-----------------------------------------------------------------------------
(***************************************************************************)
(* The tables, and the workers that wait for the backend.                  *)
(***************************************************************************)

\* The tables hold keys and devices, and a finite number of them.
TablesInv ==
    /\ up \in BOOLEAN
    /\ keys \subseteq Key /\ file \subseteq Key /\ IsFiniteSet(keys) /\ IsFiniteSet(file)
    /\ DOMAIN devices \subseteq Device
    /\ \A a \in DOMAIN data : a \in Key /\ data[a] > 0

\* Requests that all addresses of the wallet are asked for.
Refreshing(w) == work[w].req.op \in {"tx_make", "balance"}

\* Addresses of the wallet, each once.
IsList(addrs) == IsInjective(addrs) /\ \A i \in DOMAIN addrs : addrs[i] \in keys

\* The workers: until one of the flaws only one of them waits for the backend,
\* and the answer on its way is the one it waits for.
BackendInv ==
    /\ \A w \in Waiting : up /\ sock /\ IsAsked(work[w].req) /\ (Refreshing(w) => IsList(work[w].addrs))
    /\ Fine => \A v, w \in Waiting : v = w
    /\ Fine /\ reply # None =>
         /\ Waiting # {}
         /\ \A w \in Waiting :
              /\ DOMAIN reply = DOMAIN work[w].addrs
              /\ Refreshing(w) => \A i \in DOMAIN reply : reply[i] \in Int

\* The balances that the worker was answered, by address.
Shown(w) == [a \in ToSet(work[w].addrs) |-> reply[CHOOSE i \in DOMAIN reply : work[w].addrs[i] = a]]

\* What query_accounts makes of an answer: the accounts of the wallet that are
\* not empty, each with its balance.
LEMMA BoxesAre ==
    ASSUME TablesInv, BackendInv, Fine, reply # None, NEW w \in Waiting, Refreshing(w)
    PROVE  /\ IsBoxes(Boxes(w)) /\ DOMAIN Boxes(w) = Funded(Shown(w))
           /\ \A a \in DOMAIN Boxes(w) : Shown(w)[a] = Boxes(w)[a] /\ a \in keys /\ Boxes(w)[a] > 0
<1> DEFINE s == work[w].addrs
           at(a) == CHOOSE i \in DOMAIN s : s[i] = a
           D == {s[i] : i \in {j \in DOMAIN s : reply[j] > 0}}
           b == Boxes(w)
<1>1. /\ DOMAIN reply = DOMAIN s /\ IsInjective(s) /\ \A i \in DOMAIN s : s[i] \in keys /\ reply[i] \in Int
  BY DEF BackendInv, IsList
<1>2. b = [a \in D |-> reply[at(a)]]
  BY DEF Boxes, QueryAccounts
<1>3. Shown(w) = [a \in {s[i] : i \in DOMAIN s} |-> reply[at(a)]]
  BY <1>1 DEF Shown, ToSet
<1> HIDE DEF b, s
<1>4. ASSUME NEW i \in DOMAIN s PROVE at(s[i]) = i
  <2>1. at(s[i]) \in DOMAIN s /\ s[at(s[i])] = s[i]
    OBVIOUS
  <2> QED BY <1>1, <2>1 DEF IsInjective
<1> HIDE DEF at
<1>5. DOMAIN b = D /\ \A a \in D : b[a] = reply[at(a)]
  BY <1>2
<1>6. \A a \in D : a \in keys /\ b[a] \in Int /\ b[a] > 0 /\ Shown(w)[a] = b[a]
  BY <1>1, <1>3, <1>4, <1>5
<1>7. D = Funded(Shown(w))
  <2>1. DOMAIN Shown(w) = {s[i] : i \in DOMAIN s} /\ \A i \in DOMAIN s : Shown(w)[s[i]] = reply[i]
    BY <1>3, <1>4
  <2>2. Funded(Shown(w)) = {a \in {s[i] : i \in DOMAIN s} : Shown(w)[a] > 0}
    BY <2>1 DEF Funded
  <2> QED BY <2>1, <2>2
<1>8. IsFiniteSet(D)
  <2>1. D \subseteq keys /\ IsFiniteSet(keys)
    BY <1>6 DEF TablesInv
  <2> QED BY <2>1, FS_Subset
<1>9. IsBoxes(b)
  BY <1>5, <1>6, <1>8 DEF IsBoxes
<1> QED BY <1>5, <1>6, <1>7, <1>9 DEF b

LEMMA TablesStep ==
    ASSUME TablesInv, SavingInv, BackendInv, RosterInv, WireInv, [Next]_vars
    PROVE  TablesInv'
<1>1. ASSUME UNCHANGED <<up, keys, file, devices, data>> PROVE TablesInv'
  BY <1>1 DEF TablesInv
<1>2. \A S \in SUBSET Key, k \in Key : IsFiniteSet(S) => IsFiniteSet(S \cup {k}) /\ S \cup {k} \subseteq Key
  BY FS_AddElement
<1>3. ASSUME NEW w \in Worker, NEW d \in Device, ServeKeys(w, d) PROVE TablesInv'
  <2>1. PICK k \in Key : keys' = keys \/ keys' = keys \cup {k}
    BY <1>3 DEF ServeKeys, AddAddress, NewAddress, Emplace
  <2>2. UNCHANGED <<up, file, devices, data>>
    BY <1>3 DEF ServeKeys
  <2> QED BY <1>2, <2>1, <2>2 DEF TablesInv
<1>4. ASSUME NEW k \in Key, LocalNew(k) PROVE TablesInv'
  <2>1. (file' = (file \cup {GovKey}) \cup {k} \/ file' = {}) /\ UNCHANGED <<up, keys, devices, data>>
    BY <1>4 DEF LocalNew, Save, ImportGovKey, Load
  <2>2. IsFiniteSet(file \cup {GovKey}) /\ file \cup {GovKey} \subseteq Key
    BY <1>2, WalletAssumption DEF TablesInv
  <2>3. IsFiniteSet((file \cup {GovKey}) \cup {k}) /\ (file \cup {GovKey}) \cup {k} \subseteq Key
    <3> DEFINE S == file \cup {GovKey}
    <3> HIDE DEF S
    <3> QED BY <1>2, <2>2 DEF S
  <2>4. IsFiniteSet(file') /\ file' \subseteq Key
    <3>1. CASE file' = {}
      BY <3>1, FS_EmptySet
    <3>2. CASE file' = (file \cup {GovKey}) \cup {k}
      BY <2>3, <3>2
    <3> QED BY <2>1, <3>1, <3>2
  <2> QED BY <2>1, <2>4 DEF TablesInv
<1>5. CASE Start
  <2>1. keys' = file \cup {GovKey} /\ file' = keys' /\ data' = <<>> /\ up' = TRUE /\ Fine /\ devices' = LoadDevices(dfile)
    BY <1>5 DEF Start, Save, ImportGovKey, Load
  <2>2. IsRoster(roster) /\ dfile = SaveDevices(roster)
    BY <2>1 DEF RosterInv
  <2>3. DOMAIN devices' \subseteq Device
    <3>1. dfile \in Seq(WordsOf(roster))
      BY <2>2, SavedIsSeq
    <3>2. Len(dfile) \in Nat
      BY <3>1, LenProperties
    <3> QED BY <2>1, <3>2, LoadsDevices
  <2>4. DOMAIN data' = {}
    BY <2>1
  <2>5. IsFiniteSet(keys') /\ keys' \subseteq Key
    BY <1>2, <2>1, WalletAssumption DEF TablesInv
  <2> QED BY <2>1, <2>3, <2>4, <2>5 DEF TablesInv
<1>6. CASE Kill
  <2>1. UNCHANGED <<keys, devices, data>> /\ up' = FALSE /\ (file' = file \/ file' \subseteq keys)
    BY <1>6 DEF Kill
  <2> QED BY <2>1, FS_Subset DEF TablesInv
<1>7. ASSUME NEW d \in Device, Verify(d) PROVE TablesInv'
  <2>1. devices' = Admit(d, devices) /\ Fine /\ up /\ UNCHANGED <<up, keys, file, data>>
    BY <1>7 DEF Verify
  <2>2. IsRoster(devices)
    BY <2>1 DEF RosterInv
  <2>3. DOMAIN devices' \subseteq Device
    BY <2>1, <2>2, AdmitIs DEF IsRoster
  <2> QED BY <2>1, <2>3 DEF TablesInv
<1>8. ASSUME NEW w \in Worker, NEW d \in Device, ServePairing(w, d) PROVE TablesInv'
  <2> DEFINE req == outbox[d].req
  <2>1. /\ Fine /\ up /\ devices' = IF req.op = "pair" THEN Pair(req.dev, req.name) ELSE Unpair(req.dev)
        /\ UNCHANGED <<up, keys, file, data>> /\ outbox[d] # None
    BY <1>8 DEF ServePairing, Takes
  <2>2. IsRoster(devices) /\ (req.op = "pair" => req.dev \in Device)
    BY <2>1 DEF RosterInv, WireInv, IsAsked
  <2>3. IsRoster(devices')
    BY <2>1, <2>2, PairIs, UnpairIs
  <2> QED BY <2>1, <2>3 DEF TablesInv, IsRoster
<1>9. ASSUME NEW w \in Worker, Balance(w) \/ Pay(w) PROVE TablesInv'
  <2>1. /\ w \in Waiting /\ reply # None /\ Fine /\ data' = Boxes(w) /\ UNCHANGED <<up, keys, file, devices>>
        /\ work[w].req.op \in {"balance", "tx_make"}
    BY <1>9 DEF Balance, Pay, Answered
  <2>2. \A a \in DOMAIN Boxes(w) : a \in keys /\ Boxes(w)[a] > 0
    BY <2>1, BoxesAre DEF Refreshing
  <2> QED BY <2>1, <2>2 DEF TablesInv
<1>10. ASSUME NEW d \in Device, \/ \E req : Ask(d, req)
                               \/ Receive(d) \/ Fail(d) \/ Challenge(d) \/ Reject(d)
      PROVE  TablesInv'
  <2>1. UNCHANGED <<up, keys, file, devices, data>>
    BY <1>10 DEF Ask, Receive, Fail, Challenge, Reject, mem
  <2> QED BY <1>1, <2>1
<1>11. ASSUME NEW w \in Worker, NEW d \in Device,
             ServeReading(w, d) \/ ServeSend(w, d) \/ Unreachable(w, d) \/ Query(w, d)
      PROVE  TablesInv'
  <2>1. UNCHANGED <<up, keys, file, devices, data>>
    BY <1>11 DEF ServeReading, ServeSend, Unreachable, Query, mem
  <2> QED BY <1>1, <2>1
<1>12. ASSUME NEW w \in Worker, Ping(w) \/ SignDraft(w) \/ GiveUp(w) \/ CashQuery(w) PROVE TablesInv'
  <2>1. UNCHANGED <<up, keys, file, devices, data>>
    BY <1>12 DEF Ping, SignDraft, GiveUp, CashQuery, Answered, mem
  <2> QED BY <1>1, <2>1
<1>13. CASE Block \/ (\E w \in Worker : Tell(w)) \/ UNCHANGED vars
  <2>1. UNCHANGED <<up, keys, file, devices, data>>
    BY <1>13 DEF Block, Tell, vars, mem
  <2> QED BY <1>1, <2>1
<1>14. ASSUME NEW w \in Worker, SaveBegins(w) \/ SaveEnds(w) PROVE TablesInv'
  <2>1. UNCHANGED <<up, keys, devices, data>> /\ file' \in {file, {}, saving[w].keys}
    BY <1>14 DEF SaveBegins, SaveEnds
  <2>2. saving[w].keys \subseteq keys
    BY DEF SavingInv, Outside
  <2> QED BY <2>1, <2>2, FS_EmptySet, FS_Subset DEF TablesInv
<1> QED BY <1>3, <1>4, <1>5, <1>6, <1>7, <1>8, <1>9, <1>10, <1>11, <1>12, <1>13, <1>14 DEF Next

\* Workers may stop to wait, and an answer may be used up.
LEMMA BackendKept ==
    ASSUME BackendInv, Waiting' \subseteq Waiting, Waiting' # {} => up' /\ sock', keys \subseteq keys',
           \A w \in Waiting' : work'[w].req = work[w].req /\ work'[w].addrs = work[w].addrs,
           Fine' => Fine, reply' = None \/ (reply' = reply /\ Waiting' = Waiting)
    PROVE  BackendInv'
<1>1. \A w \in Waiting' : IsAsked(work'[w].req) => IsAsked(work[w].req)'
  BY DEF IsAsked, MakeInput, IsTx, IsItems
<1>2. \A w \in Waiting' : Refreshing(w)' => Refreshing(w)
  BY DEF Refreshing
<1>3. \A w \in Waiting' : IsList(work[w].addrs) => IsList(work[w].addrs)'
  BY DEF IsList, IsInjective
<1>4. \A w \in Waiting' : up' /\ sock' /\ IsAsked(work[w].req)' /\ (Refreshing(w)' => IsList(work[w].addrs)')
  BY <1>1, <1>2, <1>3 DEF BackendInv
<1>5. Fine' => \A v, w \in Waiting' : v = w
  BY DEF BackendInv
<1>6. ASSUME Fine', reply' # None
      PROVE  /\ Waiting' # {}
             /\ \A w \in Waiting' : /\ DOMAIN reply' = DOMAIN work'[w].addrs
                                    /\ Refreshing(w)' => \A i \in DOMAIN reply' : reply'[i] \in Int
  BY <1>2, <1>6 DEF BackendInv
<1> QED BY <1>4, <1>5, <1>6 DEF BackendInv

\* A worker asks the backend.
LEMMA QueryBackend ==
    ASSUME AnswersInv, TablesInv, WireInv, BackendInv, NEW w \in Worker, NEW d \in Device, Query(w, d)
    PROVE  BackendInv'
<1> DEFINE req == outbox[d].req
<1>1. /\ Fine /\ up /\ w \notin Working /\ outbox[d] # None /\ req.op \in BackendOps \ {"tx_send"}
      /\ work' = [work EXCEPT ![w] = [dev |-> d, id |-> outbox[d].id, req |-> req, addrs |-> Addresses(req)]]
      /\ sock' = TRUE /\ flaws' = IF Waiting # {} THEN {"mixed"} ELSE {}
      /\ UNCHANGED <<up, keys, reply>>
  BY DEF Query, Takes, Busies, mem
<1>2. \A v \in Worker : v # w => work'[v] = work[v]
  BY <1>1 DEF AnswersInv, Shape
<1>3. work'[w].req = req /\ work'[w].addrs = Addresses(req)
  <2>1. work'[w] = [dev |-> d, id |-> outbox[d].id, req |-> req, addrs |-> Addresses(req)]
    BY <1>1 DEF AnswersInv, Shape
  <2> QED BY <2>1
<1>4. \A v \in Waiting' : v = w \/ (v # w /\ v \in Waiting /\ work'[v] = work[v])
  BY <1>2 DEF Waiting, Working
<1>5. IsAsked(req)
  BY <1>1 DEF WireInv
<1>6. req.op \in {"tx_make", "balance"} => IsList(Addresses(req))
  <2> SUFFICES ASSUME req.op \in {"tx_make", "balance"} PROVE IsList(InOrder(keys))
    BY DEF Addresses
  <2> DEFINE o == InOrder(keys)
             c == Cardinality(keys)
  <2>1. o \in [1..c -> keys] /\ IsInjective(o)
    BY OrderIs DEF TablesInv
  <2> HIDE DEF o
  <2>2. IsList(o)
    BY <2>1 DEF IsList
  <2> QED BY <2>2 DEF o
<1>7. \A v \in Waiting' : IsAsked(work'[v].req) => IsAsked(work[v].req)'
  BY DEF IsAsked, MakeInput, IsTx, IsItems
<1>8. \A v \in Waiting' : IsList(work'[v].addrs) => IsList(work[v].addrs)'
  BY <1>1 DEF IsList, IsInjective
<1> HIDE DEF req
<1>9. ASSUME NEW v \in Waiting'
      PROVE  up' /\ sock' /\ IsAsked(work[v].req)' /\ (Refreshing(v)' => IsList(work[v].addrs)')
  <2>1. CASE v = w
    <3>1. Refreshing(w)' => req.op \in {"tx_make", "balance"}
      BY <1>3 DEF Refreshing
    <3> QED BY <1>1, <1>3, <1>5, <1>6, <1>7, <1>8, <2>1, <3>1
  <2>2. CASE v # w
    <3>1. v \in Waiting /\ work'[v] = work[v]
      BY <1>4, <2>2
    <3>2. Refreshing(v)' => Refreshing(v)
      BY <3>1 DEF Refreshing
    <3>3. IsAsked(work[v].req) /\ (Refreshing(v) => IsList(work[v].addrs))
      BY <3>1 DEF BackendInv
    <3> QED BY <1>1, <1>7, <1>8, <3>1, <3>2, <3>3
  <2> QED BY <2>1, <2>2
<1>10. ASSUME Fine' PROVE Waiting = {} /\ reply' = None
  <2>1. Waiting = {}
    BY <1>1, <1>10 DEF Fine
  <2> QED BY <1>1, <2>1 DEF BackendInv
<1>11. Fine' => \A u, v \in Waiting' : u = v
  BY <1>4, <1>10
<1> QED BY <1>9, <1>10, <1>11 DEF BackendInv

\* The backend answers: the balances of the addresses that the worker asked.
LEMMA CashBackend ==
    ASSUME AnswersInv, TablesInv, BackendInv, ChainInv, NEW w \in Worker, CashQuery(w)
    PROVE  BackendInv'
<1>1. /\ Fine /\ w \in Waiting /\ UNCHANGED <<up, keys, sock, work, flaws>>
      /\ reply' = [i \in DOMAIN work[w].addrs |-> ledger[work[w].addrs[i]]]
  BY DEF CashQuery, mem
<1>2. Waiting' = Waiting /\ \A v \in Waiting : v = w
  BY <1>1 DEF Waiting, Working, BackendInv
<1>3. DOMAIN reply' = DOMAIN work[w].addrs
  BY <1>1
<1>4. ASSUME Refreshing(w), NEW i \in DOMAIN reply' PROVE reply'[i] \in Int
  <2>1. work[w].addrs[i] \in keys
    BY <1>1, <1>3, <1>4 DEF BackendInv, IsList
  <2>2. ledger[work[w].addrs[i]] \in Int
    BY <2>1 DEF TablesInv, ChainInv
  <2> QED BY <1>1, <1>3, <2>2
<1>5. \A v \in Waiting : IsAsked(work[v].req) => IsAsked(work[v].req)'
  BY <1>1 DEF IsAsked, MakeInput, IsTx, IsItems
<1>6. \A v \in Waiting : /\ Refreshing(v)' <=> Refreshing(v)
                         /\ IsList(work[v].addrs) => IsList(work[v].addrs)'
  BY <1>1 DEF Refreshing, IsList, IsInjective
<1>7. \A v \in Waiting' : up' /\ sock' /\ IsAsked(work[v].req)' /\ (Refreshing(v)' => IsList(work[v].addrs)')
  BY <1>1, <1>2, <1>5, <1>6 DEF BackendInv
<1>8. \A v \in Waiting' : /\ DOMAIN reply' = DOMAIN work'[v].addrs
                          /\ Refreshing(v)' => \A i \in DOMAIN reply' : reply'[i] \in Int
  BY <1>1, <1>2, <1>3, <1>4, <1>6
<1> QED BY <1>1, <1>2, <1>7, <1>8 DEF BackendInv

LEMMA BackendStep ==
    ASSUME AnswersInv, SavingInv, TablesInv, WireInv, BackendInv, ChainInv, [Next]_vars
    PROVE  BackendInv'
<1>1. ASSUME UNCHANGED <<work, reply, up>>, sock' = sock \/ sock' = TRUE, keys \subseteq keys', Fine' => Fine
      PROVE  BackendInv'
  <2>1. Waiting' = Waiting
    BY <1>1 DEF Waiting, Working
  <2>2. Waiting # {} => up' /\ sock'
    BY <1>1 DEF BackendInv
  <2> QED BY <1>1, <2>1, <2>2, BackendKept
<1>2. ASSUME NEW d \in Device, Fail(d) PROVE BackendInv'
  <2>1. /\ work' = [w \in Worker |-> IF w \in Working /\ work[w].dev = d THEN [work[w] EXCEPT !.dev = None] ELSE work[w]]
        /\ UNCHANGED <<up, keys, sock, reply, flaws>>
    BY <1>2 DEF Fail, mem
  <2>2. \A w \in Worker : w \notin Working => work'[w] = work[w]
    BY <2>1
  <2>3. ASSUME NEW w \in Working
        PROVE  work'[w].id = work[w].id /\ work'[w].req = work[w].req /\ work'[w].addrs = work[w].addrs
    <3>1. w \in Worker
      BY DEF Working
    <3>2. CASE work[w].dev = d
      <4>1. work[w] = [dev |-> work[w].dev, id |-> work[w].id, req |-> work[w].req, addrs |-> work[w].addrs]
        BY DEF AnswersInv, Shape
      <4>2. work'[w] = [work[w] EXCEPT !.dev = None]
        BY <2>1, <3>1, <3>2
      <4> QED BY <4>1, <4>2
    <3>3. CASE work[w].dev # d
      BY <2>1, <3>1, <3>3
    <3> QED BY <3>2, <3>3
  <2>4. Waiting' = Waiting
    BY <2>2, <2>3 DEF Waiting, Working
  <2>5. Waiting # {} => up' /\ sock'
    BY <2>1 DEF BackendInv
  <2> QED BY <2>1, <2>3, <2>4, <2>5, BackendKept DEF Fine, Waiting
<1>3. ASSUME NEW w \in Worker, NEW d \in Device, Query(w, d) PROVE BackendInv'
  BY <1>3, QueryBackend
<1>4. ASSUME NEW w \in Worker, CashQuery(w) PROVE BackendInv'
  BY <1>4, CashBackend
<1>5. ASSUME NEW w \in Worker, Ping(w) \/ Balance(w) \/ Pay(w) \/ SignDraft(w) \/ GiveUp(w) PROVE BackendInv'
  <2>1. Fine /\ w \in Waiting /\ work' = [work EXCEPT ![w] = Idle] /\ reply' = None /\ UNCHANGED <<up, keys, flaws>>
    BY <1>5 DEF Ping, Balance, Pay, SignDraft, GiveUp, Answered, Done, mem
  <2>2. work'[w].id = 0
    BY <2>1 DEF Idle, AnswersInv, Shape
  <2>3. \A v \in Worker : v # w => work'[v] = work[v]
    BY <2>1 DEF AnswersInv, Shape
  <2>4. Waiting' = {}
    BY <2>1, <2>2, <2>3 DEF Waiting, Working, BackendInv
  <2> QED BY <2>1, <2>4, BackendKept DEF Fine
<1>6. CASE Kill
  <2>1. Fine /\ work' = [w \in Worker |-> Idle] /\ reply' = None /\ UNCHANGED keys
    BY <1>6 DEF Kill
  <2>2. Waiting' = {}
    BY <2>1 DEF Waiting, Working, Idle
  <2> QED BY <2>1, <2>2, BackendKept
<1>7. CASE Start
  <2>1. Fine /\ ~up /\ UNCHANGED <<work, reply>>
    BY <1>7 DEF Start, chain
  <2>2. Waiting = {} /\ reply = None
    BY <2>1 DEF BackendInv
  <2>3. Waiting' = {} /\ reply' = None
    BY <2>1, <2>2 DEF Waiting, Working
  <2> QED BY <2>3 DEF BackendInv
<1>8. ASSUME NEW d \in Device, \/ \E req : Ask(d, req)
                              \/ Receive(d) \/ Verify(d) \/ Challenge(d) \/ Reject(d)
      PROVE  BackendInv'
  <2>1. UNCHANGED <<work, reply, up, sock, keys, flaws>>
    BY <1>8 DEF Ask, Receive, Verify, Challenge, Reject, mem, chain
  <2> QED BY <1>1, <2>1 DEF Fine
<1>9. ASSUME NEW w \in Worker, NEW d \in Device,
             ServeReading(w, d) \/ ServePairing(w, d) \/ ServeSend(w, d) \/ Unreachable(w, d)
      PROVE  BackendInv'
  <2>1. UNCHANGED <<work, reply, up, keys, flaws>> /\ (sock' = sock \/ sock' = TRUE)
    BY <1>9 DEF ServeReading, ServePairing, ServeSend, Unreachable, mem, chain
  <2> QED BY <1>1, <2>1 DEF Fine
<1>10. ASSUME NEW w \in Worker, NEW d \in Device, ServeKeys(w, d) PROVE BackendInv'
  <2>1. /\ UNCHANGED <<reply, up, sock>> /\ Fine /\ w \notin Working /\ outbox[d].req.op \in {"new_address", "add_address"}
        /\ work' = [work EXCEPT ![w] = [dev |-> d, id |-> outbox[d].id, req |-> outbox[d].req, addrs |-> <<>>]]
    BY <1>10 DEF ServeKeys, Takes, Busies
  <2>2. keys \subseteq keys'
    BY <1>10 DEF ServeKeys, AddAddress, NewAddress, Emplace
  <2>3. work'[w].req = outbox[d].req /\ \A v \in Worker : v # w => work'[v] = work[v]
    <3>1. work'[w] = [dev |-> d, id |-> outbox[d].id, req |-> outbox[d].req, addrs |-> <<>>]
      BY <2>1 DEF AnswersInv, Shape
    <3>2. \A v \in Worker : v # w => work'[v] = work[v]
      BY <2>1 DEF AnswersInv, Shape
    <3> QED BY <3>1, <3>2
  <2>4. work'[w].req.op \notin BackendOps
    BY <2>1, <2>3 DEF BackendOps
  <2>5. Waiting' = Waiting /\ \A v \in Waiting : work'[v] = work[v]
    BY <2>1, <2>3, <2>4 DEF Waiting, Working
  <2>6. Waiting # {} => up' /\ sock'
    BY <2>1 DEF BackendInv
  <2> QED BY <2>1, <2>2, <2>5, <2>6, BackendKept
<1>11. ASSUME NEW w \in Worker, Tell(w) PROVE BackendInv'
  <2>1. /\ Fine /\ saving[w].at = "saved" /\ work' = [work EXCEPT ![w] = Idle] /\ UNCHANGED <<reply, up, sock, keys>>
    BY <1>11 DEF Tell, Done
  <2>2. work'[w].id = 0 /\ \A v \in Worker : v # w => work'[v] = work[v]
    BY <2>1 DEF Idle, AnswersInv, Shape
  <2>3. w \notin Waiting
    BY <2>1 DEF SavingInv, Outside, Waiting
  <2>4. Waiting' = Waiting /\ \A v \in Waiting : work'[v] = work[v]
    BY <2>2, <2>3 DEF Waiting, Working
  <2>5. Waiting # {} => up' /\ sock'
    BY <2>1 DEF BackendInv
  <2> QED BY <2>1, <2>4, <2>5, BackendKept
<1>12. CASE Block \/ (\E k \in Key : LocalNew(k)) \/ \E w \in Worker : SaveBegins(w) \/ SaveEnds(w)
  <2>1. UNCHANGED <<work, reply, up, sock, keys>> /\ Fine
    BY <1>12 DEF Block, LocalNew, SaveBegins, SaveEnds, mem, chain
  <2> QED BY <1>1, <2>1
<1>13. CASE UNCHANGED vars
  <2>1. UNCHANGED <<work, reply, up, sock, keys, flaws>>
    BY <1>13 DEF vars, mem, chain
  <2> QED BY <1>1, <2>1 DEF Fine
<1> QED BY <1>2, <1>3, <1>4, <1>5, <1>6, <1>7, <1>8, <1>9, <1>10, <1>11, <1>12, <1>13 DEF Next

-----------------------------------------------------------------------------
(***************************************************************************)
(* Payments that are made and refused, and the chain.                      *)
(***************************************************************************)

\* What was made and refused, with what was asked and shown.
PaymentsInv ==
    /\ \A p \in sent : Paid(p.tx, p.req, p.shown)
    /\ \A p \in refused : TurnedDown(p.req, p.shown)

\* A transaction that waits for signatures.
LEMMA UnsignedIs ==
    ASSUME NEW t \in Unsigned
    PROVE  IsTx(t)
<1> DEFINE I == [addr : Key, amount : Nat, sig : {NoSig}]
           O == [addr : Rcpt, amount : Nat]
<1>1. t = [inputs |-> t.inputs, outputs |-> t.outputs, ts |-> t.ts] /\ t.inputs \in Seq(I) /\ t.outputs \in Seq(O)
  BY DEF Unsigned
<1>2. ASSUME NEW S, NEW s \in Seq(S), \A x \in S : x.amount \in Nat PROVE IsItems(s)
  <2>1. Len(s) \in Nat /\ DOMAIN s = 1..Len(s) /\ \A i \in DOMAIN s : s[i] \in S
    BY <1>2
  <2>2. IsFiniteSet(1..Len(s))
    BY <2>1, FS_Interval
  <2>3. \A i \in DOMAIN s : s[i].amount \in Int
    BY <1>2, <2>1
  <2> QED BY <2>1, <2>2, <2>3 DEF IsItems
<1>3. (\A x \in I : x.amount \in Nat) /\ (\A x \in O : x.amount \in Nat)
  OBVIOUS
<1>4. \A x \in I : x = [addr |-> x.addr, amount |-> x.amount, sig |-> x.sig]
  OBVIOUS
<1> HIDE DEF I, O
<1>5. \A i \in DOMAIN t.inputs : t.inputs[i] \in I
  BY <1>1
<1>6. IsItems(t.inputs) /\ IsItems(t.outputs)
  BY <1>1, <1>2, <1>3
<1> QED BY <1>1, <1>4, <1>5, <1>6 DEF IsTx

\* tx_sign changes nothing but signatures.
LEMMA SignedIs ==
    ASSUME NEW boxes, NEW t, NEW codes, IsTx(t)
    PROVE  LET r == SignTx(boxes, t, codes) IN r.err = "" => IsTx(r.tx)
<1> DEFINE r == SignTx(boxes, t, codes)
           in == [i \in DOMAIN t.inputs |->
                    IF Unlock(t, i) THEN t.inputs[i]
                    ELSE [t.inputs[i] EXCEPT !.sig = LockingInput(GetHash(t, i, codes), codes, t.inputs[i].addr)]]
           s == [t EXCEPT !.inputs = in]
<1> SUFFICES ASSUME r.err = "" PROVE IsTx(r.tx)
  OBVIOUS
<1>1. r.tx = s
  <2>1. r = Refuse("Address not found") \/ r = Accept(s)
    BY DEF SignTx
  <2>2. Refuse("Address not found").err # "" /\ Accept(s).tx = s
    BY DEF Refuse, Accept
  <2> QED BY <2>1, <2>2
<1>2. /\ t = [inputs |-> t.inputs, outputs |-> t.outputs, ts |-> t.ts]
      /\ IsFiniteSet(DOMAIN t.inputs) /\ IsItems(t.outputs)
      /\ \A i \in DOMAIN t.inputs :
           /\ t.inputs[i].amount \in Int
           /\ t.inputs[i] = [addr |-> t.inputs[i].addr, amount |-> t.inputs[i].amount, sig |-> t.inputs[i].sig]
  BY DEF IsTx, IsItems
<1>3. ASSUME NEW i \in DOMAIN t.inputs
      PROVE  in[i].amount \in Int /\ in[i] = [addr |-> in[i].addr, amount |-> in[i].amount, sig |-> in[i].sig]
  <2> DEFINE g == LockingInput(GetHash(t, i, codes), codes, t.inputs[i].addr)
  <2>1. in[i] = IF Unlock(t, i) THEN t.inputs[i] ELSE [t.inputs[i] EXCEPT !.sig = g]
    OBVIOUS
  <2>2. /\ t.inputs[i] = [addr |-> t.inputs[i].addr, amount |-> t.inputs[i].amount, sig |-> t.inputs[i].sig]
        /\ t.inputs[i].amount \in Int
    BY <1>2
  <2> HIDE DEF in, g
  <2>3. CASE Unlock(t, i)
    BY <2>1, <2>2, <2>3
  <2>4. CASE ~Unlock(t, i)
    <3>1. in[i] = [t.inputs[i] EXCEPT !.sig = g]
      BY <2>1, <2>4
    <3>2. in[i] = [addr |-> t.inputs[i].addr, amount |-> t.inputs[i].amount, sig |-> g]
      BY <2>2, <3>1
    <3> DEFINE y == in[i]
               a == t.inputs[i].addr
               m == t.inputs[i].amount
    <3>3. y = [addr |-> a, amount |-> m, sig |-> g] /\ m \in Int
      BY <2>2, <3>2
    <3> HIDE DEF y, a, m
    <3>4. y.addr = a /\ y.amount = m /\ y.sig = g
      BY <3>3
    <3>5. y = [addr |-> y.addr, amount |-> y.amount, sig |-> y.sig]
      BY <3>3, <3>4
    <3> QED BY <3>3, <3>4, <3>5 DEF y
  <2> QED BY <2>3, <2>4
<1>4. DOMAIN in = DOMAIN t.inputs
  OBVIOUS
<1>5. s = [t EXCEPT !.inputs = in]
  OBVIOUS
<1> HIDE DEF in, s, r
<1>6. s = [inputs |-> in, outputs |-> t.outputs, ts |-> t.ts]
  BY <1>2, <1>5
<1>7. s.inputs = in /\ s.outputs = t.outputs /\ s.ts = t.ts
  BY <1>6
<1>8. IsItems(s.inputs)
  BY <1>2, <1>3, <1>4, <1>7 DEF IsItems
<1> QED BY <1>1, <1>2, <1>3, <1>4, <1>6, <1>7, <1>8 DEF IsTx

LEMMA MovedIs ==
    ASSUME NEW items, IsItems(items), NEW k
    PROVE  Moved(items, k) \in Int
<1> DEFINE f == [i \in DOMAIN items |-> IF items[i].addr = k THEN items[i].amount ELSE 0]
<1>1. DOMAIN f = DOMAIN items /\ \A i \in DOMAIN f : f[i] \in Int
  BY DEF IsItems
<1>2. Moved(items, k) = SumFunctionOnSet(f, DOMAIN f)
  BY DEF Moved, Sum, SumFunction
<1>3. IsFiniteSet(DOMAIN f)
  BY <1>1 DEF IsItems
<1> HIDE DEF f
<1> QED BY <1>1, <1>2, <1>3, SumType

\* What the wallet makes of a payment that it was asked, when the backend has
\* answered.
LEMMA PayIs ==
    ASSUME TablesInv, BackendInv, NEW w \in Worker, Pay(w)
    PROVE  LET t == MakeTx(Boxes(w), work[w].req, work[w].id)
           IN  /\ t.err = "" => IsTx(t.tx) /\ Paid(t.tx, work[w].req, Shown(w))
               /\ t.err # "" => TurnedDown(work[w].req, Shown(w))
<1>1. Fine /\ w \in Waiting /\ reply # None /\ work[w].req.op = "tx_make"
  BY DEF Pay, Answered
<1>2. Refreshing(w) /\ work[w].req \in MakeInput
  BY <1>1 DEF Refreshing, BackendInv, IsAsked
<1>3. /\ IsBoxes(Boxes(w)) /\ DOMAIN Boxes(w) = Funded(Shown(w))
      /\ \A a \in DOMAIN Boxes(w) : Shown(w)[a] = Boxes(w)[a] /\ a \in keys
  BY <1>1, <1>2, BoxesAre
<1> QED BY <1>2, <1>3, MadeTx

LEMMA PaymentsStep ==
    ASSUME TablesInv, BackendInv, PaymentsInv, [Next]_vars
    PROVE  PaymentsInv'
<1>1. ASSUME UNCHANGED <<sent, refused>> PROVE PaymentsInv'
  BY <1>1 DEF PaymentsInv
<1>2. ASSUME NEW w \in Worker, Pay(w) PROVE PaymentsInv'
  <2> DEFINE t == MakeTx(Boxes(w), work[w].req, work[w].id)
             seen == [tx |-> t.tx, req |-> work[w].req, shown |-> Shown(w)]
  <2>1. /\ sent' = IF t.err = "" THEN sent \cup {seen} ELSE sent
        /\ refused' = IF t.err # "" THEN refused \cup {seen} ELSE refused
    BY <1>2 DEF Pay, Shown
  <2>2. /\ t.err = "" => Paid(t.tx, work[w].req, Shown(w))
        /\ t.err # "" => TurnedDown(work[w].req, Shown(w))
    BY <1>2, PayIs
  <2>3. seen.tx = t.tx /\ seen.req = work[w].req /\ seen.shown = Shown(w)
    OBVIOUS
  <2> HIDE DEF t, seen
  <2>4. /\ \A p \in sent' : Paid(p.tx, p.req, p.shown)
        /\ \A p \in refused' : TurnedDown(p.req, p.shown)
    BY <2>1, <2>2, <2>3 DEF PaymentsInv
  <2> QED BY <2>4 DEF PaymentsInv
<1>3. ASSUME NEW d \in Device, \/ \E req : Ask(d, req)
                              \/ Receive(d) \/ Fail(d) \/ Verify(d) \/ Challenge(d) \/ Reject(d)
      PROVE  PaymentsInv'
  <2>1. UNCHANGED <<sent, refused>>
    BY <1>3 DEF Ask, Receive, Fail, Verify, Challenge, Reject, past
  <2> QED BY <1>1, <2>1
<1>4. ASSUME NEW w \in Worker, NEW d \in Device,
             \/ ServeReading(w, d) \/ ServeKeys(w, d) \/ ServePairing(w, d)
             \/ ServeSend(w, d) \/ Unreachable(w, d) \/ Query(w, d)
      PROVE  PaymentsInv'
  <2>1. UNCHANGED <<sent, refused>>
    BY <1>4 DEF ServeReading, ServeKeys, ServePairing, ServeSend, Unreachable, Query, past
  <2> QED BY <1>1, <2>1
<1>5. ASSUME NEW w \in Worker, \/ Ping(w) \/ Balance(w) \/ SignDraft(w) \/ GiveUp(w) \/ CashQuery(w)
                               \/ SaveBegins(w) \/ SaveEnds(w) \/ Tell(w)
      PROVE  PaymentsInv'
  <2>1. UNCHANGED <<sent, refused>>
    BY <1>5 DEF Ping, Balance, SignDraft, GiveUp, CashQuery, SaveBegins, SaveEnds, Tell, past
  <2> QED BY <1>1, <2>1
<1>6. CASE Block \/ (\E k \in Key : LocalNew(k)) \/ Start \/ Kill \/ UNCHANGED vars
  <2>1. UNCHANGED <<sent, refused>>
    BY <1>6 DEF Block, LocalNew, Start, Kill, vars, past
  <2> QED BY <1>1, <2>1
<1> QED BY <1>2, <1>3, <1>4, <1>5, <1>6 DEF Next

LEMMA ChainStep ==
    ASSUME TablesInv, WireInv, BackendInv, ChainInv, [Next]_vars
    PROVE  ChainInv'
<1>1. ASSUME ledger' \in [Key -> Int], \A t \in mempool' \cup made' : IsTx(t) PROVE ChainInv'
  BY <1>1 DEF ChainInv
<1>2. ASSUME UNCHANGED <<ledger, mempool, made>> PROVE ChainInv'
  BY <1>2 DEF ChainInv
<1>3. \A t : IsTx(t) => \A u \in Send(t) : IsTx(u)
  BY DEF Send, ChainInv
<1>4. ASSUME NEW w \in Worker, NEW d \in Device, ServeSend(w, d) PROVE ChainInv'
  <2>1. mempool' \in {Send(outbox[d].req.tx), mempool} /\ UNCHANGED <<ledger, made>> /\ outbox[d] # None /\ outbox[d].req.op = "tx_send"
    BY <1>4 DEF ServeSend, Takes
  <2>2. IsTx(outbox[d].req.tx)
    BY <2>1 DEF WireInv, IsAsked
  <2> QED BY <1>1, <1>3, <2>1, <2>2 DEF ChainInv
<1>5. ASSUME NEW w \in Worker, Pay(w) PROVE ChainInv'
  <2> DEFINE t == MakeTx(Boxes(w), work[w].req, work[w].id)
  <2>1. t.err = "" => IsTx(t.tx)
    BY <1>5, PayIs
  <2>2. /\ \/ mempool' = (IF t.err = "" /\ work[w].req.send THEN Send(t.tx) ELSE mempool) /\ Keep(w, t)
           \/ UNCHANGED <<mempool, made>>
        /\ UNCHANGED ledger
    BY <1>5 DEF Pay, Answered
  <2> HIDE DEF t
  <2> QED BY <1>1, <1>3, <2>1, <2>2 DEF ChainInv, Keep
<1>6. ASSUME NEW w \in Worker, SignDraft(w) PROVE ChainInv'
  <2> DEFINE t == SignTx(Boxes(w), work[w].req.tx, work[w].req.codes)
  <2>1. Keep(w, t) /\ w \in Waiting /\ work[w].req.op = "tx_sign" /\ UNCHANGED <<ledger, mempool>>
    BY <1>6 DEF SignDraft, Answered
  <2>2. IsTx(work[w].req.tx)
    BY <2>1 DEF BackendInv, IsAsked
  <2>3. t.err = "" => IsTx(t.tx)
    BY <2>2, SignedIs
  <2> HIDE DEF t
  <2> QED BY <1>1, <2>1, <2>3 DEF ChainInv, Keep
<1>7. CASE Block
  <2>1. PICK t \in mempool :
          /\ mempool' = mempool \ {t} /\ UNCHANGED made
          /\ \/ ledger' = [k \in Key |-> ledger[k] + Moved(t.outputs, k) - Moved(t.inputs, k)]
             \/ ledger' = ledger
    BY <1>7 DEF Block
  <2>2. \A k \in Key : Moved(t.outputs, k) \in Int /\ Moved(t.inputs, k) \in Int /\ ledger[k] \in Int
    BY MovedIs DEF ChainInv, IsTx
  <2>3. \A k \in Key : ledger[k] + Moved(t.outputs, k) - Moved(t.inputs, k) \in Int
    BY <2>2
  <2>4. ledger' \in [Key -> Int]
    BY <2>1, <2>3 DEF ChainInv
  <2> QED BY <1>1, <2>1, <2>4 DEF ChainInv
<1>8. ASSUME NEW d \in Device, \/ \E req : Ask(d, req)
                              \/ Receive(d) \/ Fail(d) \/ Verify(d) \/ Challenge(d) \/ Reject(d)
      PROVE  ChainInv'
  <2>1. UNCHANGED <<ledger, mempool, made>>
    BY <1>8 DEF Ask, Receive, Fail, Verify, Challenge, Reject, chain
  <2> QED BY <1>2, <2>1
<1>9. ASSUME NEW w \in Worker, NEW d \in Device,
             ServeReading(w, d) \/ ServeKeys(w, d) \/ ServePairing(w, d) \/ Unreachable(w, d) \/ Query(w, d)
      PROVE  ChainInv'
  <2>1. UNCHANGED <<ledger, mempool, made>>
    BY <1>9 DEF ServeReading, ServeKeys, ServePairing, Unreachable, Query, chain
  <2> QED BY <1>2, <2>1
<1>10. ASSUME NEW w \in Worker, \/ Ping(w) \/ Balance(w) \/ GiveUp(w) \/ CashQuery(w)
                                \/ SaveBegins(w) \/ SaveEnds(w) \/ Tell(w)
      PROVE  ChainInv'
  <2>1. UNCHANGED <<ledger, mempool, made>>
    BY <1>10 DEF Ping, Balance, GiveUp, CashQuery, Answered, SaveBegins, SaveEnds, Tell, chain
  <2> QED BY <1>2, <2>1
<1>11. CASE (\E k \in Key : LocalNew(k)) \/ Start \/ Kill \/ UNCHANGED vars
  <2>1. UNCHANGED <<ledger, mempool, made>>
    BY <1>11 DEF LocalNew, Start, Kill, vars, chain
  <2> QED BY <1>2, <2>1
<1> QED BY <1>4, <1>5, <1>6, <1>7, <1>8, <1>9, <1>10, <1>11 DEF Next

\* The inductive invariant.
IInv ==
    /\ AnswersInv /\ AnswersTheRequest /\ SavingInv /\ ToldKeysInFile
    /\ TablesInv /\ RosterInv /\ WireInv /\ BackendInv /\ ChainInv /\ PaymentsInv

LEMMA InitInv == Init => IInv
<1> SUFFICES ASSUME Init PROVE IInv
  OBVIOUS
<1>1. AnswersInv /\ AnswersTheRequest
  BY InitAnswers
<1>2. SavingInv /\ ToldKeysInFile
  <2>1. saving = [w \in Worker |-> Outside] /\ told = {} /\ up = FALSE
    BY DEF Init, WalletInit
  <2>2. Writing = {} /\ \A w \in Worker : saving[w].at # "asked"
    BY <2>1 DEF Writing, Outside
  <2> QED BY <2>1, <2>2 DEF SavingInv, ToldKeysInFile
<1>3. Working = {} /\ Waiting = {}
  BY DEF Init, EndpointInit, Idle, Working, Waiting
<1>4. TablesInv
  <2>1. /\ up = FALSE /\ keys = {} /\ data = <<>> /\ devices = NoDevices
        /\ file = IF dfile = <<>> THEN {} ELSE {GovKey}
    BY DEF Init, WalletInit, PairingInit
  <2>2. DOMAIN devices = {} /\ DOMAIN data = {}
    BY <2>1 DEF NoDevices
  <2>3. GovKey \in Key /\ IsFiniteSet({GovKey}) /\ IsFiniteSet({})
    BY WalletAssumption, FS_EmptySet, FS_Singleton
  <2> QED BY <2>1, <2>2, <2>3 DEF TablesInv
<1>5. RosterInv
  BY PairedAre DEF Init, PairingInit, RosterInv
<1>6. WireInv
  BY <1>3 DEF Init, RpcInit, WireInv
<1>7. BackendInv
  BY <1>3 DEF Init, EndpointInit, BackendInv
<1>8. ChainInv
  <2>1. ledger = Purse /\ mempool = {} /\ made = Draft
    BY DEF Init
  <2>2. Purse \in [Key -> Int] /\ Draft \subseteq Unsigned
    BY WalletAssumption
  <2> QED BY <2>1, <2>2, UnsignedIs DEF ChainInv
<1>9. PaymentsInv
  BY DEF Init, PaymentsInv
<1> QED BY <1>1, <1>2, <1>4, <1>5, <1>6, <1>7, <1>8, <1>9 DEF IInv

LEMMA InvStep == IInv /\ [Next]_vars => IInv'
<1> SUFFICES ASSUME IInv, [Next]_vars PROVE IInv'
  OBVIOUS
<1> USE DEF IInv
<1>1. AnswersInv' /\ AnswersTheRequest'
  BY AnswersStep
<1>2. SavingInv' /\ ToldKeysInFile'
  <2>1. \A d \in Device : outbox[d] # None => outbox[d].id # 0
    BY DEF WireInv, AnswersInv, Shape
  <2> QED BY <2>1, SavingStep, ToldStep
<1>3. TablesInv'
  BY TablesStep
<1>4. RosterInv'
  BY RosterStep
<1>5. WireInv'
  BY WireStep
<1>6. BackendInv'
  BY BackendStep
<1>7. ChainInv'
  BY ChainStep
<1>8. PaymentsInv'
  BY PaymentsStep
<1> QED BY <1>1, <1>2, <1>3, <1>4, <1>5, <1>6, <1>7, <1>8

LEMMA InvAlways == Spec => []IInv
BY InitInv, InvStep, PTL DEF Spec

-----------------------------------------------------------------------------
(***************************************************************************)
(* The theorems.                                                           *)
(***************************************************************************)

\* For any devices and workers and any number of requests, restarts of the
\* daemon, timeouts and lost connections: on its first connection an object
\* never takes the answer to an earlier request for that to the one it waits
\* for (rpc_api::ask, client::send_recv, client::disconnect).
THEOREM AnswersMatch == Spec => []AnswersTheRequest
<1>1. IInv => AnswersTheRequest
  BY DEF IInv
<1> QED BY <1>1, InvAlways, PTL

\* For any keys, devices and workers in wallet::save at once, and any number of
\* restarts, until a save is cut off or forgets the key of another process or of
\* another worker, or a name does not survive the file: an address that somebody
\* was told has its key in the file when nobody saves and in memory when somebody
\* does, and a daemon that runs recognises the devices that were paired and no
\* others (wallet::save, devices_t::save_, load_).
THEOREM KeptAfterRestarts == Spec => []KeptAcrossRestarts
<1>1. IInv => KeptAcrossRestarts
  <2> SUFFICES ASSUME IInv, Fine
               PROVE  /\ Saving = {} => told \subseteq file
                      /\ told \subseteq file \cup keys
                      /\ up => devices = roster
    BY DEF KeptAcrossRestarts
  <2>1. Saving = {} => told \subseteq file
    BY SettledFile DEF IInv
  <2>2. told \subseteq file \cup keys
    BY DEF IInv, ToldKeysInFile
  <2>3. up => devices = roster
    BY DEF IInv, RosterInv
  <2> QED BY <2>1, <2>2, <2>3
<1> QED BY <1>1, InvAlways, PTL

\* For any accounts, amounts and signature codes: a payment spends what was
\* asked and the fee, from accounts of the wallet that hold as much, each
\* once, and every input unlocks its account unless its signature covers
\* "this" and it is not the first (select_sources, tx_make_p2pkh).
THEOREM PaymentsAsAsked == Spec => []SpendsAsAsked
<1>1. IInv => TypeOK
  <2> SUFFICES ASSUME IInv PROVE TypeOK
    OBVIOUS
  <2>1. \A d \in Device : (inbox[d] # <<>> \/ outbox[d] # None) => conn[d]
    BY DEF IInv, WireInv
  <2>2. \A d \in Device : outbox[d] # None => outbox[d].id \in 1..n.ask
    BY DEF IInv, WireInv
  <2>3. \A w \in Waiting : up /\ sock
    BY DEF IInv, BackendInv
  <2> QED BY <2>1, <2>2, <2>3 DEF IInv, TablesInv, TypeOK
<1>2. IInv => SpendsAsAsked
  BY <1>1 DEF IInv, PaymentsInv, Paid, SpendsAsAsked
<1> QED BY <1>2, InvAlways, PTL

\* For any accounts and amounts: a payment that the accounts cover is refused
\* only when the smallest of them add up to it exactly and there is one more
\* (select_sources, tx_make_p2pkh).
THEOREM RefusalsHaveReasons == Spec => []RefusedForAReason
<1>1. IInv => RefusedForAReason
  BY DEF IInv, PaymentsInv, TurnedDown, Funded, RefusedForAReason
<1> QED BY <1>1, InvAlways, PTL
=============================================================================
