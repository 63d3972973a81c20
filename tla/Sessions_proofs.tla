--------------------------- MODULE Sessions_proofs ---------------------------
(***************************************************************************)
(* Proofs about Handshake, for any set of nodes and connections and any    *)
(* interleaving of the workers: types, VerifiedIsPeer and                  *)
(* OneConnectionPerPeer; and about Sdk, for any base of the bytes, any     *)
(* size and any number of asks: WholeDatagrams and AnswersItsAsk.          *)
(*                                                                         *)
(* Sdk's invariant names what is on the way: u and v, the datagrams sent   *)
(* and not received yet, up and down.  Flow says that the bytes an end has *)
(* put together and those under way are these datagrams, whatever the      *)
(* reads have been; DialogueOf, that there is only what the ask under way  *)
(* needs.                                                                  *)
(***************************************************************************)
EXTENDS Handshake, Sdk, FiniteSetTheorems, SequenceTheorems, WellFoundedInduction, TLAPS

\* A worker is on open ends only, and an open end is in active_: what
\* is_duplicate relies on to see the connection it is called for.
StepIsOpen == \A e \in End : (step[e] # "free" => open[e]) /\ (open[e] => active[e])

\* The dialogue has one datagram on its way at a time.  Who has to answer it has
\* not judged yet, nor has who will be judged by the answer to that answer; a
\* key in it is its sender's, and its signature is good only if the sender can
\* sign.
DialogueOK ==
  \A e \in End : net[e] # <<>> =>
    /\ net[e] = <<net[e][1]>> /\ net[Other(e)] = <<>>
    /\ stage_peer[e] = "anonymous"
    /\ net[e][1].service # "challenge_response" => stage_peer[Other(e)] = "anonymous"
    /\ net[e][1].service # "request" =>
         /\ net[e][1].pub = Owner(Other(e))
         /\ net[e][1].sig.good => Owner(Other(e)) \notin Broken

\* A connection that was never made has left no trace.
UnmadeOK ==
  \A c \in Conn : ~Made(c) =>
    \A e \in {<<c, "dialler">>, <<c, "dialled">>} :
      stage_peer[e] = "anonymous" /\ step[e] = "free" /\ net[e] = <<>>

\* Only a verified end is authorized.
AuthorizedOK == \A e \in End : auth[e] = "authorized" => stage_peer[e] = "verified"

\* OneConnectionPerPeer for the connections a node still lists as active,
\* closed or not, as is_duplicate counts them.
OneActive ==
  \A e, f \in End :
    /\ Owner(e) = Owner(f) /\ pubkey[e] = pubkey[f] /\ pubkey[e] # Owner(e)
    /\ active[e] /\ active[f]
    /\ auth[e] = "authorized" /\ auth[f] = "authorized"
    => e = f

IInv == /\ TypeOK /\ StepIsOpen /\ DialogueOK /\ UnmadeOK
        /\ AuthorizedOK /\ VerifiedIsPeer /\ OneActive


\* The two ends of a connection.
LEMMA Ends ==
    ASSUME NEW e \in End
    PROVE  /\ Other(e) \in End /\ Other(Other(e)) = e /\ Other(e) # e
           /\ Owner(e) \in Node
           /\ e[1] \in Conn /\ e \in {<<e[1], "dialler">>, <<e[1], "dialled">>}
<1>1. PICK c \in Conn, k \in {"dialler", "dialled"} : e = <<c, k>>
  BY DEF End
<1> QED BY <1>1, HandshakeAssumption DEF End, Other, Owner

\* Datagrams that are sent one at a time.
LEMMA OneDatagram ==
    ASSUME NEW S, NEW m \in S
    PROVE  /\ Append(<<>>, m) = <<m>> /\ <<m>> \in Seq(S) /\ <<m>> # <<>>
           /\ <<m>>[1] = m /\ Head(<<m>>) = m /\ Tail(<<m>>) = <<>>
           /\ <<>> \in Seq(S)
  OBVIOUS

\* Every datagram has what its kind says.
LEMMA Fields ==
    ASSUME NEW d \in Datagram
    PROVE  /\ d.service \in {"request", "peer_challenge"} => d.msg \in End
           /\ d.service # "request" => d.pub \in Node /\ d.sig \in Signature
  BY DEF Datagram

\* What an end receives: one datagram of the kind it expects, of an end that
\* has not judged; nothing else is on its way.
LEMMA Received ==
    ASSUME TypeOK, DialogueOK, NEW e \in End,
           NEW s \in {"request", "peer_challenge", "challenge_response"}, Receives(e, s)
    PROVE  /\ Head(net[e]) = net[e][1] /\ net[e][1] \in Datagram
           /\ net[e][1].service = s
           /\ Tail(net[e]) = <<>> /\ net[Other(e)] = <<>>
           /\ stage_peer[e] = "anonymous" /\ open[e] /\ step[e] = "free"
           /\ s # "challenge_response" =>
                stage_peer[Other(e)] = "anonymous" /\ net[e][1].msg \in End
           /\ s # "request" =>
                /\ net[e][1].pub \in Node /\ net[e][1].sig \in Signature
                /\ net[e][1].pub = Owner(Other(e))
                /\ net[e][1].sig.good => Owner(Other(e)) \notin Broken
<1>1. net[e] \in Seq(Datagram) /\ net[e] # <<>> /\ Head(net[e]).service = s /\ open[e] /\ step[e] = "free"
  BY DEF Receives, TypeOK
<1>2. Head(net[e]) = net[e][1] /\ net[e][1] \in Datagram
  BY <1>1
<1>3. net[e] = <<net[e][1]>>
  BY <1>1 DEF DialogueOK
<1>4. Tail(net[e]) = <<>>
  BY <1>2, <1>3, OneDatagram
<1>5. net[e][1].service = s
  BY <1>1, <1>2
<1>6. /\ s # "challenge_response" => net[e][1].msg \in End
      /\ s # "request" => net[e][1].pub \in Node /\ net[e][1].sig \in Signature
  BY <1>2, <1>5, Fields
<1> QED BY <1>1, <1>2, <1>4, <1>5, <1>6 DEF DialogueOK

\* The datagrams of the dialogue are of their types.
LEMMA Sent ==
    ASSUME NEW e \in End, NEW m \in End
    PROVE  /\ Sign(e, m) \in Signature /\ Sign(e, m).good = (Owner(e) \notin Broken)
           /\ [service |-> "request", msg |-> m] \in Datagram
           /\ [service |-> "peer_challenge", pub |-> Owner(e), sig |-> Sign(e, m), msg |-> e] \in Datagram
           /\ [service |-> "challenge_response", pub |-> Owner(e), sig |-> Sign(e, m)] \in Datagram
<1>1. Sign(e, m) \in Signature /\ Sign(e, m).good = (Owner(e) \notin Broken)
  BY Ends DEF Sign, Signature
<1>2. Owner(e) \in Node
  BY Ends
<1> QED BY <1>1, <1>2 DEF Datagram

\* Every step keeps the types.
LEMMA TypeStep ==
    ASSUME TypeOK, DialogueOK, [Next]_vars
    PROVE  TypeOK'
<1>1. ASSUME NEW c \in Conn, Connect(c) PROVE TypeOK'
  <2> DEFINE e == <<c, "dialler">>
  <2>1. e \in End /\ Other(e) \in End
    BY Ends DEF End
  <2>2. <<[service |-> "request", msg |-> e]>> \in Seq(Datagram)
    BY <2>1, Sent, OneDatagram
  <2> HIDE DEF e
  <2> QED BY <1>1, <2>1, <2>2 DEF TypeOK, Connect, e
<1>2. ASSUME NEW e \in End, process_request(e) PROVE TypeOK'
  <2>1. Receives(e, "request")
    BY <1>2 DEF process_request
  <2>2. net[e][1].msg \in End /\ net[Other(e)] = <<>> /\ Head(net[e]) = net[e][1] /\ Tail(net[e]) = <<>>
    BY <2>1, Received
  <2> DEFINE d == [service |-> "peer_challenge", pub |-> Owner(e), sig |-> Sign(e, net[e][1].msg), msg |-> e]
  <2>3. d \in Datagram
    BY <2>2, Sent
  <2>6. Append(<<>>, d) \in Seq(Datagram) /\ <<>> \in Seq(Datagram)
    BY <2>3, OneDatagram
  <2>4. net' = [net EXCEPT ![e] = <<>>, ![Other(e)] = Append(<<>>, d)]
    BY <1>2, <2>2, Ends DEF process_request
  <2> HIDE DEF d
  <2>5. net' \in [End -> Seq(Datagram)]
    BY <2>4, <2>6, Ends DEF TypeOK
  <2> QED BY <1>2, <2>5 DEF TypeOK, process_request
<1>3. ASSUME NEW e \in End, NEW s \in {"peer_challenge", "challenge_response"}, Receives(e, s), Judge(e, Head(net[e]))
      PROVE  /\ msg' \in [End -> End \cup {None}]
             /\ stage_peer' \in [End -> {"anonymous", "verified", "verified_fail"}]
             /\ pubkey' \in [End -> Node \cup {None}]
             /\ step' \in [End -> {"free", "authorize", "decide"}]
  <2>1. Head(net[e]).pub \in Node
    BY <1>3, Received
  <2> QED BY <1>3, <2>1, HandshakeAssumption DEF TypeOK, Judge
<1>4. ASSUME NEW e \in End, process_peer_challenge(e) PROVE TypeOK'
  <2>1. Receives(e, "peer_challenge") /\ Judge(e, Head(net[e]))
    BY <1>4 DEF process_peer_challenge
  <2>2. net[e][1].msg \in End /\ net[Other(e)] = <<>> /\ Head(net[e]) = net[e][1] /\ Tail(net[e]) = <<>>
    BY <2>1, Received
  <2> DEFINE d == [service |-> "challenge_response", pub |-> Owner(e), sig |-> Sign(e, net[e][1].msg)]
  <2>3. d \in Datagram
    BY <2>2, Sent
  <2>6. Append(<<>>, d) \in Seq(Datagram) /\ <<>> \in Seq(Datagram)
    BY <2>3, OneDatagram
  <2>4. net' = [net EXCEPT ![e] = <<>>, ![Other(e)] = Append(<<>>, d)]
    BY <1>4, <2>2, Ends DEF process_peer_challenge
  <2> HIDE DEF d
  <2>5. net' \in [End -> Seq(Datagram)]
    BY <2>4, <2>6, Ends DEF TypeOK
  <2> QED BY <1>3, <1>4, <2>1, <2>5 DEF TypeOK, process_peer_challenge
<1>5. ASSUME NEW e \in End, process_challenge_response(e) PROVE TypeOK'
  <2>1. Receives(e, "challenge_response") /\ Judge(e, Head(net[e]))
    BY <1>5 DEF process_challenge_response
  <2>2. Tail(net[e]) = <<>>
    BY <2>1, Received
  <2>3. net' = [net EXCEPT ![e] = <<>>] /\ UNCHANGED <<open, active, auth, stage, leaving>>
    BY <1>5, <2>2 DEF process_challenge_response
  <2>4. <<>> \in Seq(Datagram)
    OBVIOUS
  <2>5. net' \in [End -> Seq(Datagram)]
    BY <2>3, <2>4 DEF TypeOK
  <2>6. /\ msg' \in [End -> End \cup {None}]
        /\ stage_peer' \in [End -> {"anonymous", "verified", "verified_fail"}]
        /\ pubkey' \in [End -> Node \cup {None}]
        /\ step' \in [End -> {"free", "authorize", "decide"}]
    BY <1>3, <2>1
  <2> QED BY <2>3, <2>5, <2>6 DEF TypeOK
<1>6. ASSUME NEW e \in End, Authorize(e) PROVE TypeOK'
  BY <1>6 DEF TypeOK, Authorize
<1>7. ASSUME NEW e \in End, Decide(e) PROVE TypeOK'
  BY <1>7 DEF TypeOK, Decide
<1>8. ASSUME NEW e \in End, RecvFails(e) \/ Close(e) \/ Scan(e) PROVE TypeOK'
  <2>1. <<>> \in Seq(Datagram)
    OBVIOUS
  <2> QED BY <1>8, <2>1, ZenonT(60) DEF TypeOK, RecvFails, Close, Scan
<1>9. CASE UNCHANGED vars
  BY <1>9 DEF TypeOK, vars
<1> QED BY <1>1, <1>2, <1>4, <1>5, <1>6, <1>7, <1>8, <1>9 DEF Next, EndStep

\* A worker is only on ends of connections that were made, so that what it
\* writes is none of the others' state.
LEMMA OnMade ==
    ASSUME UnmadeOK, NEW e \in End, net[e] # <<>> \/ step[e] # "free",
           NEW b \in Conn, ~Made(b), NEW f \in {<<b, "dialler">>, <<b, "dialled">>}
    PROVE  f \in End /\ f # e /\ f # Other(e)
<1>1. Made(e[1])
  BY Ends DEF UnmadeOK
<1>2. e[1] # b /\ Other(e)[1] = e[1]
  BY <1>1 DEF Other
<1> QED BY <1>2 DEF End

\* An end takes the one datagram there is and the other is sent an answer.
LEMMA Answered ==
    ASSUME TypeOK, DialogueOK, NEW e \in End, NEW m \in Datagram,
           net[e] # <<>>, net[Other(e)] = <<>>,
           net' = [net EXCEPT ![e] = <<>>, ![Other(e)] = <<m>>],
           \A f \in End : f # e => stage_peer'[f] = stage_peer[f],
           stage_peer[Other(e)] = "anonymous",
           m.service # "challenge_response" => stage_peer'[e] = "anonymous",
           m.service # "request" => m.pub = Owner(e) /\ (m.sig.good => Owner(e) \notin Broken)
    PROVE  DialogueOK'
<1> DEFINE o == Other(e)
<1>1. o \in End /\ Other(o) = e /\ o # e
  BY Ends
<1>2. net'[e] = <<>> /\ net'[o] = <<m>> /\ \A f \in End : f # e /\ f # o => net'[f] = net[f]
  BY <1>1 DEF TypeOK
<1>3. <<m>> # <<>> /\ <<m>>[1] = m
  BY OneDatagram
<1> HIDE DEF o
<1> SUFFICES ASSUME NEW f \in End, net'[f] # <<>>
             PROVE  /\ net'[f] = <<net'[f][1]>> /\ net'[Other(f)] = <<>>
                    /\ stage_peer'[f] = "anonymous"
                    /\ net'[f][1].service # "challenge_response" => stage_peer'[Other(f)] = "anonymous"
                    /\ net'[f][1].service # "request" =>
                         /\ net'[f][1].pub = Owner(Other(f))
                         /\ net'[f][1].sig.good => Owner(Other(f)) \notin Broken
  BY DEF DialogueOK
<1>4. CASE f = o
  <2>1. net'[f] = <<m>> /\ net'[f][1] = m /\ Other(f) = e /\ net'[Other(f)] = <<>>
    BY <1>1, <1>2, <1>3, <1>4
  <2>2. stage_peer'[f] = "anonymous"
    BY <1>1, <1>4 DEF o
  <2> QED BY <2>1, <2>2
<1>5. CASE f # o
  <2>1. f # e /\ Other(f) \in End /\ Other(f) # e /\ Other(f) # o
    BY <1>1, <1>2, <1>5, Ends DEF o
  <2>2. /\ net'[f] = net[f] /\ net'[Other(f)] = net[Other(f)]
        /\ stage_peer'[f] = stage_peer[f] /\ stage_peer'[Other(f)] = stage_peer[Other(f)]
    BY <1>2, <1>5, <2>1
  <2> QED BY <2>2 DEF DialogueOK
<1> QED BY <1>4, <1>5

\* An end whose datagrams are gone waits for nothing; what it thinks of the
\* other is nobody's concern when the other has nothing to read either.
LEMMA Emptied ==
    ASSUME TypeOK, DialogueOK, NEW e \in End,
           net' = [net EXCEPT ![e] = <<>>],
           \A f \in End : f # e => stage_peer'[f] = stage_peer[f],
           stage_peer'[e] = stage_peer[e] \/ net[Other(e)] = <<>>
    PROVE  DialogueOK'
<1> SUFFICES ASSUME NEW f \in End, net'[f] # <<>>
             PROVE  /\ net'[f] = <<net'[f][1]>> /\ net'[Other(f)] = <<>>
                    /\ stage_peer'[f] = "anonymous"
                    /\ net'[f][1].service # "challenge_response" => stage_peer'[Other(f)] = "anonymous"
                    /\ net'[f][1].service # "request" =>
                         /\ net'[f][1].pub = Owner(Other(f))
                         /\ net'[f][1].sig.good => Owner(Other(f)) \notin Broken
  BY DEF DialogueOK
<1>1. f # e /\ net'[f] = net[f] /\ Other(f) \in End /\ Other(Other(f)) = f
  BY Ends DEF TypeOK
<1>2. stage_peer'[Other(f)] = stage_peer[Other(f)]
  BY <1>1
<1>3. net'[Other(f)] \in {<<>>, net[Other(f)]}
  BY <1>1 DEF TypeOK
<1> QED BY <1>1, <1>2, <1>3 DEF DialogueOK

\* An end that judges the other, before it has authorized it: the verdict is
\* right and authorizes nobody.
LEMMA Judged ==
    ASSUME IInv, NEW e \in End, NEW s \in {"peer_challenge", "challenge_response"},
           Receives(e, s), Judge(e, Head(net[e])),
           UNCHANGED <<open, active, auth, leaving>>
    PROVE  /\ StepIsOpen' /\ AuthorizedOK' /\ VerifiedIsPeer' /\ OneActive'
           /\ \A f \in End : f # e => stage_peer'[f] = stage_peer[f] /\ step'[f] = step[f]
<1> USE DEF IInv
<1> DEFINE d == net[e][1]
<1>1. /\ Head(net[e]) = d /\ d.pub = Owner(Other(e)) /\ (d.sig.good => Owner(Other(e)) \notin Broken)
      /\ stage_peer[e] = "anonymous" /\ open[e]
  BY Received
<1> DEFINE ok == Verify(d.pub, msg[e], d.sig)
<1>2. /\ stage_peer' = [stage_peer EXCEPT ![e] = IF ok THEN "verified" ELSE "verified_fail"]
      /\ pubkey' = [pubkey EXCEPT ![e] = IF ok THEN d.pub ELSE @]
      /\ step' = [step EXCEPT ![e] = "authorize"]
  BY <1>1 DEF Judge
<1>3. ok => d.sig.good
  BY DEF Verify
<1> HIDE DEF ok, d
<1>4. auth[e] # "authorized"
  BY <1>1 DEF AuthorizedOK
<1>5. \A f \in End : f # e => stage_peer'[f] = stage_peer[f] /\ step'[f] = step[f] /\ pubkey'[f] = pubkey[f]
  BY <1>2 DEF TypeOK
<1>6. StepIsOpen'
  BY <1>1, <1>5 DEF StepIsOpen
<1>7. AuthorizedOK'
  BY <1>4, <1>5 DEF AuthorizedOK
<1>8. VerifiedIsPeer'
  <2>1. stage_peer'[e] = "verified" => pubkey'[e] = Owner(Other(e)) /\ Owner(Other(e)) \notin Broken
    BY <1>1, <1>2, <1>3 DEF TypeOK
  <2> QED BY <1>5, <2>1 DEF VerifiedIsPeer
<1>9. OneActive'
  BY <1>4, <1>5 DEF OneActive
<1> QED BY <1>5, <1>6, <1>7, <1>8, <1>9

\* Every step keeps what the theorems rest on: one step per action, and under
\* it the conjuncts it can disturb.
LEMMA InvStep ==
    ASSUME IInv, TypeOK', [Next]_vars
    PROVE  IInv'
<1> DEFINE Rest == StepIsOpen /\ DialogueOK /\ UnmadeOK /\ AuthorizedOK /\ VerifiedIsPeer /\ OneActive
<1> SUFFICES Rest'
  BY DEF IInv
<1> USE DEF IInv
<1>1. ASSUME NEW c \in Conn, Connect(c) PROVE Rest'
  <2> DEFINE d == <<c, "dialler">>
             r == <<c, "dialled">>
             m == [service |-> "request", msg |-> d]
  <2>1. d \in End /\ r \in End /\ Other(d) = r /\ Other(r) = d /\ d # r
    BY DEF End, Other
  <2>2. /\ stage_peer[d] = "anonymous" /\ step[d] = "free" /\ net[d] = <<>>
        /\ stage_peer[r] = "anonymous" /\ step[r] = "free" /\ net[r] = <<>>
    BY <1>1 DEF Connect, UnmadeOK
  <2>3. /\ open' = [open EXCEPT ![d] = TRUE, ![r] = TRUE]
        /\ active' = [active EXCEPT ![d] = TRUE, ![r] = TRUE]
        /\ net' = [net EXCEPT ![r] = <<m>>]
        /\ UNCHANGED <<stage_peer, pubkey, auth, stage, step, leaving>>
    BY <1>1, <2>1 DEF Connect
  <2>4. <<m>> # <<>> /\ <<m>>[1] = m /\ m.service = "request"
    OBVIOUS
  <2> HIDE DEF d, r, m
  <2>5. StepIsOpen'
    BY <2>1, <2>3 DEF StepIsOpen, TypeOK
  <2>6. DialogueOK'
    <3> SUFFICES ASSUME NEW e \in End, net'[e] # <<>>
                 PROVE  /\ net'[e] = <<net'[e][1]>> /\ net'[Other(e)] = <<>>
                        /\ stage_peer[e] = "anonymous"
                        /\ net'[e][1].service # "challenge_response" => stage_peer[Other(e)] = "anonymous"
                        /\ net'[e][1].service # "request" =>
                             /\ net'[e][1].pub = Owner(Other(e))
                             /\ net'[e][1].sig.good => Owner(Other(e)) \notin Broken
      BY <2>3 DEF DialogueOK
    <3>1. CASE e = r
      BY <2>1, <2>2, <2>3, <2>4, <3>1 DEF TypeOK
    <3>2. CASE e # r
      <4>1. net'[e] = net[e] /\ e # d /\ Other(e) # r
        BY <2>1, <2>2, <2>3, <3>2, Ends DEF TypeOK
      <4>2. net'[Other(e)] = net[Other(e)]
        BY <2>3, <4>1, Ends DEF TypeOK
      <4> QED BY <4>1, <4>2 DEF DialogueOK
    <3> QED BY <3>1, <3>2
  <2>7. UnmadeOK'
    <3> SUFFICES ASSUME NEW b \in Conn, ~Made(b)', NEW e \in {<<b, "dialler">>, <<b, "dialled">>}
                 PROVE  stage_peer[e] = "anonymous" /\ step[e] = "free" /\ net'[e] = <<>>
      BY <2>3 DEF UnmadeOK
    <3>1. b # c
      BY <2>1, <2>3, ZenonT(60) DEF Made, TypeOK, d
    <3>2. e # d /\ e # r /\ <<b, "dialler">> \in End /\ e \in End
      BY <3>1 DEF d, r, End
    <3>3. ~Made(b)
      BY <2>1, <2>3, <3>1 DEF Made, TypeOK, d, r, End
    <3>4. stage_peer[e] = "anonymous" /\ step[e] = "free" /\ net[e] = <<>>
      BY <3>3 DEF UnmadeOK
    <3>5. net'[e] = net[e]
      BY <2>3, <3>2 DEF TypeOK
    <3> QED BY <3>4, <3>5
  <2>8. AuthorizedOK' /\ VerifiedIsPeer'
    BY <2>3 DEF AuthorizedOK, VerifiedIsPeer
  <2>9. OneActive'
    <3>1. auth[d] # "authorized" /\ auth[r] # "authorized"
      BY <2>1, <2>2 DEF AuthorizedOK
    <3>2. \A e \in End : e # d /\ e # r => active'[e] = active[e]
      BY <2>3 DEF TypeOK
    <3> QED BY <2>3, <3>1, <3>2 DEF OneActive
  <2> QED BY <2>5, <2>6, <2>7, <2>8, <2>9
<1>2. ASSUME NEW e \in End, process_request(e) PROVE Rest'
  <2>1. Receives(e, "request") /\ UNCHANGED <<open, active, stage_peer, pubkey, auth, step, leaving>>
    BY <1>2 DEF process_request
  <2>2. /\ Head(net[e]) = net[e][1] /\ net[e][1].msg \in End /\ Tail(net[e]) = <<>>
        /\ net[Other(e)] = <<>> /\ net[e] # <<>>
        /\ stage_peer[e] = "anonymous" /\ stage_peer[Other(e)] = "anonymous"
    BY <2>1, Received DEF Receives
  <2> DEFINE m == [service |-> "peer_challenge", pub |-> Owner(e), sig |-> Sign(e, net[e][1].msg), msg |-> e]
  <2>3. m \in Datagram /\ m.pub = Owner(e) /\ (m.sig.good => Owner(e) \notin Broken) /\ m.service = "peer_challenge"
    BY <2>2, Sent
  <2>4. net' = [net EXCEPT ![e] = <<>>, ![Other(e)] = <<m>>]
    <3>1. net' = [net EXCEPT ![e] = <<>>, ![Other(e)] = Append(<<>>, m)]
      BY <1>2, <2>2, Ends DEF process_request
    <3>2. Append(<<>>, m) = <<m>>
      BY <2>3, OneDatagram
    <3> QED BY <3>1, <3>2
  <2> HIDE DEF m
  <2>5. DialogueOK'
    BY <2>1, <2>2, <2>3, <2>4, Answered
  <2>6. UnmadeOK'
    <3>1. \A b \in Conn : Made(b)' = Made(b)
      BY <2>1 DEF Made
    <3>2. \A f \in End : f # e /\ f # Other(e) => net'[f] = net[f]
      BY <2>4, Ends DEF TypeOK
    <3> QED BY <2>1, <2>2, <3>1, <3>2, OnMade DEF UnmadeOK
  <2>7. StepIsOpen' /\ AuthorizedOK' /\ VerifiedIsPeer' /\ OneActive'
    BY <2>1 DEF StepIsOpen, AuthorizedOK, VerifiedIsPeer, OneActive
  <2> QED BY <2>5, <2>6, <2>7
<1>3. ASSUME NEW e \in End, process_peer_challenge(e) PROVE Rest'
  <2>1. /\ Receives(e, "peer_challenge") /\ Judge(e, Head(net[e]))
        /\ UNCHANGED <<open, active, auth, leaving>>
    BY <1>3 DEF process_peer_challenge
  <2>2. /\ Head(net[e]) = net[e][1] /\ net[e][1].msg \in End /\ Tail(net[e]) = <<>>
        /\ net[Other(e)] = <<>> /\ net[e] # <<>>
        /\ stage_peer[Other(e)] = "anonymous"
    BY <2>1, Received DEF Receives
  <2>3. /\ StepIsOpen' /\ AuthorizedOK' /\ VerifiedIsPeer' /\ OneActive'
        /\ \A f \in End : f # e => stage_peer'[f] = stage_peer[f] /\ step'[f] = step[f]
    BY <2>1, Judged
  <2> DEFINE m == [service |-> "challenge_response", pub |-> Owner(e), sig |-> Sign(e, net[e][1].msg)]
  <2>4. m \in Datagram /\ m.pub = Owner(e) /\ (m.sig.good => Owner(e) \notin Broken) /\ m.service = "challenge_response"
    BY <2>2, Sent
  <2>5. net' = [net EXCEPT ![e] = <<>>, ![Other(e)] = <<m>>]
    <3>1. net' = [net EXCEPT ![e] = <<>>, ![Other(e)] = Append(<<>>, m)]
      BY <1>3, <2>2, Ends DEF process_peer_challenge
    <3>2. Append(<<>>, m) = <<m>>
      BY <2>4, OneDatagram
    <3> QED BY <3>1, <3>2
  <2> HIDE DEF m
  <2>6. DialogueOK'
    BY <2>2, <2>3, <2>4, <2>5, Answered
  <2>7. UnmadeOK'
    <3>1. \A b \in Conn : Made(b)' = Made(b)
      BY <2>1 DEF Made
    <3>2. \A f \in End : f # e /\ f # Other(e) => net'[f] = net[f]
      BY <2>5, Ends DEF TypeOK
    <3> QED BY <2>2, <2>3, <3>1, <3>2, OnMade DEF UnmadeOK
  <2> QED BY <2>3, <2>6, <2>7
<1>4. ASSUME NEW e \in End, process_challenge_response(e) PROVE Rest'
  <2>1. /\ Receives(e, "challenge_response") /\ Judge(e, Head(net[e]))
        /\ UNCHANGED <<open, active, auth, leaving>>
    BY <1>4 DEF process_challenge_response
  <2>2. Tail(net[e]) = <<>> /\ net[Other(e)] = <<>> /\ net[e] # <<>>
    BY <2>1, Received DEF Receives
  <2>3. /\ StepIsOpen' /\ AuthorizedOK' /\ VerifiedIsPeer' /\ OneActive'
        /\ \A f \in End : f # e => stage_peer'[f] = stage_peer[f] /\ step'[f] = step[f]
    BY <2>1, Judged
  <2>4. net' = [net EXCEPT ![e] = <<>>]
    BY <1>4, <2>2 DEF process_challenge_response
  <2>5. DialogueOK'
    BY <2>2, <2>3, <2>4, Emptied
  <2>6. UnmadeOK'
    <3>1. \A b \in Conn : Made(b)' = Made(b)
      BY <2>1 DEF Made
    <3>2. \A f \in End : f # e => net'[f] = net[f]
      BY <2>4 DEF TypeOK
    <3> QED BY <2>2, <2>3, <3>1, <3>2, OnMade DEF UnmadeOK
  <2> QED BY <2>3, <2>5, <2>6
<1>5. ASSUME NEW e \in End, Authorize(e) PROVE Rest'
  <2>1. /\ step[e] = "authorize" /\ UNCHANGED <<open, active, stage_peer, pubkey, leaving, net>>
        /\ \A f \in End : f # e => auth'[f] = auth[f] /\ step'[f] = step[f]
        /\ auth'[e] = "authorized" /\ auth[e] # "authorized" =>
              stage_peer[e] = "verified" /\ ~is_duplicate(Owner(e), pubkey[e])
    BY <1>5 DEF Authorize, TypeOK
  <2>2. active[e] /\ open[e]
    BY <2>1 DEF StepIsOpen
  <2>3. StepIsOpen' /\ AuthorizedOK' /\ VerifiedIsPeer' /\ DialogueOK'
    BY <2>1, <2>2 DEF StepIsOpen, AuthorizedOK, VerifiedIsPeer, DialogueOK
  <2>4. UnmadeOK'
    <3>1. \A b \in Conn : Made(b)' = Made(b)
      BY <2>1 DEF Made
    <3> QED BY <2>1, <3>1, OnMade DEF UnmadeOK
  <2>5. OneActive'
    <3>1. CASE auth'[e] = "authorized" /\ auth[e] # "authorized"
      <4>1. \A f \in End : f # e /\ Owner(f) = Owner(e) /\ active[f] => pubkey[f] # pubkey[e]
        BY <2>1, <2>2, <3>1 DEF is_duplicate
      <4> QED BY <2>1, <4>1 DEF OneActive
    <3>2. CASE ~(auth'[e] = "authorized" /\ auth[e] # "authorized")
      BY <2>1, <3>2 DEF OneActive
    <3> QED BY <3>1, <3>2
  <2> QED BY <2>3, <2>4, <2>5
<1>6. ASSUME NEW e \in End, Decide(e) PROVE Rest'
  <2>1. /\ step[e] = "decide" /\ UNCHANGED <<open, active, stage_peer, pubkey, net>>
        /\ \A f \in End : f # e => auth'[f] = auth[f] /\ step'[f] = step[f] /\ leaving'[f] = leaving[f]
        /\ step'[e] = "free"
        /\ auth'[e] = "authorized" /\ auth[e] # "authorized" =>
              stage_peer[e] = "verified" /\ pubkey[e] = Owner(e)
    BY <1>6 DEF Decide, TypeOK
  <2>2. active[e] /\ open[e]
    BY <2>1 DEF StepIsOpen
  <2>3. StepIsOpen' /\ AuthorizedOK' /\ VerifiedIsPeer' /\ DialogueOK'
    BY <2>1, <2>2 DEF StepIsOpen, AuthorizedOK, VerifiedIsPeer, DialogueOK
  <2>4. UnmadeOK'
    <3>1. \A b \in Conn : ~Made(b)' => ~Made(b)
      BY <2>1, <2>2 DEF Made, End
    <3> QED BY <2>1, <3>1, OnMade DEF UnmadeOK
  <2>5. OneActive'
    BY <2>1 DEF OneActive
  <2> QED BY <2>3, <2>4, <2>5
<1>7. ASSUME NEW e \in End, RecvFails(e) PROVE Rest'
  <2>1. /\ leaving' = [leaving EXCEPT ![e] = TRUE]
        /\ UNCHANGED <<open, active, stage_peer, pubkey, auth, step, net>>
    BY <1>7 DEF RecvFails
  <2>2. \A b \in Conn : ~Made(b)' => ~Made(b)
    BY <2>1 DEF Made, TypeOK, End
  <2> QED BY <2>1, <2>2 DEF StepIsOpen, AuthorizedOK, VerifiedIsPeer, DialogueOK, UnmadeOK, OneActive
<1>8. ASSUME NEW e \in End, Close(e) PROVE Rest'
  <2>1. /\ open' = [open EXCEPT ![e] = FALSE] /\ net' = [net EXCEPT ![e] = <<>>]
        /\ leaving[e] /\ step[e] = "free"
        /\ UNCHANGED <<active, stage_peer, pubkey, auth, step, leaving>>
    BY <1>8 DEF Close
  <2>2. \A f \in End : f # e => open'[f] = open[f]
    BY <2>1 DEF TypeOK
  <2>3. \A f \in End : net'[f] \in {<<>>, net[f]}
    BY <2>1 DEF TypeOK
  <2>4. \A b \in Conn : ~Made(b)' => ~Made(b)
    BY <2>1, <2>2 DEF Made, End
  <2>5. DialogueOK'
    BY <2>1, Emptied
  <2>6. UnmadeOK'
    <3> SUFFICES ASSUME NEW b \in Conn, ~Made(b)', NEW f \in {<<b, "dialler">>, <<b, "dialled">>}
                 PROVE  stage_peer[f] = "anonymous" /\ step[f] = "free" /\ net'[f] = <<>>
      BY <2>1 DEF UnmadeOK
    <3>1. f \in End
      BY DEF End
    <3>2. ~Made(b)
      BY <2>4
    <3>3. stage_peer[f] = "anonymous" /\ step[f] = "free" /\ net[f] = <<>>
      BY <3>2 DEF UnmadeOK
    <3> QED BY <2>3, <3>1, <3>3
  <2>7. StepIsOpen'
    BY <2>1, <2>2 DEF StepIsOpen, TypeOK
  <2> QED BY <2>1, <2>5, <2>6, <2>7 DEF AuthorizedOK, VerifiedIsPeer, OneActive
<1>9. ASSUME NEW e \in End, Scan(e) PROVE Rest'
  <2>1. /\ ~open[e] /\ active' = [active EXCEPT ![e] = FALSE]
        /\ UNCHANGED <<open, stage_peer, pubkey, auth, step, leaving, net>>
    BY <1>9 DEF Scan
  <2>2. (\A f \in End : f # e => active'[f] = active[f]) /\ ~active'[e]
    BY <2>1 DEF TypeOK
  <2> QED BY <2>1, <2>2
      DEF StepIsOpen, AuthorizedOK, VerifiedIsPeer, DialogueOK, UnmadeOK, Made, OneActive
<1>10. CASE UNCHANGED vars
  BY <1>10 DEF vars, StepIsOpen, AuthorizedOK, VerifiedIsPeer, DialogueOK, UnmadeOK, Made, OneActive
<1> QED
  BY <1>1, <1>2, <1>3, <1>4, <1>5, <1>6, <1>7, <1>8, <1>9, <1>10 DEF Next, EndStep

\* The invariant holds of every behaviour.
LEMMA Invariant == Spec => []IInv
<1>1. Init => IInv
  <2> SUFFICES ASSUME Init PROVE IInv
    OBVIOUS
  <2>1. TypeOK
    BY DEF Init, TypeOK
  <2>2. StepIsOpen /\ AuthorizedOK /\ VerifiedIsPeer /\ OneActive
    BY DEF Init, StepIsOpen, AuthorizedOK, VerifiedIsPeer, OneActive
  <2>3. DialogueOK /\ UnmadeOK
    BY DEF Init, DialogueOK, UnmadeOK, End
  <2> QED BY <2>1, <2>2, <2>3 DEF IInv
<1>2. IInv /\ [Next]_vars => IInv'
  <2> SUFFICES ASSUME IInv, [Next]_vars PROVE IInv'
    OBVIOUS
  <2>1. TypeOK'
    BY TypeStep DEF IInv
  <2> QED BY <2>1, InvStep
<1> QED BY <1>1, <1>2, PTL DEF Spec

\* Type correctness of both ends of every connection.
THEOREM TypeCorrect == Spec => []TypeOK
<1>1. IInv => TypeOK
  BY DEF IInv
<1> QED BY <1>1, Invariant, PTL

\* A verified key is the key of the other end's node, which can sign with it,
\* however many handshakes overlap (id/peer_t.cpp).
THEOREM PeerVerified == Spec => []VerifiedIsPeer
<1>1. IInv => VerifiedIsPeer
  BY DEF IInv
<1> QED BY <1>1, Invariant, PTL

\* A node never keeps two authorized open connections to another node,
\* whatever the interleaving of the workers that verify and authorize them
\* (id/daemon.cpp is_duplicate, auth/peer_t.cpp verification_completed).
THEOREM OneConnection == Spec => []OneConnectionPerPeer
<1>1. IInv => OneConnectionPerPeer
  BY DEF IInv, OneActive, StepIsOpen, OneConnectionPerPeer
<1> QED BY <1>1, Invariant, PTL

-----------------------------------------------------------------------------
(***************************************************************************)
(* Numbers and their digits.                                               *)
(***************************************************************************)

\* Division with a rest.
LEMMA DivRest ==
    ASSUME NEW n \in Nat, NEW b \in Nat, b > 0
    PROVE  /\ n \div b \in Nat /\ n % b \in Nat /\ n % b < b
           /\ n = b * (n \div b) + (n % b)
OBVIOUS

\* The quotient is the only number that leaves a rest.
LEMMA OneQuotient ==
    ASSUME NEW n \in Nat, NEW b \in Nat, b > 0, NEW q \in Nat, NEW r \in Nat, r < b, n = b * q + r
    PROVE  n \div b = q
<1> DEFINE p == n \div b
           t == n % b
<1>1. p \in Nat /\ t \in Nat /\ t < b /\ n = b * p + t
  BY DivRest
<1> HIDE DEF p, t
<1>2. ASSUME NEW x \in Nat, NEW y \in Nat, x < y PROVE b * x + b <= b * y
  <2>1. PICK z \in Nat : y = x + 1 + z
    <3>1. y - x - 1 \in Nat /\ y = x + 1 + (y - x - 1)
      BY <1>2
    <3> QED BY <3>1
  <2>2. b * y = b * x + b + b * z
    BY <2>1
  <2>3. b * z \in Nat /\ b * x \in Nat
    OBVIOUS
  <2> QED BY <2>2, <2>3
<1>3. b * p \in Nat /\ b * q \in Nat
  BY <1>1
<1>4. ~(p < q)
  <2> SUFFICES ASSUME p < q PROVE FALSE
    OBVIOUS
  <2>1. b * p + b <= b * q
    BY <1>1, <1>2
  <2> QED BY <1>1, <1>3, <2>1
<1>5. ~(q < p)
  <2> SUFFICES ASSUME q < p PROVE FALSE
    OBVIOUS
  <2>1. b * q + b <= b * p
    BY <1>1, <1>2
  <2> QED BY <1>1, <1>3, <2>1
<1>6. p = q
  BY <1>1, <1>4, <1>5
<1> QED BY <1>6 DEF p

\* To divide twice is to divide by the product.
LEMMA DivDiv ==
    ASSUME NEW n \in Nat, NEW b \in Nat, b > 0, NEW c \in Nat, c > 0
    PROVE  n \div (b * c) = (n \div b) \div c
<1> DEFINE q == n \div b
           r == n % b
           s == q \div c
           t == q % c
<1>1. q \in Nat /\ r \in Nat /\ r < b /\ n = b * q + r
  BY DivRest
<1>2. s \in Nat /\ t \in Nat /\ t < c /\ q = c * s + t
  BY <1>1, DivRest
<1> HIDE DEF q, r, s, t
<1>3. n = (b * c) * s + (b * t + r)
  <2>1. b * q = b * (c * s + t)
    BY <1>2
  <2>2. b * (c * s + t) = (b * c) * s + b * t
    BY <1>2
  <2> QED BY <1>1, <1>2, <2>1, <2>2
<1>4. b * t + r \in Nat /\ b * c \in Nat /\ b * c > 0
  <2>1. b * t \in Nat
    BY <1>2
  <2>2. b * c \in Nat /\ b * c > 0
    OBVIOUS
  <2> QED BY <1>1, <2>1, <2>2
<1>5. b * t + r < b * c
  <2>1. PICK z \in Nat : c = t + 1 + z
    <3>1. c - t - 1 \in Nat /\ c = t + 1 + (c - t - 1)
      BY <1>2
    <3> QED BY <3>1
  <2>2. b * c = b * t + b + b * z
    BY <1>2, <2>1
  <2>3. b * z \in Nat /\ b * t \in Nat
    BY <1>2
  <2> QED BY <1>1, <2>2, <2>3
<1> DEFINE d == b * c
           e == b * t + r
<1>6. d \in Nat /\ d > 0 /\ e \in Nat /\ e < d /\ n = d * s + e
  BY <1>3, <1>4, <1>5
<1> HIDE DEF d, e
<1>7. n \div d = s
  BY <1>2, <1>6, OneQuotient
<1> QED BY <1>7 DEF d, s, q

\* Two digits.
LEMMA TwoDigits ==
    ASSUME NEW n \in Nat, n < Base2
    PROVE  (n % Base) + ((n \div Base) % Base) * Base = n
<1> DEFINE q == n \div Base
           r == n % Base
<1>1. Base \in Nat /\ Base > 0
  BY BaseAssumption
<1>2. q \in Nat /\ r \in Nat /\ r < Base /\ n = Base * q + r
  BY <1>1, DivRest
<1> HIDE DEF q, r
<1>3. q < Base
  <2> SUFFICES ASSUME q >= Base PROVE FALSE
    BY <1>1, <1>2
  <2>1. PICK z \in Nat : q = Base + z
    <3>1. q - Base \in Nat /\ q = Base + (q - Base)
      BY <1>1, <1>2
    <3> QED BY <3>1
  <2>2. Base * q = Base * Base + Base * z
    BY <1>1, <2>1
  <2>3. Base * z \in Nat /\ Base * Base \in Nat
    BY <1>1
  <2> QED BY <1>2, <2>2, <2>3 DEF Base2
<1>4. q % Base = q
  BY <1>1, <1>2, <1>3
<1>5. Base * q = q * Base
  BY <1>1, <1>2
<1>6. q * Base \in Nat
  BY <1>1, <1>2
<1> QED BY <1>2, <1>4, <1>5, <1>6 DEF q, r

\* Four digits.
LEMMA FourDigits ==
    ASSUME NEW n \in Nat, n < Base4
    PROVE  (n % Base) + ((n \div Base) % Base) * Base + ((n \div Base2) % Base) * Base2
             + ((n \div Base3) % Base) * Base3 = n
<1> DEFINE q == n \div Base2
           r == n % Base2
<1>1. /\ Base \in Nat /\ Base > 0 /\ Base2 \in Nat /\ Base2 > 0
  BY BaseAssumption DEF Base2
<1>2. q \in Nat /\ r \in Nat /\ r < Base2 /\ n = Base2 * q + r
  BY <1>1, DivRest
<1>3. n \div Base3 = q \div Base
  BY <1>1, DivDiv DEF Base3
<1>4. n % Base = r % Base /\ (n \div Base) % Base = (r \div Base) % Base
  <2> DEFINE a == n \div Base
             u == n % Base
             c == a \div Base
             v == a % Base
             w == Base * v + u
  <2>1. a \in Nat /\ u \in Nat /\ u < Base /\ n = Base * a + u
    BY <1>1, DivRest
  <2>2. c \in Nat /\ v \in Nat /\ v < Base /\ a = Base * c + v
    BY <1>1, <2>1, DivRest
  <2>3. c = q
    BY <1>1, DivDiv DEF Base2
  <2> HIDE DEF a, u, c, v
  <2>4. n = Base2 * c + w
    <3>1. Base * a = Base * (Base * c + v)
      BY <2>2
    <3>2. Base * (Base * c + v) = (Base * Base) * c + Base * v
      BY <1>1, <2>2
    <3>3. Base * v \in Nat /\ (Base * Base) * c \in Nat
      BY <1>1, <2>2
    <3> QED BY <2>1, <2>2, <3>1, <3>2, <3>3 DEF Base2
  <2>5. w \in Nat
    <3>1. Base * v \in Nat
      BY <1>1, <2>2
    <3> QED BY <2>1, <3>1
  <2>6. w = r
    <3>1. Base2 * c = Base2 * q /\ Base2 * q \in Nat
      BY <1>1, <1>2, <2>3
    <3> HIDE DEF w, q, r
    <3> QED BY <1>2, <2>4, <2>5, <3>1
  <2>7. w \div Base = v
    <3>1. w = Base * v + u
      OBVIOUS
    <3> HIDE DEF w
    <3> QED BY <1>1, <2>1, <2>2, <2>5, <3>1, OneQuotient
  <2>8. w % Base = u
    <3> DEFINE p == w \div Base
               t == w % Base
    <3>1. w = Base * v + u
      OBVIOUS
    <3> HIDE DEF w
    <3>2. p \in Nat /\ t \in Nat /\ w = Base * p + t
      BY <1>1, <2>5, DivRest
    <3>3. p = v
      BY <2>7
    <3> HIDE DEF p, t
    <3>4. Base * p = Base * v /\ Base * v \in Nat
      BY <1>1, <2>2, <3>3
    <3>5. t = u
      BY <2>1, <3>1, <3>2, <3>4
    <3> QED BY <3>5 DEF t
  <2>9. (w \div Base) % Base = v
    BY <1>1, <2>2, <2>7
  <2> HIDE DEF w
  <2> QED BY <2>6, <2>8, <2>9 DEF a, u, v
<1> HIDE DEF q, r
<1>5. (r % Base) + ((r \div Base) % Base) * Base = r
  BY <1>2, TwoDigits
<1>6. q < Base2
  <2> SUFFICES ASSUME q >= Base2 PROVE FALSE
    BY <1>1, <1>2
  <2>1. PICK z \in Nat : q = Base2 + z
    <3>1. q - Base2 \in Nat /\ q = Base2 + (q - Base2)
      BY <1>1, <1>2
    <3> QED BY <3>1
  <2>2. Base2 * q = Base2 * Base2 + Base2 * z
    BY <1>1, <2>1
  <2>3. Base2 * z \in Nat /\ Base2 * Base2 \in Nat
    BY <1>1
  <2>4. Base4 = Base2 * Base2
    BY <1>1 DEF Base4, Base3, Base2
  <2> QED BY <1>2, <2>2, <2>3, <2>4
<1>7. (q % Base) + ((q \div Base) % Base) * Base = q
  BY <1>2, <1>6, TwoDigits
<1> DEFINE x == q % Base
           y == (q \div Base) % Base
           f == r % Base
           g == (r \div Base) % Base
<1>8. x \in Nat /\ y \in Nat /\ x + y * Base = q
  BY <1>1, <1>2, <1>7, DivRest
<1>9. f \in Nat /\ g \in Nat /\ f + g * Base = r
  BY <1>1, <1>2, <1>5, DivRest
<1>10. (n \div Base2) % Base = x /\ (n \div Base3) % Base = y
  BY <1>3 DEF q
<1>11. n % Base = f /\ (n \div Base) % Base = g
  BY <1>4
<1> HIDE DEF x, y, f, g
<1>12. x * Base2 + y * Base3 = Base2 * q
  BY <1>1, <1>8 DEF Base3
<1>13. x * Base2 \in Nat /\ y * Base3 \in Nat /\ g * Base \in Nat
  BY <1>1, <1>8, <1>9 DEF Base3
<1>14. f + g * Base + x * Base2 + y * Base3 = n
  BY <1>2, <1>8, <1>9, <1>12, <1>13
<1> QED BY <1>10, <1>11, <1>14

-----------------------------------------------------------------------------
(***************************************************************************)
(* A text and its bytes.                                                   *)
(***************************************************************************)

\* A nonempty set of numbers has a least one.
LEMMA LeastNumber ==
    ASSUME NEW T, T \subseteq Nat, T # {}
    PROVE  \E x \in T : \A y \in T : x <= y
<1> DEFINE R == OpToRel(<, Nat)
<1>1. IsWellFoundedOn(R, Nat)
  BY NatLessThanWellFounded
<1> HIDE DEF R
<1>2. PICK x \in T : \A y \in T : ~ (<<y, x>> \in R)
  BY <1>1, WFMin
<1>3. \A i, j \in Nat : i < j => <<i, j>> \in R
  BY DEF R, OpToRel
<1>4. x \in Nat /\ \A y \in T : y \in Nat
  OBVIOUS
<1>5. \A y \in T : ~(y < x)
  BY <1>2, <1>3, <1>4
<1> QED BY <1>4, <1>5

\* Induction over the numbers, with a set in the place of a predicate.
LEMMA NumberInduction ==
    ASSUME NEW G, 0 \in G, \A c \in Nat : c \in G => c + 1 \in G
    PROVE  \A c \in Nat : c \in G
<1> SUFFICES ASSUME NEW k \in Nat, k \notin G PROVE FALSE
  OBVIOUS
<1> DEFINE Bad == {c \in Nat : c \notin G}
<1>1. PICK c \in Bad : \A m \in Bad : c <= m
  <2>1. Bad \subseteq Nat /\ Bad # {}
    OBVIOUS
  <2> HIDE DEF Bad
  <2> QED BY <2>1, LeastNumber
<1>2. c \in Nat /\ c # 0 /\ c \notin G
  OBVIOUS
<1>3. c - 1 \in Nat /\ (c - 1) + 1 = c /\ ~(c <= c - 1)
  BY <1>2
<1>4. c - 1 \in G
  BY <1>1, <1>3
<1> QED BY <1>2, <1>3, <1>4

\* The function by which FlattenSeq is defined.
IsFlat(g, s) == g = [i \in 1..Len(s) |-> IF i = 1 THEN s[i] ELSE g[i-1] \o s[i]]

LEMMA FlatIs ==
    ASSUME NEW s, Len(s) # 0, \E g : IsFlat(g, s)
    PROVE  \E g : IsFlat(g, s) /\ FlattenSeq(s) = g[Len(s)]
BY DEF FlattenSeq, IsFlat

FlatAt(g, s, i) == g[i] = IF i = 1 THEN s[i] ELSE g[i-1] \o s[i]

\* The recursion, one position at a time.
LEMMA FlatAtIs ==
    ASSUME NEW s, NEW g
    PROVE  IsFlat(g, s) <=> g = [i \in 1..Len(s) |-> g[i]] /\ \A i \in 1..Len(s) : FlatAt(g, s, i)
BY DEF IsFlat, FlatAt

\* There is such a function, for sequences of sequences.
LEMMA FlatExists ==
    ASSUME NEW V, NEW s, Len(s) \in Nat, \A i \in 1..Len(s) : s[i] \in Seq(V)
    PROVE  \E g : IsFlat(g, s) /\ \A i \in 1..Len(s) : g[i] \in Seq(V)
<1> DEFINE c == Len(s)
           IsPart(g, m) == /\ g = [i \in 1..m |-> g[i]]
                           /\ \A i \in 1..m : FlatAt(g, s, i) /\ g[i] \in Seq(V)
           G == {m \in Nat : m <= c => \E g : IsPart(g, m)}
<1>1. 0 \in G
  <2> DEFINE e == [i \in 1..0 |-> 0]
  <2>1. IsPart(e, 0)
    OBVIOUS
  <2> HIDE DEF IsPart
  <2> QED BY <2>1
<1>2. ASSUME NEW m \in Nat, m \in G PROVE m + 1 \in G
  <2>1. CASE ~(m + 1 <= c)
    BY <2>1
  <2>2. CASE m + 1 <= c
    <3>1. PICK g : IsPart(g, m)
      BY <1>2, <2>2
    <3> DEFINE new == IF m + 1 = 1 THEN s[m + 1] ELSE g[m] \o s[m + 1]
               h == [i \in 1..(m + 1) |-> IF i = m + 1 THEN new ELSE g[i]]
    <3>2. new \in Seq(V)
      <4>1. s[m + 1] \in Seq(V)
        BY <2>2
      <4>2. CASE m = 0
        BY <4>1, <4>2
      <4>3. CASE m # 0
        <5>1. m \in 1..m
          BY <4>3
        <5>11. g[m] \in Seq(V)
          BY <3>1, <5>1
        <5>2. g[m] \o s[m + 1] \in Seq(V)
          BY <4>1, <5>11, ConcatProperties
        <5> QED BY <4>3, <5>2
      <4> QED BY <4>2, <4>3
    <3>3. \A i \in 1..m : i \in 1..(m + 1) /\ i # m + 1 /\ h[i] = g[i]
      OBVIOUS
    <3>4. h[m + 1] = new /\ m + 1 \in 1..(m + 1) /\ (m + 1) - 1 = m
      OBVIOUS
    <3>5. h = [i \in 1..(m + 1) |-> h[i]]
      OBVIOUS
    <3> HIDE DEF h
    <3>6. FlatAt(h, s, m + 1)
      <4>1. m # 0 => h[m] = g[m]
        BY <3>3
      <4> QED BY <3>4, <4>1 DEF FlatAt
    <3>7. ASSUME NEW i \in 1..m PROVE FlatAt(h, s, i) /\ h[i] \in Seq(V)
      <4>1. FlatAt(g, s, i) /\ g[i] \in Seq(V)
        BY <3>1
      <4>2. i # 1 => i - 1 \in 1..m
        OBVIOUS
      <4> QED BY <3>3, <4>1, <4>2 DEF FlatAt
    <3>8. \A i \in 1..(m + 1) : i \in 1..m \/ i = m + 1
      OBVIOUS
    <3>9. IsPart(h, m + 1)
      <4>1. \A i \in 1..(m + 1) : FlatAt(h, s, i) /\ h[i] \in Seq(V)
        BY <3>2, <3>4, <3>6, <3>7, <3>8
      <4> QED BY <3>5, <4>1
    <3> HIDE DEF IsPart
    <3> QED BY <3>9
  <2> QED BY <2>1, <2>2
<1>3. \A m \in Nat : m \in G
  <2> HIDE DEF G
  <2> QED BY <1>1, <1>2, NumberInduction
<1>4. PICK g : IsPart(g, c)
  BY <1>3
<1> QED BY <1>4, FlatAtIs

\* Characters: the bytes of each, at least one.
Texts == Seq(Seq(Nat) \ {<<>>})

\* What is left of a text in a datagram of the SDK.
Cut(text) == SubSeq(GetBytes(text), 1, Len(text))

\* The bytes of a text are at least as many as its characters, and as many if
\* each has one.
LEMMA BytesOf ==
    ASSUME NEW text \in Texts
    PROVE  /\ GetBytes(text) \in Seq(Nat) /\ Len(text) \in Nat
           /\ Len(GetBytes(text)) >= Len(text)
           /\ Ascii(text) => Len(GetBytes(text)) = Len(text)
           /\ Len(text) # 0 => GetBytes(text)[1] = text[1][1]
<1> DEFINE c == Len(text)
<1>1. c \in Nat /\ DOMAIN text = 1..c /\ \A i \in 1..c : text[i] \in Seq(Nat) /\ text[i] # <<>>
  BY LenProperties, ElementOfSeq DEF Texts
<1>2. \A i \in 1..c : Len(text[i]) \in Nat /\ Len(text[i]) >= 1
  BY <1>1, EmptySeq
<1>3. CASE c = 0
  <2>1. GetBytes(text) = text
    BY <1>3 DEF GetBytes, FlattenSeq
  <2>2. text = <<>>
    BY <1>3, EmptySeq DEF Texts
  <2> QED BY <1>1, <1>3, <2>1, <2>2, EmptySeq
<1>4. CASE c # 0
  <2>1. \E g : IsFlat(g, text) /\ \A i \in 1..c : g[i] \in Seq(Nat)
    BY <1>1, FlatExists
  <2>2. PICK g : IsFlat(g, text) /\ FlattenSeq(text) = g[c]
    BY <1>4, <2>1, FlatIs
  <2>3. \A i \in 1..c : FlatAt(g, text, i)
    BY <2>2, FlatAtIs
  <2> DEFINE Fits(i) == /\ g[i] \in Seq(Nat) /\ Len(g[i]) >= i /\ g[i][1] = text[1][1]
                        /\ Ascii(text) => Len(g[i]) = i
             G == {i \in Nat : i + 1 \in 1..c => Fits(i + 1)}
  <2>4. 0 \in G
    <3>1. 1 \in 1..c
      BY <1>1, <1>4
    <3>2. g[1] = text[1]
      BY <2>3, <3>1 DEF FlatAt
    <3>3. Ascii(text) => Len(text[1]) = 1
      BY <1>1, <3>1 DEF Ascii
    <3>4. Fits(1)
      BY <1>1, <1>2, <3>1, <3>2, <3>3
    <3> HIDE DEF Fits
    <3> QED BY <3>4
  <2>5. ASSUME NEW i \in Nat, i \in G PROVE i + 1 \in G
    <3> SUFFICES ASSUME (i + 1) + 1 \in 1..c PROVE Fits((i + 1) + 1)
      OBVIOUS
    <3> DEFINE j == i + 1
    <3>1. j \in 1..c /\ j + 1 \in 1..c /\ j + 1 # 1 /\ (j + 1) - 1 = j /\ j \in Nat /\ j >= 1
      BY <1>1
    <3>2. Fits(j)
      BY <2>5, <3>1
    <3> HIDE DEF j
    <3>3. g[j + 1] = g[j] \o text[j + 1]
      BY <2>3, <3>1 DEF FlatAt
    <3> DEFINE a == g[j]
               b == text[j + 1]
    <3>4. /\ a \in Seq(Nat) /\ Len(a) >= j /\ a[1] = text[1][1] /\ (Ascii(text) => Len(a) = j)
          /\ b \in Seq(Nat) /\ Len(b) \in Nat /\ Len(b) >= 1 /\ Len(a) \in Nat
      BY <1>1, <1>2, <3>1, <3>2, LenProperties
    <3>5. Ascii(text) => Len(b) = 1
      BY <1>1, <3>1 DEF Ascii
    <3> HIDE DEF a, b
    <3>6. /\ a \o b \in Seq(Nat) /\ Len(a \o b) = Len(a) + Len(b)
          /\ (a \o b)[1] = a[1]
      <4>1. 1 \in 1..(Len(a) + Len(b)) /\ 1 <= Len(a)
        BY <3>1, <3>4
      <4> QED BY <3>4, <4>1, ConcatProperties
    <3>7. g[j + 1] = a \o b
      BY <3>3 DEF a, b
    <3>8. Fits(j + 1)
      <4> DEFINE z == g[j + 1]
      <4>1. z \in Seq(Nat) /\ Len(z) = Len(a) + Len(b) /\ z[1] = text[1][1]
        BY <3>4, <3>6, <3>7
      <4> HIDE DEF z
      <4>2. Len(z) >= j + 1
        BY <3>1, <3>4, <4>1
      <4>3. ASSUME Ascii(text) PROVE Len(z) = j + 1
        <5>1. Len(a) = j /\ Len(b) = 1
          BY <3>4, <3>5, <4>3
        <5> QED BY <3>1, <4>1, <5>1
      <4> QED BY <4>1, <4>2, <4>3, Zenon DEF z
    <3> HIDE DEF Fits
    <3>9. j + 1 = (i + 1) + 1
      BY DEF j
    <3> QED BY <3>8, <3>9
  <2>6. \A i \in Nat : i \in G
    <3> HIDE DEF G
    <3> QED BY <2>4, <2>5, NumberInduction
  <2>7. Fits(c)
    <3>1. c - 1 \in Nat /\ (c - 1) + 1 = c /\ c \in 1..c
      BY <1>1, <1>4
    <3> HIDE DEF Fits
    <3> QED BY <2>6, <3>1
  <2> QED BY <1>1, <2>2, <2>7 DEF GetBytes
<1> QED BY <1>3, <1>4

\* What is left of a text: as many bytes as it has characters; all of them, if
\* each has one; and always the first.
LEMMA CutIs ==
    ASSUME NEW text \in Texts
    PROVE  /\ Cut(text) \in Seq(Nat) /\ Len(Cut(text)) = Len(text) /\ Len(text) \in Nat
           /\ Ascii(text) => Cut(text) = GetBytes(text)
           /\ Cut(text) # <<>> => Cut(text)[1] = GetBytes(text)[1]
           /\ Len(text) # 0 => Cut(text)[1] = text[1][1]
<1> DEFINE g == GetBytes(text)
           c == Len(text)
<1>1. g \in Seq(Nat) /\ c \in Nat /\ Len(g) >= c /\ (Ascii(text) => Len(g) = c) /\ (c # 0 => g[1] = text[1][1])
  BY BytesOf
<1>2. Len(g) \in Nat /\ \A i \in 1..c : g[i] \in Nat
  <2>1. Len(g) \in Nat
    BY <1>1, LenProperties
  <2>2. \A i \in 1..c : i \in 1..Len(g)
    BY <1>1, <2>1
  <2> HIDE DEF g, c
  <2> QED BY <1>1, <2>1, <2>2, ElementOfSeq
<1> HIDE DEF g, c
<1>3. /\ SubSeq(g, 1, c) \in Seq(Nat) /\ Len(SubSeq(g, 1, c)) = IF 1 <= c THEN c - 1 + 1 ELSE 0
      /\ \A i \in 1..(c - 1 + 1) : SubSeq(g, 1, c)[i] = g[1 + i - 1]
  BY <1>1, <1>2, SubSeqProperties
<1>4. Len(SubSeq(g, 1, c)) = c
  BY <1>1, <1>3
<1>5. Ascii(text) => SubSeq(g, 1, c) = g
  BY <1>1, SubSeqFull
<1>6. c # 0 => SubSeq(g, 1, c)[1] = g[1]
  BY <1>1, <1>3
<1>7. SubSeq(g, 1, c) # <<>> => c # 0
  BY <1>3, <1>4, EmptySeq
<1> QED BY <1>1, <1>3, <1>4, <1>5, <1>6, <1>7 DEF Cut, g, c

-----------------------------------------------------------------------------
(***************************************************************************)
(* Datagrams.                                                              *)
(***************************************************************************)

\* Where the elements of a concatenation are.
LEMMA Joined ==
    ASSUME NEW S, NEW s \in Seq(S), NEW t \in Seq(S)
    PROVE  /\ Len(s) \in Nat /\ Len(t) \in Nat /\ s \o t \in Seq(S) /\ Len(s \o t) = Len(s) + Len(t)
           /\ \A i \in 1..Len(s) : (s \o t)[i] = s[i]
           /\ \A i \in 1..Len(t) : (s \o t)[Len(s) + i] = t[i]
<1> DEFINE k == Len(s)
           m == Len(t)
<1>1. k \in Nat /\ m \in Nat
  BY LenProperties
<1> DEFINE c == s \o t
<1>2. /\ c \in Seq(S) /\ Len(c) = Len(s) + Len(t)
      /\ \A i \in 1..(Len(s) + Len(t)) : c[i] = IF i <= Len(s) THEN s[i] ELSE t[i - Len(s)]
  BY ONLY s \in Seq(S), t \in Seq(S), ConcatProperties, Zenon
<1> HIDE DEF c
<1>3. ASSUME NEW i \in 1..k PROVE c[i] = s[i]
  <2>1. i \in 1..(Len(s) + Len(t)) /\ i <= Len(s)
    BY <1>1
  <2> QED BY <1>2, <2>1
<1>4. ASSUME NEW i \in 1..m PROVE c[k + i] = t[i]
  <2>1. k + i \in 1..(Len(s) + Len(t)) /\ ~(k + i <= Len(s)) /\ (k + i) - Len(s) = i
    BY <1>1
  <2> QED BY <1>2, <2>1
<1> QED BY <1>1, <1>2, <1>3, <1>4 DEF c

Services == {IdRequest, PeerChallenge, ChallengeResponse, Request, Response}

\* The size it begins with is its own, in both languages.
Framed == {b \in Seq(Nat) : /\ Len(b) >= H /\ Len(b) < MaxSize
                            /\ DecodeSize(b) = Len(b) /\ JavaDecodeSize(b) = Len(b)}

\* Both sides use the same form.
LEMMA SameForm ==
    ASSUME NEW service, NEW text \in Texts
    PROVE  JavaDatagram(service, text) = NewDatagram(service, Cut(text))
BY CutIs DEF JavaDatagram, NewDatagram, JavaEncodeSize, EncodeSize, JavaEncodeService, EncodeService, Cut

\* What is put in a datagram can be had from it, unless it is too long to be
\* sent.
LEMMA DatagramIs ==
    ASSUME NEW service \in Services, NEW payload \in Seq(Nat), NEW b, b = NewDatagram(service, payload)
    PROVE  /\ b \in Seq(Nat) /\ Len(b) = H + Len(payload)
           /\ Len(b) < MaxSize => b \in Framed
           /\ DecodeService(b) = service
           /\ service = PeerChallenge => JavaDecodeService(b) = service
           /\ ParseString(b) = payload /\ JavaParseString(b) = payload
<1> DEFINE n == H + Len(payload)
           s == EncodeSize(n)
           v == EncodeService(service)
<1>1. Base \in Nat /\ Base >= 3 /\ Len(payload) \in Nat /\ n \in Nat /\ n >= H /\ service \in 1..5 /\ H = 6
  BY BaseAssumption, LenProperties DEF H, Services, IdRequest, PeerChallenge, ChallengeResponse, Request, Response
<1>2. Base2 \in Nat /\ Base2 >= 9 /\ Base3 \in Nat /\ Base3 > 0
  <2>1. PICK z \in Nat : Base = 3 + z
    <3>1. Base - 3 \in Nat /\ Base = 3 + (Base - 3)
      BY <1>1
    <3> QED BY <3>1
  <2>2. Base * Base = 9 + 6 * z + z * z /\ z * z \in Nat
    BY <2>1
  <2>3. Base2 \in Nat /\ Base2 >= 9
    BY <2>2 DEF Base2
  <2> QED BY <1>1, <2>3 DEF Base3
<1>3. s \in Seq(Nat) /\ Len(s) = 4
      /\ s[1] = n % Base /\ s[2] = (n \div Base) % Base
      /\ s[3] = (n \div Base2) % Base /\ s[4] = (n \div Base3) % Base
  <2>1. n % Base \in Nat /\ n \div Base \in Nat /\ n \div Base2 \in Nat /\ n \div Base3 \in Nat
    BY <1>1, <1>2, DivRest
  <2>2. (n \div Base) % Base \in Nat /\ (n \div Base2) % Base \in Nat /\ (n \div Base3) % Base \in Nat
    BY <1>1, <2>1, DivRest
  <2> HIDE DEF n
  <2> QED BY <2>1, <2>2 DEF EncodeSize
<1>4. v \in Seq(Nat) /\ Len(v) = 2 /\ v[1] = service % Base /\ v[2] = (service \div Base) % Base
  <2>1. service \in Nat
    BY <1>1
  <2>2. service % Base \in Nat /\ service \div Base \in Nat
    BY <1>1, <2>1, DivRest
  <2>3. (service \div Base) % Base \in Nat
    BY <1>1, <2>2, DivRest
  <2> QED BY <2>2, <2>3 DEF EncodeService
<1>5. b = (s \o v) \o payload
  BY DEF NewDatagram
<1> HIDE DEF s, v, n
<1> DEFINE h == s \o v
<1>6. /\ h \in Seq(Nat) /\ Len(h) = 6
      /\ h[1] = s[1] /\ h[2] = s[2] /\ h[3] = s[3] /\ h[4] = s[4] /\ h[5] = v[1] /\ h[6] = v[2]
  <2>1. /\ h \in Seq(Nat) /\ Len(h) = Len(s) + Len(v)
        /\ \A i \in 1..Len(s) : h[i] = s[i]
        /\ \A i \in 1..Len(v) : h[Len(s) + i] = v[i]
    <3>1. s \in Seq(Nat) /\ v \in Seq(Nat)
      BY <1>3, <1>4
    <3> QED BY ONLY <3>1, Joined
  <2> HIDE DEF h
  <2> QED BY <1>3, <1>4, <2>1
<1>7. b = h \o payload
  BY <1>5
<1> HIDE DEF h
<1>8. /\ b \in Seq(Nat) /\ Len(b) = 6 + Len(payload)
      /\ \A i \in 1..6 : b[i] = h[i]
      /\ \A i \in 1..Len(payload) : b[6 + i] = payload[i]
  <2>1. /\ h \o payload \in Seq(Nat) /\ Len(h \o payload) = Len(h) + Len(payload)
        /\ \A i \in 1..Len(h) : (h \o payload)[i] = h[i]
        /\ \A i \in 1..Len(payload) : (h \o payload)[Len(h) + i] = payload[i]
    <3>1. h \in Seq(Nat)
      BY <1>6
    <3> QED BY ONLY <3>1, payload \in Seq(Nat), Joined
  <2> QED BY ONLY <1>6, <1>7, <2>1
<1>10. /\ b[1] = s[1] /\ b[2] = s[2] /\ b[3] = s[3] /\ b[4] = s[4]
       /\ b[5] = v[1] /\ b[6] = v[2]
  <2>1. 1 \in 1..6 /\ 2 \in 1..6 /\ 3 \in 1..6 /\ 4 \in 1..6 /\ 5 \in 1..6 /\ 6 \in 1..6
    OBVIOUS
  <2>2. /\ b[1] = h[1] /\ b[2] = h[2] /\ b[3] = h[3] /\ b[4] = h[4]
        /\ b[5] = h[5] /\ b[6] = h[6]
    BY <1>8, <2>1
  <2> QED BY ONLY <1>6, <2>2
<1>11. Len(b) = n /\ Len(b) = H + Len(payload)
  BY <1>1, <1>8 DEF n
<1>12. ASSUME n < MaxSize PROVE b \in Framed
  <2>1. Base4 = Base * Base * Base * Base /\ Base4 \in Nat
    BY <1>1 DEF Base4, Base3, Base2
  <2>2. MaxSize \in Nat /\ 2 * MaxSize <= Base4
    BY <2>1, SizeAssumption
  <2>3. n < Base4 /\ ~(2 * n >= Base4)
    BY <1>1, <1>12, <2>1, <2>2
  <2>4. DecodeSize(b) = n
    BY <1>1, <1>3, <1>10, <2>3, FourDigits DEF DecodeSize
  <2>5. JavaDecodeSize(b) = n
    BY <2>3, <2>4 DEF JavaDecodeSize, Signed, DecodeSize
  <2> QED BY <1>1, <1>8, <1>11, <1>12, <2>4, <2>5 DEF Framed
<1>13. DecodeService(b) = service
  <2>1. service \in Nat /\ service < Base2
    BY <1>1, <1>2
  <2> QED BY <1>4, <1>10, <2>1, TwoDigits DEF DecodeService
<1>14. ASSUME service = PeerChallenge PROVE JavaDecodeService(b) = service
  <2>1. b[5] + b[6] * Base = service
    BY <1>13 DEF DecodeService
  <2>2. service = 2 /\ ~(2 * service >= Base2)
    BY <1>2, <1>14 DEF PeerChallenge
  <2> QED BY <2>1, <2>2 DEF JavaDecodeService, Signed
<1>15. SubSeq(b, 7, Len(b)) = payload
  <2> DEFINE k == Len(payload)
             p == SubSeq(b, 7, 6 + k)
  <2>1. \A i \in 7..(6 + k) : b[i] \in Nat
    <3>1. \A i \in 7..(6 + k) : i \in 1..Len(b)
      BY <1>1, <1>8
    <3> QED BY <1>8, <3>1, ElementOfSeq
  <2>2. /\ p \in Seq(Nat) /\ Len(p) = (IF 7 <= 6 + k THEN (6 + k) - 7 + 1 ELSE 0)
        /\ \A i \in 1..((6 + k) - 7 + 1) : p[i] = b[7 + i - 1]
    <3>1. k \in Nat /\ 7 \in Int /\ 6 + k \in Int
      BY <1>1
    <3> HIDE DEF k
    <3> QED BY <2>1, <3>1, SubSeqProperties
  <2>3. Len(p) = k
    BY <1>1, <2>2
  <2>4. ASSUME NEW i \in 1..k PROVE p[i] = payload[i]
    <3>1. i \in 1..((6 + k) - 7 + 1) /\ 7 + i - 1 = 6 + i
      BY <1>1
    <3>2. p[i] = b[6 + i]
      BY <2>2, <3>1
    <3> QED BY <1>8, <3>2
  <2>5. p = payload
    <3> HIDE DEF p
    <3> QED BY <2>2, <2>3, <2>4, SeqEqual
  <2> QED BY <1>8, <2>5
<1> QED BY <1>8, <1>11, <1>12, <1>13, <1>14, <1>15 DEF ParseString, JavaParseString, H

-----------------------------------------------------------------------------
(***************************************************************************)
(* What a read makes of the bytes.                                         *)
(***************************************************************************)

LEMMA MinOfTwo ==
    ASSUME NEW x \in Int, NEW y \in Int
    PROVE  Min({x, y}) \in {x, y} /\ Min({x, y}) <= x /\ Min({x, y}) <= y
<1>1. \E m \in {x, y} : \A z \in {x, y} : m <= z
  OBVIOUS
<1>2. Min({x, y}) \in {x, y} /\ \A z \in {x, y} : Min({x, y}) <= z
  BY <1>1 DEF Min
<1> QED BY <1>2

\* A sequence cut in two.
LEMMA Halves ==
    ASSUME NEW w \in Seq(Nat), NEW n \in 1..Len(w)
    PROVE  /\ SubSeq(w, 1, n) \in Seq(Nat) /\ Len(SubSeq(w, 1, n)) = n
           /\ SubSeq(w, n + 1, Len(w)) \in Seq(Nat)
           /\ SubSeq(w, 1, n) \o SubSeq(w, n + 1, Len(w)) = w
<1> DEFINE m == Len(w)
<1>1. m \in Nat /\ n \in Nat /\ n <= m /\ n >= 1 /\ \A i \in 1..m : w[i] \in Nat
  BY LenProperties, ElementOfSeq
<1>2. /\ SubSeq(w, 1, n) \in Seq(Nat) /\ Len(SubSeq(w, 1, n)) = (IF 1 <= n THEN n - 1 + 1 ELSE 0)
  <2>1. \A i \in 1..n : w[i] \in Nat
    BY <1>1
  <2> HIDE DEF m
  <2> QED BY <1>1, <2>1, SubSeqProperties
<1>3. SubSeq(w, n + 1, m) \in Seq(Nat)
  <2>1. \A i \in (n + 1)..m : w[i] \in Nat
    BY <1>1
  <2> HIDE DEF m
  <2> QED BY <1>1, <2>1, SubSeqProperties
<1>4. SubSeq(w, 1, n) \o SubSeq(w, n + 1, m) = SubSeq(w, 1, m)
  <2>1. 1 \in 1..(m + 1) /\ n \in (1 - 1)..m /\ m \in n..m
    BY <1>1
  <2> QED BY <2>1, ConcatAdjacentSubSeq
<1>5. SubSeq(w, 1, m) = w
  BY SubSeqFull
<1>6. Len(SubSeq(w, 1, n)) = n
  BY <1>1, <1>2
<1> QED BY <1>2, <1>3, <1>4, <1>5, <1>6

\* b begins with a.
Begins(a, b) == \A i \in 1..Len(a) : a[i] = b[i]

\* Two ways to cut the same sequence.
LEMMA SameBytes ==
    ASSUME NEW a \in Seq(Nat), NEW x \in Seq(Nat), NEW b \in Seq(Nat), NEW t \in Seq(Nat),
           a \o x = b \o t, Len(a) <= Len(b)
    PROVE  Begins(a, b) /\ (Len(a) = Len(b) => a = b /\ x = t)
<1>1. Len(a) \in Nat /\ Len(b) \in Nat
  BY LenProperties
<1>2. ASSUME NEW i \in 1..Len(a) PROVE a[i] = b[i]
  <2>1. (a \o x)[i] = a[i]
    BY Joined
  <2>2. i \in 1..Len(b)
    BY <1>1
  <2>3. (b \o t)[i] = b[i]
    BY <2>2, Joined
  <2> QED BY <2>1, <2>3
<1>3. ASSUME Len(a) = Len(b) PROVE a = b /\ x = t
  <2>1. a = b
    BY <1>2, <1>3, SeqEqual
  <2>2. a \o x = a \o t
    BY <2>1
  <2> QED BY <2>1, <2>2, ConcatSimplifications
<1> QED BY <1>2, <1>3 DEF Begins

\* d has the beginning of b, and w the rest of it and then t.
Reading(d, w, b, t, service) ==
    /\ d \in Partial /\ w \in Seq(Nat) /\ b \in Framed /\ t \in Seq(Nat)
    /\ d.bytes \o w = b \o t /\ Len(d.bytes) < Len(b)
    /\ Len(d.bytes) < H => d.size \in {0, H}
    /\ Len(d.bytes) >= H => d.size = Len(b) /\ d.service = service

\* There is nothing in d.
Fresh(d) == d \in Partial /\ d.bytes = <<>> /\ d.size \in {0, H}

\* The bytes a and x after a read into d.
MoreOf(d, b, t, a, x) ==
    /\ a \in Seq(Nat) /\ x \in Seq(Nat) /\ Len(a) \in Nat /\ Len(b) \in Nat /\ Len(d.bytes) \in Nat
    /\ a \o x = b \o t /\ Len(d.bytes) < Len(a) /\ Len(a) <= Len(b)
    /\ Len(d.bytes) < H => Len(a) <= H
    /\ \A i \in 1..Len(a) : a[i] = b[i]
    /\ Len(a) = Len(b) => a = b /\ x = t

\* What a read of b is to make: b, or more of it.
ReadOf(e, x, b, t, service) ==
    /\ e # Oversized
    /\ IF Completed(e) THEN e.bytes = b /\ e.service = service /\ x = t
       ELSE Reading(e, x, b, t, service)

LEMMA ConcatOfThree ==
    ASSUME NEW s \in Seq(Nat), NEW c \in Seq(Nat), NEW x \in Seq(Nat)
    PROVE  (s \o c) \o x = s \o (c \o x)
<1> DEFINE V == Nat
<1>1. s \in Seq(V) /\ c \in Seq(V) /\ x \in Seq(V)
  OBVIOUS
<1> HIDE DEF V
<1> QED BY <1>1, ConcatAssociative

\* The bytes after a read, in either language.
LEMMA MoreBytes ==
    ASSUME NEW d, NEW w, NEW b, NEW t, NEW service, Reading(d, w, b, t, service),
           NEW n, n \in 1..Min({Wanted(d), Len(w)}),
           NEW a, a = d.bytes \o SubSeq(w, 1, n), NEW x, x = SubSeq(w, n + 1, Len(w))
    PROVE  MoreOf(d, b, t, a, x)
<1> DEFINE s == d.bytes
           c == SubSeq(w, 1, n)
<1>1. /\ s \in Seq(Nat) /\ w \in Seq(Nat) /\ b \in Seq(Nat) /\ t \in Seq(Nat)
      /\ s \o w = b \o t /\ Len(s) < Len(b) /\ H <= Len(b)
      /\ Len(s) >= H => d.size = Len(b)
  BY DEF Reading, Partial, Framed
<1>2. Wanted(d) = (IF Len(s) < H THEN H ELSE d.size) - Len(s) /\ a = s \o c
  BY DEF Wanted
<1> HIDE DEF s, c
<1> DEFINE p == Len(s)
           q == Len(b)
           m == Len(w)
           k == (IF p < H THEN H ELSE q) - p
<1>3. p \in Nat /\ m \in Nat /\ q \in Nat /\ H \in Nat /\ p < q /\ H <= q
  BY <1>1, LenProperties DEF H
<1>4. Wanted(d) = k
  <2>1. CASE p < H
    BY <1>2, <2>1
  <2>2. CASE p >= H
    <3>1. ~(p < H) /\ d.size = q
      BY <1>1, <1>3, <2>2
    <3> HIDE DEF p, q
    <3> QED BY <1>2, <3>1 DEF p
  <2> QED BY <1>3, <2>1, <2>2
<1>5. n \in Nat /\ n >= 1 /\ n <= k /\ n <= m /\ n \in 1..m /\ k \in Int
  <2>1. k \in Int /\ m \in Int
    BY <1>3
  <2>2. n \in 1..Min({k, m})
    BY <1>4
  <2> HIDE DEF k, m
  <2>3. Min({k, m}) <= k /\ Min({k, m}) <= m /\ Min({k, m}) \in Int
    BY <2>1, MinOfTwo
  <2> QED BY <2>1, <2>2, <2>3
<1>6. c \in Seq(Nat) /\ Len(c) = n /\ x \in Seq(Nat) /\ c \o x = w
  BY <1>1, <1>5, Halves DEF c, m
<1>7. a \in Seq(Nat) /\ Len(a) = p + n
  <2>1. s \o c \in Seq(Nat) /\ Len(s \o c) = Len(s) + Len(c)
    <3>1. s \in Seq(Nat) /\ c \in Seq(Nat)
      BY <1>1, <1>6
    <3> QED BY ONLY <3>1, ConcatProperties
  <2> QED BY <1>2, <1>6, <2>1
<1>8. a \o x = b \o t
  <2>1. (s \o c) \o x = s \o (c \o x)
    <3>1. s \in Seq(Nat) /\ c \in Seq(Nat) /\ x \in Seq(Nat)
      BY <1>1, <1>6
    <3> QED BY ONLY <3>1, ConcatOfThree
  <2> QED BY <1>1, <1>2, <1>6, <2>1
<1>9. p < Len(a) /\ Len(a) <= q /\ (p < H => Len(a) <= H) /\ Len(a) \in Nat
  <2> HIDE DEF p, q, m
  <2> QED BY <1>3, <1>5, <1>7
<1>10. /\ \A i \in 1..Len(a) : a[i] = b[i]
       /\ Len(a) = Len(b) => a = b /\ x = t
  <2>1. /\ a \in Seq(Nat) /\ x \in Seq(Nat) /\ b \in Seq(Nat) /\ t \in Seq(Nat)
        /\ a \o x = b \o t /\ Len(a) <= Len(b)
    BY <1>1, <1>6, <1>7, <1>8, <1>9
  <2>2. Begins(a, b)
    BY ONLY <2>1, SameBytes
  <2>3. Len(a) = Len(b) => a = b /\ x = t
    BY ONLY <2>1, SameBytes
  <2> QED BY <2>2, <2>3 DEF Begins
<1> QED BY <1>1, <1>3, <1>6, <1>7, <1>8, <1>9, <1>10 DEF s, MoreOf

\* A datagram with those bytes is what the read is to make.
LEMMA ReadMade ==
    ASSUME NEW d, NEW w, NEW b, NEW t, NEW service, Reading(d, w, b, t, service),
           NEW a, NEW x, MoreOf(d, b, t, a, x), NEW e \in Partial, e.bytes = a,
           \/ Len(a) < H /\ e.size \in {0, H}
           \/ Len(a) >= H /\ e.size = Len(b) /\ e.service = service
    PROVE  ReadOf(e, x, b, t, service)
<1> DEFINE m == Len(a)
           q == Len(b)
<1>1. /\ b \in Framed /\ t \in Seq(Nat) /\ H = 6 /\ q >= H
      /\ x \in Seq(Nat) /\ m \in Nat /\ q \in Nat /\ a \o x = b \o t /\ m <= q
      /\ m = q => a = b /\ x = t
  BY DEF Reading, MoreOf, Framed, H
<1>2. /\ Len(e.bytes) = m /\ e.size \in Nat
      /\ m < H => e.size \in {0, H}
      /\ m >= H => e.size = q /\ e.service = service
  BY DEF Partial, H, MoreOf
<1> HIDE DEF m, q
<1>3. e # Oversized
  BY <1>2 DEF Oversized
<1>4. Completed(e) <=> m = q
  BY <1>1, <1>2 DEF Completed
<1>5. CASE m = q
  BY <1>1, <1>2, <1>3, <1>4, <1>5 DEF ReadOf
<1>6. CASE m # q
  <2>1. Len(e.bytes) < Len(b) /\ e.bytes \o x = b \o t
    BY <1>1, <1>2, <1>6 DEF q
  <2>2. /\ Len(e.bytes) < H => e.size \in {0, H}
        /\ Len(e.bytes) >= H => e.size = Len(b) /\ e.service = service
    BY <1>2 DEF q
  <2>3. Reading(e, x, b, t, service)
    BY <1>1, <2>1, <2>2, Zenon DEF Reading
  <2> QED BY <1>3, <1>4, <1>6, <2>3 DEF ReadOf
<1> QED BY <1>5, <1>6

\* The header is read: a has what b begins with.
LEMMA HeaderRead ==
    ASSUME NEW d, NEW w, NEW b, NEW t, NEW service, Reading(d, w, b, t, service),
           NEW a, NEW x, MoreOf(d, b, t, a, x), Len(d.bytes) < H, Len(a) >= H
    PROVE  /\ DecodeSize(a) = Len(b) /\ JavaDecodeSize(a) = Len(b)
           /\ DecodeService(a) = DecodeService(b) /\ JavaDecodeService(a) = JavaDecodeService(b)
           /\ DecodeService(b) \in Int /\ JavaDecodeService(b) \in Int
           /\ Len(b) \in Nat /\ MaxSize \in Nat /\ Len(b) < MaxSize
<1>1. /\ a \in Seq(Nat) /\ Len(a) \in Nat /\ (Len(d.bytes) < H => Len(a) <= H) /\ H = 6
      /\ \A i \in 1..Len(a) : a[i] = b[i]
  BY DEF MoreOf, H
<1>2. Len(a) = 6
  <2> DEFINE m == Len(a)
  <2>1. m \in Nat /\ m <= H /\ m >= H /\ H = 6
    BY <1>1
  <2> HIDE DEF m
  <2>2. m = 6
    BY ONLY <2>1
  <2> QED BY <2>2 DEF m
<1>3. 1 \in 1..6 /\ 2 \in 1..6 /\ 3 \in 1..6 /\ 4 \in 1..6 /\ 5 \in 1..6 /\ 6 \in 1..6
  OBVIOUS
<1>4. a[1] = b[1] /\ a[2] = b[2] /\ a[3] = b[3] /\ a[4] = b[4] /\ a[5] = b[5] /\ a[6] = b[6]
  BY <1>1, <1>2, <1>3
<1>5. b \in Seq(Nat) /\ Len(b) < MaxSize /\ DecodeSize(b) = Len(b) /\ JavaDecodeSize(b) = Len(b)
  BY DEF Reading, Framed
<1>6. DecodeSize(a) = DecodeSize(b) /\ JavaDecodeSize(a) = JavaDecodeSize(b)
  BY <1>4 DEF DecodeSize, JavaDecodeSize
<1>7. DecodeService(a) = DecodeService(b) /\ JavaDecodeService(a) = JavaDecodeService(b)
  BY <1>4 DEF DecodeService, JavaDecodeService
<1>8. a[5] \in Nat /\ a[6] \in Nat
  BY <1>1, <1>2, <1>3, ElementOfSeq
<1>9. b[5] + b[6] * Base \in Int /\ Base2 \in Int
  BY <1>4, <1>8, BaseAssumption DEF Base2
<1>10. DecodeService(b) \in Int /\ JavaDecodeService(b) \in Int
  BY <1>9 DEF DecodeService, JavaDecodeService, Signed
<1>11. Len(b) \in Nat /\ MaxSize \in Nat
  BY <1>5, LenProperties, SizeAssumption
<1> QED BY <1>5, <1>6, <1>7, <1>10, <1>11

\* A read of datagram::recvfrom.
LEMMA ReadIs ==
    ASSUME NEW d, NEW w, NEW b, NEW t, NEW service, service = DecodeService(b), Reading(d, w, b, t, service),
           NEW n, n \in 1..Min({Wanted(d), Len(w)}),
           NEW e, e = Recvfrom(d, SubSeq(w, 1, n)), NEW x, x = SubSeq(w, n + 1, Len(w))
    PROVE  ReadOf(e, x, b, t, service)
<1> DEFINE a == d.bytes \o SubSeq(w, 1, n)
<1>1. e = IF Len(a) < H THEN [d EXCEPT !.bytes = a, !.size = H]
          ELSE IF Len(d.bytes) >= H THEN [d EXCEPT !.bytes = a]
          ELSE IF DecodeSize(a) > MaxSize THEN Oversized
          ELSE [bytes |-> a, size |-> DecodeSize(a), service |-> DecodeService(a)]
  BY DEF Recvfrom
<1>2. a = d.bytes \o SubSeq(w, 1, n)
  OBVIOUS
<1> HIDE DEF a
<1>3. MoreOf(d, b, t, a, x)
  BY <1>2, MoreBytes
<1> DEFINE p == Len(d.bytes)
           m == Len(a)
<1>4. d \in Partial /\ (p >= H => d.size = Len(b) /\ d.service = service) /\ a \in Seq(Nat)
      /\ m \in Nat /\ p \in Nat /\ p < m /\ H = 6
  BY <1>3 DEF Reading, MoreOf, H
<1>5. CASE m < H
  <2>1. e = [d EXCEPT !.bytes = a, !.size = H]
    BY <1>1, <1>5
  <2>2. e \in Partial /\ e.bytes = a /\ e.size = H
    <3>1. H \in Nat
      BY DEF H
    <3> QED BY <1>4, <2>1, <3>1 DEF Partial
  <2>3. e.size \in {0, H}
    BY <2>2
  <2> QED BY <1>3, <1>5, <2>2, <2>3, ReadMade
<1>6. CASE p >= H
  <2>1. ~(m < H) /\ m >= H
    BY <1>4, <1>6
  <2>2. e = [d EXCEPT !.bytes = a]
    BY <1>1, <1>6, <2>1
  <2>3. e \in Partial /\ e.bytes = a /\ e.size = Len(b) /\ e.service = service
    BY <1>4, <1>6, <2>2 DEF Partial
  <2> QED BY <1>3, <2>1, <2>3, ReadMade
<1>7. CASE p < H /\ m >= H
  <2>1. ~(m < H) /\ ~(p >= H)
    BY <1>4, <1>7
  <2>2. /\ DecodeSize(a) = Len(b) /\ DecodeService(a) = service /\ service \in Int
        /\ Len(b) \in Nat /\ ~(Len(b) > MaxSize)
    BY <1>3, <1>7, HeaderRead
  <2>3. e = [bytes |-> a, size |-> Len(b), service |-> service]
    BY <1>1, <2>1, <2>2
  <2>4. e \in Partial /\ e.bytes = a /\ e.size = Len(b) /\ e.service = service
    BY <1>4, <2>2, <2>3 DEF Partial
  <2> QED BY <1>3, <1>7, <2>4, ReadMade
<1> QED BY <1>4, <1>5, <1>6, <1>7

\* A read of the SDK.
LEMMA JavaReadIs ==
    ASSUME NEW d, NEW w, NEW b, NEW t, NEW service, service = JavaDecodeService(b), Reading(d, w, b, t, service),
           NEW n, n \in 1..Min({Wanted(d), Len(w)}),
           NEW e, e = JavaRecvfrom(d, SubSeq(w, 1, n)), NEW x, x = SubSeq(w, n + 1, Len(w))
    PROVE  ReadOf(e, x, b, t, service)
<1> DEFINE a == d.bytes \o SubSeq(w, 1, n)
<1>1. e = IF Len(a) < H \/ Len(d.bytes) >= H THEN [d EXCEPT !.bytes = a]
          ELSE IF JavaDecodeSize(a) > MaxSize \/ JavaDecodeSize(a) < 0 THEN Oversized
          ELSE [bytes |-> a, size |-> JavaDecodeSize(a), service |-> JavaDecodeService(a)]
  BY DEF JavaRecvfrom
<1>2. a = d.bytes \o SubSeq(w, 1, n)
  OBVIOUS
<1> HIDE DEF a
<1>3. MoreOf(d, b, t, a, x)
  BY <1>2, MoreBytes
<1> DEFINE p == Len(d.bytes)
           m == Len(a)
<1>4. d \in Partial /\ (p >= H => d.size = Len(b) /\ d.service = service) /\ (p < H => d.size \in {0, H})
      /\ a \in Seq(Nat) /\ m \in Nat /\ p \in Nat /\ p < m /\ H = 6
  BY <1>3 DEF Reading, MoreOf, H
<1>5. CASE m < H
  <2>1. e = [d EXCEPT !.bytes = a]
    BY <1>1, <1>5
  <2>2. p < H
    <3> HIDE DEF p, m
    <3> QED BY <1>4, <1>5
  <2>3. e \in Partial /\ e.bytes = a /\ e.size \in {0, H}
    BY <1>4, <2>1, <2>2 DEF Partial
  <2> QED BY <1>3, <1>5, <2>3, ReadMade
<1>6. CASE p >= H
  <2>1. m >= H
    BY <1>4, <1>6
  <2>2. e = [d EXCEPT !.bytes = a]
    BY <1>1, <1>6, <2>1
  <2>3. e \in Partial /\ e.bytes = a /\ e.size = Len(b) /\ e.service = service
    BY <1>4, <1>6, <2>2 DEF Partial
  <2> QED BY <1>3, <2>1, <2>3, ReadMade
<1>7. CASE p < H /\ m >= H
  <2>1. ~(m < H) /\ ~(p >= H)
    BY <1>4, <1>7
  <2>2. /\ JavaDecodeSize(a) = Len(b) /\ JavaDecodeService(a) = service /\ service \in Int
        /\ Len(b) \in Nat /\ ~(Len(b) > MaxSize) /\ ~(Len(b) < 0)
    BY <1>3, <1>7, HeaderRead
  <2>3. e = [bytes |-> a, size |-> Len(b), service |-> service]
    BY <1>1, <2>1, <2>2
  <2>4. e \in Partial /\ e.bytes = a /\ e.size = Len(b) /\ e.service = service
    BY <1>4, <2>2, <2>3 DEF Partial
  <2> QED BY <1>3, <1>7, <2>4, ReadMade
<1> QED BY <1>4, <1>5, <1>6, <1>7

-----------------------------------------------------------------------------
(***************************************************************************)
(* A direction of the connection: what an end has put together and what is *)
(* under way are the datagrams on the way, of which there are never more   *)
(* than two.                                                               *)
(***************************************************************************)

Decoded(b, java) == IF java THEN JavaDecodeService(b) ELSE DecodeService(b)

\* r: the datagrams sent and not received yet.
Flow(d, w, r, java) ==
    \/ r = <<>> /\ Fresh(d) /\ w = <<>>
    \/ \E b \in Framed : r = <<b>> /\ Reading(d, w, b, <<>>, Decoded(b, java))
    \/ \E b, c \in Framed : r = <<b, c>> /\ Reading(d, w, b, c, Decoded(b, java))

LEMMA Pair ==
    ASSUME NEW b, NEW c
    PROVE  Append(<<b>>, c) = <<b, c>>
<1> DEFINE S == {b, c}
           s == <<b>>
           p == Append(s, c)
           q == <<b, c>>
<1>1. s \in Seq(S) /\ Len(s) = 1 /\ s[1] = b /\ c \in S
  OBVIOUS
<1> HIDE DEF s
<1>2. p \in Seq(S) /\ Len(p) = 2 /\ p[1] = b /\ p[2] = c
  <2> HIDE DEF S
  <2>1. p \in Seq(S) /\ Len(p) = Len(s) + 1
    BY ONLY <1>1, AppendProperties
  <2>2. p[Len(s) + 1] = c
    BY ONLY <1>1, AppendProperties
  <2>3. p[1] = s[1]
    BY <1>1
  <2> QED BY ONLY <1>1, <2>1, <2>2, <2>3
<1>3. q \in Seq(S) /\ Len(q) = 2 /\ q[1] = b /\ q[2] = c
  OBVIOUS
<1> HIDE DEF p, q
<1>4. \A i \in 1..2 : p[i] = q[i]
  <2>1. \A i \in 1..2 : i = 1 \/ i = 2
    OBVIOUS
  <2> QED BY <1>2, <1>3, <2>1
<1>5. p = q
  BY <1>2, <1>3, <1>4, SeqEqual
<1> QED BY <1>5 DEF p, q, s

LEMMA FramedIs ==
    ASSUME NEW b \in Framed
    PROVE  b \in Seq(Nat) /\ Len(b) \in Nat /\ Len(b) >= H /\ Len(b) < MaxSize /\ H = 6 /\ MaxSize \in Nat
BY LenProperties, SizeAssumption DEF Framed, H

\* The first datagram is sent to an end that has nothing.
LEMMA Begun ==
    ASSUME NEW d, Fresh(d), NEW b \in Framed, NEW service
    PROVE  Reading(d, b, b, <<>>, service)
<1>1. b \in Seq(Nat) /\ Len(b) \in Nat /\ Len(b) >= H /\ H = 6 /\ <<>> \in Seq(Nat) /\ Len(<<>>) = 0
  BY FramedIs
<1>2. d \in Partial /\ d.bytes = <<>> /\ d.size \in {0, H}
  BY DEF Fresh
<1>3. d.bytes \o b = b \o <<>>
  BY <1>1, <1>2, ConcatEmptySeq
<1>4. Len(d.bytes) < Len(b) /\ ~(Len(d.bytes) >= H)
  BY <1>1, <1>2
<1> QED BY <1>1, <1>2, <1>3, <1>4 DEF Reading

\* A datagram is sent.
LEMMA FlowMore ==
    ASSUME NEW d, NEW w, NEW r, NEW java, Flow(d, w, r, java), NEW c \in Framed,
           r = <<>> \/ \E b : r = <<b>>
    PROVE  /\ Flow(d, w \o c, Append(r, c), java)
           /\ w \in Seq(Nat) /\ w \o c \in Seq(Nat)
<1>1. c \in Seq(Nat) /\ Len(c) \in Nat
  BY FramedIs
<1>2. CASE r = <<>>
  <2>1. Fresh(d) /\ w = <<>> /\ Append(r, c) = <<c>>
    BY <1>2 DEF Flow
  <2>2. w \o c = c /\ w \in Seq(Nat)
    BY <1>1, <2>1, ConcatEmptySeq
  <2>3. Reading(d, c, c, <<>>, Decoded(c, java))
    BY <2>1, Begun
  <2>4. Flow(d, c, <<c>>, java)
    BY <2>3 DEF Flow
  <2> QED BY <1>1, <2>1, <2>2, <2>4
<1>3. CASE \E b : r = <<b>>
  <2>1. PICK b \in Framed : r = <<b>> /\ Reading(d, w, b, <<>>, Decoded(b, java))
    BY <1>3 DEF Flow
  <2>2. b \in Seq(Nat)
    BY FramedIs
  <2>3. /\ d \in Partial /\ w \in Seq(Nat) /\ d.bytes \in Seq(Nat)
        /\ d.bytes \o w = b \o <<>> /\ Len(d.bytes) < Len(b)
        /\ Len(d.bytes) < H => d.size \in {0, H}
        /\ Len(d.bytes) >= H => d.size = Len(b) /\ d.service = Decoded(b, java)
    BY <2>1 DEF Reading, Partial
  <2>4. d.bytes \o (w \o c) = b \o c
    <3>1. d.bytes \o w = b
      BY <2>2, <2>3, ConcatEmptySeq
    <3>2. (d.bytes \o w) \o c = d.bytes \o (w \o c)
      <4> DEFINE s == d.bytes
      <4>1. s \in Seq(Nat) /\ w \in Seq(Nat) /\ c \in Seq(Nat)
        BY <1>1, <2>3
      <4> HIDE DEF s
      <4>2. (s \o w) \o c = s \o (w \o c)
        BY ONLY <4>1, ConcatAssociative
      <4> QED BY <4>2 DEF s
    <3> QED BY <3>1, <3>2
  <2>5. w \o c \in Seq(Nat)
    BY <1>1, <2>3
  <2>6. Reading(d, w \o c, b, c, Decoded(b, java))
    BY <1>1, <2>3, <2>4, <2>5 DEF Reading
  <2>7. Append(r, c) = <<b, c>>
    BY <2>1, Pair
  <2> QED BY <2>3, <2>5, <2>6, <2>7 DEF Flow
<1> QED BY <1>2, <1>3

\* A read: how many bytes, what is put together and what stays under way.
ReadStep(d, w, n, e, x, java) ==
    /\ n \in 1..Min({Wanted(d), Len(w)}) /\ x = SubSeq(w, n + 1, Len(w))
    /\ e = IF java THEN JavaRecvfrom(d, SubSeq(w, 1, n)) ELSE Recvfrom(d, SubSeq(w, 1, n))

\* f: a datagram that waits for its first byte.
Taken(e, x, r, f, java) ==
    /\ r # <<>> /\ e # Oversized /\ x \in Seq(Nat)
    /\ Completed(e) => /\ e.bytes = Head(r) /\ e.service = Decoded(Head(r), java)
                       /\ Flow(f, x, Tail(r), java) /\ Head(r) \in Framed
    /\ ~Completed(e) => Flow(e, x, r, java)

\* Something is under way then, and it is put together right.
LEMMA FlowRead ==
    ASSUME NEW d, NEW w, NEW r, NEW java \in BOOLEAN, Flow(d, w, r, java), NEW f, Fresh(f),
           NEW n, NEW e, NEW x, ReadStep(d, w, n, e, x, java)
    PROVE  Taken(e, x, r, f, java)
<1> SUFFICES /\ r # <<>> /\ e # Oversized /\ x \in Seq(Nat)
             /\ Completed(e) => /\ e.bytes = Head(r) /\ e.service = Decoded(Head(r), java)
                                /\ Flow(f, x, Tail(r), java) /\ Head(r) \in Framed
             /\ ~Completed(e) => Flow(e, x, r, java)
  BY DEF Taken
<1> /\ n \in 1..Min({Wanted(d), Len(w)}) /\ x = SubSeq(w, n + 1, Len(w))
    /\ e = IF java THEN JavaRecvfrom(d, SubSeq(w, 1, n)) ELSE Recvfrom(d, SubSeq(w, 1, n))
  BY DEF ReadStep
<1>1. w # <<>>
  <2> SUFFICES ASSUME w = <<>> PROVE FALSE
    OBVIOUS
  <2>1. r = <<>> /\ Fresh(d)
    <3>1. ASSUME NEW b, NEW t, NEW s, Reading(d, w, b, t, s) PROVE FALSE
      <4>1. /\ d.bytes \in Seq(Nat) /\ b \in Seq(Nat) /\ t \in Seq(Nat) /\ d.bytes \o <<>> = b \o t
            /\ Len(d.bytes) < Len(b)
        BY <3>1 DEF Reading, Partial, Framed
      <4>2. d.bytes = b \o t
        BY <4>1, ConcatEmptySeq
      <4>3. Len(b \o t) = Len(b) + Len(t) /\ Len(b) \in Nat /\ Len(t) \in Nat
        BY <4>1, ConcatProperties, LenProperties
      <4> QED BY <4>1, <4>2, <4>3
    <3> QED BY <3>1 DEF Flow
  <2>2. Wanted(d) \in Int /\ Len(w) = 0
    BY <2>1 DEF Wanted, Fresh, Partial, H
  <2>3. Min({Wanted(d), Len(w)}) <= 0 /\ Min({Wanted(d), Len(w)}) \in Int
    <3> DEFINE k == Wanted(d)
               l == Len(w)
    <3>1. k \in Int /\ l \in Int /\ l = 0
      BY <2>2
    <3> HIDE DEF k, l
    <3>2. Min({k, l}) <= l /\ Min({k, l}) \in {k, l}
      BY <3>1, MinOfTwo
    <3>3. Min({k, l}) <= 0 /\ Min({k, l}) \in Int
      BY <3>1, <3>2
    <3> QED BY <3>3 DEF k, l
  <2> QED BY <2>3
<1>2. r # <<>>
  <2>1. ASSUME NEW b, NEW c PROVE <<b>> # <<>> /\ <<b, c>> # <<>>
    <3>1. Len(<<b>>) = 1 /\ Len(<<b, c>>) = 2 /\ Len(<<>>) = 0
      OBVIOUS
    <3> QED BY <3>1
  <2> QED BY <1>1, <2>1 DEF Flow
<1>3. ASSUME NEW b, NEW t, Reading(d, w, b, t, Decoded(b, java)) PROVE ReadOf(e, x, b, t, Decoded(b, java))
  <2>1. CASE java
    <3>1. Decoded(b, java) = JavaDecodeService(b) /\ e = JavaRecvfrom(d, SubSeq(w, 1, n))
      BY <2>1 DEF Decoded
    <3> QED BY <1>3, <3>1, JavaReadIs
  <2>2. CASE ~java
    <3>1. Decoded(b, java) = DecodeService(b) /\ e = Recvfrom(d, SubSeq(w, 1, n))
      BY <2>2 DEF Decoded
    <3> QED BY <1>3, <3>1, ReadIs
  <2> QED BY <2>1, <2>2
<1>4. CASE \E b \in Framed : r = <<b>> /\ Reading(d, w, b, <<>>, Decoded(b, java))
  <2>1. PICK b \in Framed : r = <<b>> /\ Reading(d, w, b, <<>>, Decoded(b, java))
    BY <1>4
  <2>2. ReadOf(e, x, b, <<>>, Decoded(b, java)) /\ Head(r) = b /\ Tail(r) = <<>>
    BY <1>3, <2>1
  <2>3. CASE Completed(e)
    <3>1. e.bytes = b /\ e.service = Decoded(b, java) /\ x = <<>> /\ e # Oversized
      BY <2>2, <2>3 DEF ReadOf
    <3>2. Flow(f, x, Tail(r), java)
      BY <2>2, <3>1 DEF Flow
    <3>3. x \in Seq(Nat) /\ Head(r) \in Framed
      BY <2>2, <3>1, EmptySeq
    <3> QED BY <1>2, <2>2, <2>3, <3>1, <3>2, <3>3
  <2>4. CASE ~Completed(e)
    <3>1. Reading(e, x, b, <<>>, Decoded(b, java)) /\ e # Oversized
      BY <2>2, <2>4 DEF ReadOf
    <3>2. Flow(e, x, r, java) /\ x \in Seq(Nat)
      BY <2>1, <3>1 DEF Flow, Reading
    <3> QED BY <1>2, <2>4, <3>1, <3>2
  <2> QED BY <2>3, <2>4
<1>5. CASE \E b, c \in Framed : r = <<b, c>> /\ Reading(d, w, b, c, Decoded(b, java))
  <2>1. PICK b \in Framed, c \in Framed : r = <<b, c>> /\ Reading(d, w, b, c, Decoded(b, java))
    BY <1>5
  <2>2. ReadOf(e, x, b, c, Decoded(b, java)) /\ Head(r) = b /\ Tail(r) = <<c>>
    BY <1>3, <2>1
  <2>3. CASE Completed(e)
    <3>1. e.bytes = b /\ e.service = Decoded(b, java) /\ x = c /\ e # Oversized
      BY <2>2, <2>3 DEF ReadOf
    <3>2. Reading(f, c, c, <<>>, Decoded(c, java)) /\ c \in Seq(Nat)
      BY Begun, FramedIs
    <3>3. Flow(f, x, Tail(r), java)
      BY <2>2, <3>1, <3>2 DEF Flow
    <3> QED BY <1>2, <2>2, <2>3, <3>1, <3>2, <3>3
  <2>4. CASE ~Completed(e)
    <3>1. Reading(e, x, b, c, Decoded(b, java)) /\ e # Oversized
      BY <2>2, <2>4 DEF ReadOf
    <3>2. Flow(e, x, r, java) /\ x \in Seq(Nat)
      BY <2>1, <3>1 DEF Flow, Reading
    <3> QED BY <1>2, <2>4, <3>1, <3>2
  <2> QED BY <2>3, <2>4
<1> QED BY <1>2, <1>4, <1>5 DEF Flow

\* The sizes are below the bound.
LEMMA FlowTyped ==
    ASSUME NEW d, NEW w, NEW r, NEW java, Flow(d, w, r, java)
    PROVE  d \in Partial /\ d.size \in 0..MaxSize - 1 /\ w \in Seq(Nat)
<1>1. MaxSize \in Nat /\ MaxSize > H /\ H = 6
  BY SizeAssumption DEF H
<1>2. ASSUME NEW b, NEW t, NEW s, Reading(d, w, b, t, s) PROVE d \in Partial /\ d.size \in 0..MaxSize - 1 /\ w \in Seq(Nat)
  <2>1. /\ d \in Partial /\ w \in Seq(Nat) /\ b \in Framed /\ Len(d.bytes) \in Nat
        /\ Len(d.bytes) < H => d.size \in {0, H}
        /\ Len(d.bytes) >= H => d.size = Len(b)
    BY <1>2, LenProperties DEF Reading, Partial
  <2>2. Len(b) \in Nat /\ Len(b) < MaxSize
    BY <2>1, FramedIs
  <2>3. d.size \in {0, H} \/ d.size = Len(b)
    BY <1>1, <2>1
  <2> QED BY <1>1, <2>1, <2>2, <2>3
<1>3. ASSUME Fresh(d), w = <<>> PROVE d \in Partial /\ d.size \in 0..MaxSize - 1 /\ w \in Seq(Nat)
  BY <1>1, <1>3 DEF Fresh
<1> QED BY <1>2, <1>3 DEF Flow

-----------------------------------------------------------------------------
(***************************************************************************)
(* What was sent and what was received.                                    *)
(***************************************************************************)

LEMMA PrefixOf ==
    ASSUME NEW V, NEW g \in Seq(V), NEW r \in Seq(V)
    PROVE  IsPrefix(g, g \o r)
<1> DEFINE s == g \o r
           n == Len(g)
<1>1. /\ s \in Seq(V) /\ Len(s) = n + Len(r) /\ n \in Nat /\ Len(r) \in Nat
      /\ \A i \in 1..n : s[i] = g[i]
  BY Joined
<1>2. \A i \in 1..n : g[i] \in V /\ s[i] \in V
  BY <1>1, ElementOfSeq
<1> HIDE DEF s, n
<1>3. /\ SubSeq(s, 1, n) \in Seq(V) /\ Len(SubSeq(s, 1, n)) = (IF 1 <= n THEN n - 1 + 1 ELSE 0)
      /\ \A i \in 1..(n - 1 + 1) : SubSeq(s, 1, n)[i] = s[1 + i - 1]
  BY <1>1, <1>2, SubSeqProperties
<1>4. /\ SubSeq(g, 1, n) \in Seq(V) /\ Len(SubSeq(g, 1, n)) = (IF 1 <= n THEN n - 1 + 1 ELSE 0)
      /\ \A i \in 1..(n - 1 + 1) : SubSeq(g, 1, n)[i] = g[1 + i - 1]
  BY <1>1, <1>2, SubSeqProperties
<1> DEFINE p == SubSeq(s, 1, n)
           q == SubSeq(g, 1, n)
<1>5. p \in Seq(V) /\ q \in Seq(V) /\ Len(p) = n /\ Len(q) = n
  BY <1>1, <1>3, <1>4
<1>6. ASSUME NEW i \in 1..n PROVE p[i] = q[i]
  <2>1. i \in 1..(n - 1 + 1) /\ 1 + i - 1 = i
    BY <1>1
  <2>2. p[i] = s[i] /\ q[i] = g[i]
    BY <1>3, <1>4, <2>1
  <2> QED BY <1>1, <2>2
<1> HIDE DEF p, q
<1>7. p = q
  BY <1>5, <1>6, SeqEqual
<1> QED BY <1>1, <1>7 DEF IsPrefix, p, q, s, n

\* A prefix is one of a longer sequence.
LEMMA PrefixKept ==
    ASSUME NEW V, NEW g \in Seq(V), NEW s \in Seq(V), IsPrefix(g, s), NEW x \in V
    PROVE  IsPrefix(g, Append(s, x))
<1> DEFINE n == Len(g)
           m == Len(s)
           r == SubSeq(s, n + 1, m)
<1>1. n \in Nat /\ m \in Nat /\ n <= m /\ SubSeq(g, 1, n) = SubSeq(s, 1, n)
  BY LenProperties DEF IsPrefix
<1>2. \A i \in 1..m : s[i] \in V
  BY ElementOfSeq
<1>3. SubSeq(s, 1, n) \o SubSeq(s, n + 1, m) = SubSeq(s, 1, m)
  <2>1. 1 \in 1..(m + 1) /\ n \in (1 - 1)..m /\ m \in n..m
    BY <1>1
  <2> QED BY <2>1, ConcatAdjacentSubSeq
<1>4. SubSeq(g, 1, n) = g /\ SubSeq(s, 1, m) = s
  BY SubSeqFull
<1>5. s = g \o r
  BY <1>1, <1>3, <1>4
<1>6. r \in Seq(V)
  <2>1. \A i \in (n + 1)..m : s[i] \in V
    BY <1>1, <1>2
  <2> HIDE DEF n, m
  <2> QED BY <1>1, <2>1, SubSeqProperties
<1> HIDE DEF r
<1>7. Append(s, x) = g \o Append(r, x)
  <2>1. Append(s, x) = s \o <<x>> /\ Append(r, x) = r \o <<x>> /\ <<x>> \in Seq(V)
    BY <1>6, AppendIsConcat
  <2>2. (g \o r) \o <<x>> = g \o (r \o <<x>>)
    <3> DEFINE y == <<x>>
    <3>1. y \in Seq(V) /\ g \in Seq(V) /\ r \in Seq(V)
      BY <1>6, <2>1
    <3> HIDE DEF y
    <3>2. (g \o r) \o y = g \o (r \o y)
      BY ONLY <3>1, ConcatAssociative
    <3> QED BY <3>2 DEF y
  <2> QED BY <1>5, <2>1, <2>2
<1>8. Append(r, x) \in Seq(V)
  BY <1>6, AppendProperties
<1>9. IsPrefix(g, g \o Append(r, x))
  BY <1>8, PrefixOf
<1> QED BY <1>7, <1>9

\* One more on the way.
LEMMA RestMore ==
    ASSUME NEW V, NEW g \in Seq(V), NEW r \in Seq(V), NEW x \in V
    PROVE  Append(g \o r, x) = g \o Append(r, x) /\ Append(r, x) \in Seq(V)
<1> DEFINE s == g \o r
           y == <<x>>
<1>1. s \in Seq(V) /\ y \in Seq(V)
  BY ConcatProperties
<1>2. Append(r, x) = r \o y /\ Append(r, x) \in Seq(V)
  BY AppendIsConcat, AppendProperties
<1>3. Append(s, x) = s \o y
  <2> HIDE DEF s
  <2> QED BY <1>1, AppendIsConcat
<1> HIDE DEF y
<1>4. (g \o r) \o y = g \o (r \o y)
  BY <1>1, ConcatAssociative
<1> QED BY <1>2, <1>3, <1>4

\* One less.
LEMMA RestLess ==
    ASSUME NEW V, NEW g \in Seq(V), NEW r \in Seq(V), r # <<>>
    PROVE  /\ g \o r = Append(g, Head(r)) \o Tail(r)
           /\ Head(r) \in V /\ Tail(r) \in Seq(V) /\ Append(g, Head(r)) \in Seq(V)
<1> DEFINE x == Head(r)
           t == Tail(r)
           y == <<x>>
<1>1. x \in V /\ t \in Seq(V)
  BY HeadTailProperties
<1>2. y \in Seq(V) /\ Len(y) = 1 /\ y[1] = x
  <2> HIDE DEF x
  <2> QED BY <1>1
<1>3. Append(g, x) = g \o y /\ Append(g, x) \in Seq(V)
  <2> HIDE DEF x
  <2> QED BY <1>1, AppendIsConcat, AppendProperties
<1>4. r = y \o t
  <2>1. /\ Len(t) = Len(r) - 1 /\ Len(r) \in Nat /\ Len(r) >= 1 /\ r[1] = x
        /\ \A i \in 1..Len(t) : t[i] = r[i + 1]
    BY HeadTailProperties, EmptySeq
  <2> HIDE DEF x, t, y
  <2> DEFINE c == y \o t
  <2>2. /\ c \in Seq(V) /\ Len(c) = Len(y) + Len(t)
        /\ \A i \in 1..Len(y) : c[i] = y[i]
        /\ \A i \in 1..Len(t) : c[Len(y) + i] = t[i]
    <3>1. y \in Seq(V) /\ t \in Seq(V)
      BY <1>1, <1>2
    <3> QED BY ONLY <3>1, Joined
  <2> HIDE DEF c
  <2>3. Len(c) = Len(r)
    BY <1>2, <2>1, <2>2
  <2>4. ASSUME NEW i \in 1..Len(r) PROVE r[i] = c[i]
    <3>1. CASE i = 1
      <4>1. c[1] = y[1]
        BY <1>2, <2>2
      <4> QED BY <1>2, <2>1, <3>1, <4>1
    <3>2. CASE i # 1
      <4>1. i - 1 \in 1..Len(t) /\ 1 + (i - 1) = i /\ (i - 1) + 1 = i
        BY <2>1, <3>2
      <4>2. c[1 + (i - 1)] = t[i - 1]
        BY <1>2, <2>2, <4>1
      <4>3. t[i - 1] = r[i]
        BY <2>1, <4>1
      <4> QED BY <4>1, <4>2, <4>3
    <3> QED BY <3>1, <3>2
  <2>5. r = c
    BY <2>2, <2>3, <2>4, SeqEqual
  <2> QED BY <2>5 DEF c
<1> HIDE DEF x, t, y
<1>5. (g \o y) \o t = g \o (y \o t)
  BY <1>1, <1>2, ConcatAssociative
<1> QED BY <1>1, <1>3, <1>4, <1>5 DEF x, t

-----------------------------------------------------------------------------
(***************************************************************************)
(* The invariant.                                                          *)
(***************************************************************************)

Sequences == Seq(Seq(Nat))

\* The datagrams of a dialogue and of an ask.
TheRequest == JavaDatagram(IdRequest, << <<1>> >>)
TheChallenge == NewDatagram(PeerChallenge, <<DaemonKey, 1, 2>>)
TheResponse == JavaDatagram(ChallengeResponse, << <<SdkKey>>, <<2>> >>)
AskOf(text) == JavaDatagram(Request, text)
AnswerTo(text) == NewDatagram(Response, Cut(text))

\* The types of the variables.
SdkTypes ==
    /\ SessionTypeOK
    /\ asked \in Seq(Texts) /\ answers \in Sequences /\ job \in Sequences
    /\ sent \in [up : Sequences, down : Sequences] /\ got \in [up : Sequences, down : Sequences]

\* An ask ends with an error, or with the answer to what was asked.
AnswersOK ==
    /\ Len(asked) = Len(answers) + (IF at = "idle" THEN 0 ELSE 1)
    /\ \A k \in 1..Len(answers) :
         answers[k] # Error => answers[k] = Cut(asked[k]) /\ jstage = "verified"

PrefixOK == IsPrefix(got.up, sent.up) /\ IsPrefix(got.down, sent.down)

\* Before the first connection.
UnconnectedOK ==
    /\ sock = "none" <=> peer = "none"
    /\ sock = "none" => /\ up = <<>> /\ down = <<>> /\ sent.up = <<>> /\ got.up = <<>>
                        /\ sent.down = <<>> /\ got.down = <<>>
                        /\ job = <<>> /\ Fresh(dcurd) /\ jstage = "anonymous" /\ at = "idle"

\* On the way up is u, and down v, as long as who reads it is there.
UpOK(u) == /\ u \in Sequences
           /\ peer = "open" => sent.up = got.up \o u /\ Flow(dcurd, up, u, FALSE)
DownOK(v) == /\ v \in Sequences
             /\ sock = "open" => sent.down = got.down \o v /\ Flow(curd, down, v, TRUE)

\* One ask at a time is on its way: up, at a worker or down.
AskUnderWay(text, u, v) ==
    \/ u \in {<<AskOf(text)>>, <<TheResponse, AskOf(text)>>} /\ v = <<>> /\ job = <<>>
    \/ u = <<>> /\ v = <<>> /\ job = <<Cut(text)>>
    \/ u = <<>> /\ v = <<AnswerTo(text)>> /\ job = <<>>

\* As long as its end is open, the SDK has on its way what it waits for.
DialogueOf(u, v) ==
    /\ at = "auth" => /\ jmsg = 1 /\ jstage = "anonymous" /\ v \in {<<>>, <<TheChallenge>>}
                      /\ peer = "open" => /\ job = <<>>
                                          /\ \/ u = <<TheRequest>> /\ v = <<>>
                                             \/ u = <<>> /\ v = <<TheChallenge>>
    /\ at \in {"idle", "send"} => /\ v = <<>>
                                  /\ peer = "open" => job = <<>> /\ u \in {<<>>, <<TheResponse>>}
    /\ at = "recv" => /\ v \in {<<>>, <<AnswerTo(Last(asked))>>}
                      /\ peer = "open" => AskUnderWay(Last(asked), u, v)
    /\ at # "auth" => jstage = "verified"

SdkInv(u, v) ==
    /\ SdkTypes /\ AnswersOK /\ PrefixOK /\ UnconnectedOK
    /\ UpOK(u) /\ DownOK(v)
    /\ sock = "open" => DialogueOf(u, v)

LEMMA EmptyIsFresh == Fresh(Empty) /\ Fresh(JavaEmpty)
<1>1. <<>> \in Seq(Nat) /\ H = 6
  BY EmptySeq DEF H
<1> QED BY <1>1 DEF Fresh, Empty, JavaEmpty, Partial

LEMMA SmallSizes ==
    ASSUME NEW d, Fresh(d)
    PROVE  d \in Partial /\ d.size \in 0..MaxSize - 1
BY SizeAssumption DEF Fresh, H

\* The dialogue begins with nothing on the way.
LEMMA SdkStarts == SessionInit => SdkInv(<<>>, <<>>)
<1> SUFFICES ASSUME SessionInit PROVE SdkInv(<<>>, <<>>)
  OBVIOUS
<1> USE DEF SessionInit, SdkInit, DaemonInit
<1>1. Fresh(curd) /\ Fresh(dcurd)
  BY EmptyIsFresh
<1>2. <<>> \in Seq(Nat) /\ <<>> \in Sequences /\ <<>> \in Seq(Texts) /\ Len(<<>>) = 0
  BY EmptySeq DEF Sequences
<1>3. SessionTypeOK
  <2>1. /\ curd \in Partial /\ dcurd \in Partial
        /\ curd.size \in 0..MaxSize - 1 /\ dcurd.size \in 0..MaxSize - 1
    BY <1>1, SmallSizes
  <2>2. Len(asked) \in Len(answers)..(Len(answers) + 1)
    BY <1>2
  <2> QED BY <1>2, <2>1, <2>2 DEF SessionTypeOK
<1>4. SdkTypes
  BY <1>2, <1>3 DEF SdkTypes
<1>5. AnswersOK
  BY <1>2 DEF AnswersOK
<1>6. PrefixOK
  <2>1. IsPrefix(<<>>, <<>>)
    BY <1>2 DEF IsPrefix
  <2> QED BY <2>1 DEF PrefixOK
<1>7. UnconnectedOK
  BY <1>1 DEF UnconnectedOK
<1>8. UpOK(<<>>) /\ DownOK(<<>>)
  BY <1>2 DEF UpOK, DownOK
<1> QED BY <1>4, <1>5, <1>6, <1>7, <1>8 DEF SdkInv

\* What the properties say follows.
LEMMA SdkInvImplies ==
    ASSUME NEW u, NEW v, SdkInv(u, v)
    PROVE  WholeDatagrams /\ AnswersItsAsk
<1>1. WholeDatagrams
  BY DEF SdkInv, SdkTypes, PrefixOK, WholeDatagrams
<1>2. AnswersItsAsk
  <2>1. /\ answers \in Sequences /\ asked \in Seq(Texts)
        /\ Len(asked) = Len(answers) + (IF at = "idle" THEN 0 ELSE 1)
    BY DEF SdkInv, SdkTypes, AnswersOK
  <2>2. /\ DOMAIN answers = 1..Len(answers) /\ Len(answers) \in Nat /\ Len(asked) \in Nat
        /\ \A k \in 1..Len(asked) : asked[k] \in Texts
    <3>1. DOMAIN answers = 1..Len(answers) /\ Len(answers) \in Nat
      BY <2>1, LenProperties DEF Sequences
    <3>2. Len(asked) \in Nat /\ \A k \in 1..Len(asked) : asked[k] \in Texts
      BY <2>1, LenProperties, ElementOfSeq
    <3> QED BY <3>1, <3>2
  <2> SUFFICES ASSUME NEW k \in 1..Len(answers), answers[k] # Error
               PROVE  /\ Ascii(asked[k]) => answers[k] = GetBytes(asked[k])
                      /\ answers[k][1] = GetBytes(asked[k])[1]
                      /\ jstage = "verified"
    BY <2>2 DEF AnswersItsAsk
  <2>3. asked[k] \in Texts
    <3>1. k \in 1..Len(asked)
      BY <2>1, <2>2
    <3> QED BY <2>2, <3>1
  <2>4. answers[k] = Cut(asked[k]) /\ jstage = "verified"
    BY DEF SdkInv, AnswersOK
  <2>5. /\ Ascii(asked[k]) => Cut(asked[k]) = GetBytes(asked[k])
        /\ Cut(asked[k]) # <<>> => Cut(asked[k])[1] = GetBytes(asked[k])[1]
    BY <2>3, CutIs
  <2> QED BY <2>4, <2>5 DEF Error
<1> QED BY <1>1, <1>2

-----------------------------------------------------------------------------
(***************************************************************************)
(* Asks and answers.                                                       *)
(***************************************************************************)

\* An ask begins.
LEMMA AskBegins ==
    ASSUME AnswersOK, asked \in Seq(Texts), answers \in Sequences, at = "idle",
           NEW text \in Texts, asked' = Append(asked, text), answers' = answers,
           at' # "idle", jstage' = jstage
    PROVE  /\ AnswersOK' /\ asked' \in Seq(Texts) /\ answers' \in Sequences
           /\ Last(asked') = text /\ Len(asked)' \in Len(answers)'..(Len(answers)' + 1)
<1>1. /\ Len(asked) = Len(answers) /\ Len(answers) \in Nat
      /\ \A k \in 1..Len(answers) : answers[k] # Error => answers[k] = Cut(asked[k]) /\ jstage = "verified"
  BY LenProperties DEF AnswersOK, Sequences
<1>2. /\ Append(asked, text) \in Seq(Texts) /\ Len(Append(asked, text)) = Len(asked) + 1
      /\ \A k \in 1..Len(asked) : Append(asked, text)[k] = asked[k]
      /\ Append(asked, text)[Len(asked) + 1] = text
  BY AppendProperties
<1>3. Len(asked') = Len(answers') + 1
  BY <1>1, <1>2
<1>4. ASSUME NEW k \in 1..Len(answers'), answers'[k] # Error
      PROVE  answers'[k] = Cut(asked'[k]) /\ jstage' = "verified"
  <2>1. k \in 1..Len(answers) /\ k \in 1..Len(asked) /\ answers[k] # Error
    BY <1>1, <1>4
  <2>2. asked'[k] = asked[k]
    BY <1>2, <2>1
  <2>3. answers[k] = Cut(asked[k]) /\ jstage = "verified"
    BY <1>1, <2>1
  <2> QED BY <2>2, <2>3
<1>5. AnswersOK'
  BY <1>3, <1>4 DEF AnswersOK
<1>6. Last(asked') = text
  BY <1>2 DEF Last
<1>7. Len(asked)' \in Len(answers)'..(Len(answers)' + 1)
  BY <1>1, <1>3
<1> QED BY <1>2, <1>5, <1>6, <1>7

\* An ask ends.
LEMMA AskEnds ==
    ASSUME AnswersOK, asked \in Seq(Texts), answers \in Sequences, at # "idle",
           NEW e \in Seq(Nat), e # Error => e = Cut(Last(asked)) /\ jstage' = "verified",
           asked' = asked, answers' = Append(answers, e), at' = "idle",
           jstage = "verified" => jstage' = "verified"
    PROVE  /\ AnswersOK' /\ asked' \in Seq(Texts) /\ answers' \in Sequences
           /\ Len(asked)' \in Len(answers)'..(Len(answers)' + 1)
<1> DEFINE m == Len(answers)
<1>1. /\ Len(asked) = m + 1 /\ m \in Nat
      /\ \A k \in 1..m : answers[k] # Error => answers[k] = Cut(asked[k]) /\ jstage = "verified"
  BY LenProperties DEF AnswersOK, Sequences
<1>2. /\ answers' \in Sequences /\ Len(answers') = m + 1
      /\ \A k \in 1..m : answers'[k] = answers[k]
      /\ answers'[m + 1] = e
  BY AppendProperties DEF Sequences
<1> HIDE DEF m
<1>3. Last(asked) = asked[m + 1]
  BY <1>1 DEF Last
<1>4. ASSUME NEW k \in 1..(m + 1), answers'[k] # Error
      PROVE  answers'[k] = Cut(asked'[k]) /\ jstage' = "verified"
  <2>1. CASE k = m + 1
    BY <1>2, <1>3, <1>4, <2>1
  <2>2. CASE k # m + 1
    <3>1. k \in 1..m
      BY <1>1, <2>2
    <3>2. answers[k] # Error /\ answers'[k] = answers[k]
      BY <1>2, <1>4, <3>1
    <3> QED BY <1>1, <3>1, <3>2
  <2> QED BY <2>1, <2>2
<1>5. AnswersOK'
  BY <1>1, <1>2, <1>4 DEF AnswersOK
<1>6. Len(asked') \in Len(answers')..(Len(answers') + 1)
  BY <1>1, <1>2
<1> QED BY <1>2, <1>5, <1>6

\* An ask ends at once: nobody listens.
LEMMA AskRefused ==
    ASSUME AnswersOK, asked \in Seq(Texts), answers \in Sequences, at = "idle",
           NEW text \in Texts, asked' = Append(asked, text), answers' = Append(answers, Error),
           at' = "idle", jstage' = jstage
    PROVE  /\ AnswersOK' /\ asked' \in Seq(Texts) /\ answers' \in Sequences
           /\ Len(asked)' \in Len(answers)'..(Len(answers)' + 1)
<1> DEFINE m == Len(answers)
<1>1. /\ Len(asked) = m /\ m \in Nat
      /\ \A k \in 1..m : answers[k] # Error => answers[k] = Cut(asked[k]) /\ jstage = "verified"
  BY LenProperties DEF AnswersOK, Sequences
<1>2. /\ answers' \in Sequences /\ Len(answers') = m + 1
      /\ \A k \in 1..m : answers'[k] = answers[k]
      /\ answers'[m + 1] = Error
  <2>1. Error \in Seq(Nat)
    BY EmptySeq DEF Error
  <2> QED BY <2>1, AppendProperties DEF Sequences
<1>3. /\ asked' \in Seq(Texts) /\ Len(asked') = Len(asked) + 1
      /\ \A k \in 1..Len(asked) : asked'[k] = asked[k]
  BY AppendProperties
<1> HIDE DEF m
<1>4. ASSUME NEW k \in 1..(m + 1), answers'[k] # Error
      PROVE  answers'[k] = Cut(asked'[k]) /\ jstage' = "verified"
  <2>1. k # m + 1
    BY <1>2, <1>4
  <2>2. k \in 1..m /\ k \in 1..Len(asked)
    BY <1>1, <2>1
  <2>3. answers[k] # Error /\ answers'[k] = answers[k] /\ asked'[k] = asked[k]
    BY <1>2, <1>3, <1>4, <2>2
  <2> QED BY <1>1, <2>2, <2>3
<1>5. AnswersOK'
  BY <1>1, <1>2, <1>3, <1>4 DEF AnswersOK
<1>6. Len(asked') \in Len(answers')..(Len(answers') + 1)
  BY <1>1, <1>2, <1>3
<1> QED BY <1>2, <1>3, <1>5, <1>6

-----------------------------------------------------------------------------
(***************************************************************************)
(* The steps.                                                              *)
(***************************************************************************)

\* Parts that depend on what a step leaves alone.
LEMMA FlowsKept ==
    ASSUME NEW u, NEW v, UpOK(u), DownOK(v), PrefixOK,
           UNCHANGED <<up, down, sent, got>>,
           peer' = "open" => peer = "open" /\ dcurd' = dcurd,
           sock' = "open" => sock = "open" /\ curd' = curd
    PROVE  UpOK(u)' /\ DownOK(v)' /\ PrefixOK'
BY DEF UpOK, DownOK, PrefixOK

LEMMA ConnectRefusedStep ==
    ASSUME NEW u, NEW v, SdkInv(u, v), NEW text \in Texts, ConnectRefused(text)
    PROVE  SdkInv(u, v)'
<1> USE DEF ConnectRefused, Ask, Finish, Connected, daemon
<1>1. AnswersOK' /\ asked' \in Seq(Texts) /\ answers' \in Sequences
      /\ Len(asked)' \in Len(answers)'..(Len(answers)' + 1)
  BY AskRefused DEF SdkInv, SdkTypes
<1>2. SdkTypes'
  BY <1>1 DEF SdkInv, SdkTypes, SessionTypeOK
<1>3. UpOK(u)' /\ DownOK(v)' /\ PrefixOK'
  <2>1. UNCHANGED <<up, down, sent, got, peer, dcurd, sock, curd>>
    OBVIOUS
  <2> QED BY ONLY <2>1, SdkInv(u, v), FlowsKept DEF SdkInv
<1>4. UnconnectedOK'
  BY DEF SdkInv, UnconnectedOK
<1> QED BY <1>1, <1>2, <1>3, <1>4 DEF SdkInv

LEMMA AskAgainStep ==
    ASSUME NEW u, NEW v, SdkInv(u, v), NEW text \in Texts, AskAgain(text)
    PROVE  SdkInv(u, v)'
<1> USE DEF AskAgain, Ask, Connected, daemon
<1>1. /\ AnswersOK' /\ asked' \in Seq(Texts) /\ answers' \in Sequences
      /\ Len(asked)' \in Len(answers)'..(Len(answers)' + 1)
  BY AskBegins DEF SdkInv, SdkTypes
<1>2. SdkTypes'
  BY <1>1 DEF SdkInv, SdkTypes, SessionTypeOK
<1>3. UpOK(u)' /\ DownOK(v)' /\ PrefixOK'
  <2>1. UNCHANGED <<up, down, sent, got, peer, dcurd, sock, curd>>
    OBVIOUS
  <2> QED BY ONLY <2>1, SdkInv(u, v), FlowsKept DEF SdkInv
<1>4. UnconnectedOK'
  BY DEF SdkInv, UnconnectedOK
<1>5. ASSUME sock' = "open" PROVE DialogueOf(u, v)'
  <2>1. DialogueOf(u, v) /\ at = "idle" /\ at' = "send" /\ UNCHANGED <<jstage, peer, job>>
    BY <1>5 DEF SdkInv
  <2> QED BY ONLY <2>1 DEF DialogueOf
<1> QED BY <1>1, <1>2, <1>3, <1>4, <1>5 DEF SdkInv

LEMMA ClientReadFailsStep ==
    ASSUME NEW u, NEW v, SdkInv(u, v), ClientReadFails
    PROVE  SdkInv(u, v)'
<1> USE DEF ClientReadFails, Fail, Finish, Waiting, daemon
<1>1. /\ AnswersOK' /\ asked' \in Seq(Texts) /\ answers' \in Sequences
      /\ Len(asked)' \in Len(answers)'..(Len(answers)' + 1)
  <2>1. Error \in Seq(Nat) /\ at # "idle"
    BY EmptySeq DEF Error
  <2>2. AnswersOK /\ asked \in Seq(Texts) /\ answers \in Sequences
    BY DEF SdkInv, SdkTypes
  <2>3. asked' = asked /\ answers' = Append(answers, Error) /\ at' = "idle" /\ jstage' = jstage
    OBVIOUS
  <2> QED BY ONLY <2>1, <2>2, <2>3, AskEnds
<1>2. SdkTypes'
  BY <1>1 DEF SdkInv, SdkTypes, SessionTypeOK
<1>3. UpOK(u)' /\ DownOK(v)' /\ PrefixOK'
  <2>1. UNCHANGED <<up, down, sent, got, peer, dcurd, curd>> /\ sock' = "closed"
    OBVIOUS
  <2> QED BY ONLY <2>1, SdkInv(u, v), FlowsKept DEF SdkInv
<1>4. UnconnectedOK'
  BY DEF SdkInv, UnconnectedOK
<1> QED BY <1>1, <1>2, <1>3, <1>4 DEF SdkInv

LEMMA DaemonClosesStep ==
    ASSUME NEW u, NEW v, SdkInv(u, v), DaemonCloses
    PROVE  SdkInv(u, v)'
<1> USE DEF DaemonCloses, sdk
<1>1. SdkTypes'
  <2>1. Empty \in Partial /\ Empty.size \in 0..MaxSize - 1
    BY EmptyIsFresh, SmallSizes
  <2>2. <<>> \in Sequences
    BY EmptySeq DEF Sequences
  <2> QED BY <2>1, <2>2 DEF SdkInv, SdkTypes, SessionTypeOK
<1>2. AnswersOK'
  BY DEF SdkInv, AnswersOK
<1>3. UpOK(u)' /\ DownOK(v)' /\ PrefixOK'
  <2>1. UNCHANGED <<up, down, sent, got, sock, curd>> /\ peer' = "closed"
    OBVIOUS
  <2> QED BY ONLY <2>1, SdkInv(u, v), FlowsKept DEF SdkInv
<1>4. UnconnectedOK'
  BY DEF SdkInv, UnconnectedOK
<1>5. ASSUME sock' = "open" PROVE DialogueOf(u, v)'
  <2>1. DialogueOf(u, v) /\ peer' = "closed" /\ UNCHANGED <<at, jmsg, jstage, asked>>
    BY <1>5 DEF SdkInv
  <2> QED BY ONLY <2>1 DEF DialogueOf
<1> QED BY <1>1, <1>2, <1>3, <1>4, <1>5 DEF SdkInv

\* Sizes of what the two ends say.
LEMMA Said ==
    /\ TheRequest \in Seq(Nat) /\ (Len(TheRequest) < MaxSize => TheRequest \in Framed)
    /\ DecodeService(TheRequest) = IdRequest /\ ParseString(TheRequest)[1] = 1
    /\ TheChallenge \in Seq(Nat) /\ (Len(TheChallenge) < MaxSize => TheChallenge \in Framed)
    /\ JavaDecodeService(TheChallenge) = PeerChallenge
    /\ JavaParseString(TheChallenge) = <<DaemonKey, 1, 2>>
    /\ TheResponse \in Seq(Nat) /\ (Len(TheResponse) < MaxSize => TheResponse \in Framed)
    /\ DecodeService(TheResponse) = ChallengeResponse
<1> DEFINE i == << <<1>> >>
           r == << <<SdkKey>>, <<2>> >>
           p == <<DaemonKey, 1, 2>>
<1>1. i \in Texts /\ r \in Texts /\ p \in Seq(Nat) /\ Len(i) = 1 /\ i[1] = <<1>>
  <2>1. <<1>> \in Seq(Nat) \ {<<>>} /\ <<SdkKey>> \in Seq(Nat) \ {<<>>} /\ <<2>> \in Seq(Nat) \ {<<>>}
    <3>1. Len(<<1>>) = 1 /\ Len(<<SdkKey>>) = 1 /\ Len(<<2>>) = 1 /\ Len(<<>>) = 0
      OBVIOUS
    <3>2. <<1>> \in Seq(Nat) /\ <<SdkKey>> \in Seq(Nat) /\ <<2>> \in Seq(Nat)
      BY DEF SdkKey
    <3> QED BY <3>1, <3>2
  <2> DEFINE V == Seq(Nat) \ {<<>>}
             x == <<1>>
             y == <<SdkKey>>
             z == <<2>>
  <2>2. x \in V /\ y \in V /\ z \in V
    BY <2>1
  <2> HIDE DEF V, x, y, z
  <2>3. <<x>> \in Seq(V) /\ <<y, z>> \in Seq(V) /\ Len(<<x>>) = 1 /\ <<x>>[1] = x
    BY <2>2
  <2>4. p \in Seq(Nat)
    BY DEF DaemonKey
  <2> QED BY <2>3, <2>4 DEF V, x, y, z, Texts
<1> HIDE DEF i, r, p
<1>2. Cut(i) \in Seq(Nat) /\ Cut(r) \in Seq(Nat) /\ Cut(i)[1] = 1
  <2>1. <<1>>[1] = 1
    OBVIOUS
  <2> QED BY <1>1, <2>1, CutIs
<1>3. TheRequest = NewDatagram(IdRequest, Cut(i)) /\ TheResponse = NewDatagram(ChallengeResponse, Cut(r))
  BY <1>1, SameForm DEF TheRequest, TheResponse, i, r
<1>4. TheChallenge = NewDatagram(PeerChallenge, p)
  BY DEF TheChallenge, p
<1>5. IdRequest \in Services /\ PeerChallenge \in Services /\ ChallengeResponse \in Services
  BY DEF Services
<1>6. /\ TheRequest \in Seq(Nat) /\ (Len(TheRequest) < MaxSize => TheRequest \in Framed)
      /\ DecodeService(TheRequest) = IdRequest /\ ParseString(TheRequest) = Cut(i)
  BY <1>2, <1>3, <1>5, DatagramIs
<1>7. /\ TheChallenge \in Seq(Nat) /\ (Len(TheChallenge) < MaxSize => TheChallenge \in Framed)
      /\ JavaDecodeService(TheChallenge) = PeerChallenge /\ JavaParseString(TheChallenge) = p
  BY <1>1, <1>4, <1>5, DatagramIs
<1>8. /\ TheResponse \in Seq(Nat) /\ (Len(TheResponse) < MaxSize => TheResponse \in Framed)
      /\ DecodeService(TheResponse) = ChallengeResponse
  BY <1>2, <1>3, <1>5, DatagramIs
<1> QED BY <1>2, <1>6, <1>7, <1>8 DEF p

LEMMA SaidToAsk ==
    ASSUME NEW text \in Texts
    PROVE  /\ AskOf(text) \in Seq(Nat) /\ (Len(AskOf(text)) < MaxSize => AskOf(text) \in Framed)
           /\ DecodeService(AskOf(text)) = Request /\ ParseString(AskOf(text)) = Cut(text)
           /\ AnswerTo(text) \in Seq(Nat) /\ (Len(AnswerTo(text)) < MaxSize => AnswerTo(text) \in Framed)
           /\ JavaParseString(AnswerTo(text)) = Cut(text) /\ Cut(text) \in Seq(Nat)
<1>1. AskOf(text) = NewDatagram(Request, Cut(text)) /\ AnswerTo(text) = NewDatagram(Response, Cut(text))
  BY SameForm DEF AskOf, AnswerTo
<1>2. Request \in Services /\ Response \in Services /\ Cut(text) \in Seq(Nat)
  BY CutIs DEF Services
<1> QED BY <1>1, <1>2, DatagramIs

\* A datagram goes up to an end that is there.
LEMMA SentUp ==
    ASSUME SdkTypes, PrefixOK, NEW u \in Sequences, sent.up = got.up \o u, Flow(dcurd, up, u, FALSE),
           u = <<>> \/ \E c : u = <<c>>, NEW b \in Framed,
           up' = up \o b, sent' = [sent EXCEPT !.up = Append(@, b)], got'.up = got.up, dcurd' = dcurd
    PROVE  /\ UpOK(Append(u, b))' /\ IsPrefix(got'.up, sent'.up) /\ up' \in Seq(Nat)
           /\ got' = got => PrefixOK'
           /\ sent' \in [up : Sequences, down : Sequences] /\ sent'.down = sent.down
<1>1. /\ sent \in [up : Sequences, down : Sequences] /\ got \in [up : Sequences, down : Sequences]
      /\ b \in Seq(Nat)
  BY FramedIs DEF SdkTypes
<1>2. Flow(dcurd, up \o b, Append(u, b), FALSE) /\ up \o b \in Seq(Nat)
  BY FlowMore
<1>3. Append(got.up \o u, b) = got.up \o Append(u, b) /\ Append(u, b) \in Sequences
  <2> DEFINE V == Seq(Nat)
             g == got.up
  <2>1. g \in Seq(V) /\ u \in Seq(V) /\ b \in V
    BY <1>1 DEF Sequences
  <2> HIDE DEF V, g
  <2>2. Append(g \o u, b) = g \o Append(u, b)
    BY ONLY <2>1, RestMore
  <2>3. Append(u, b) \in Seq(V)
    BY ONLY <2>1, AppendProperties
  <2> QED BY <2>2, <2>3 DEF Sequences, V, g
<1>4. sent'.up = Append(sent.up, b) /\ sent'.down = sent.down
  BY <1>1
<1>5. Append(sent.up, b) \in Sequences
  BY <1>1, AppendProperties DEF Sequences
<1>6. sent' \in [up : Sequences, down : Sequences]
  BY <1>1, <1>5
<1>7. IsPrefix(got'.up, sent'.up) /\ (got' = got => PrefixOK')
  <2>1. IsPrefix(got.up, Append(sent.up, b))
    BY <1>1, PrefixKept DEF Sequences, PrefixOK
  <2> QED BY <1>4, <2>1 DEF PrefixOK
<1>8. UpOK(Append(u, b))'
  BY <1>2, <1>3, <1>4 DEF UpOK
<1> QED BY <1>2, <1>4, <1>6, <1>7, <1>8

\* And one down.
LEMMA SentDown ==
    ASSUME SdkTypes, PrefixOK, sent.down = got.down, Flow(curd, down, <<>>, TRUE), NEW b \in Framed,
           down' = down \o b, sent' = [sent EXCEPT !.down = Append(@, b)], got'.down = got.down, curd' = curd
    PROVE  /\ DownOK(<<b>>)' /\ IsPrefix(got'.down, sent'.down) /\ down' \in Seq(Nat)
           /\ got' = got => PrefixOK'
           /\ sent' \in [up : Sequences, down : Sequences] /\ sent'.up = sent.up
<1>1. /\ sent \in [up : Sequences, down : Sequences] /\ got \in [up : Sequences, down : Sequences]
      /\ b \in Seq(Nat)
  BY FramedIs DEF SdkTypes
<1>2. Append(<<>>, b) = <<b>>
  OBVIOUS
<1>3. Flow(curd, down \o b, <<b>>, TRUE) /\ down \o b \in Seq(Nat)
  <2> DEFINE e == <<>>
             x == <<b>>
  <2>1. Append(e, b) = x /\ e = <<>> /\ Flow(curd, down, e, TRUE)
    BY <1>2
  <2> HIDE DEF e, x
  <2>2. Flow(curd, down \o b, Append(e, b), TRUE) /\ down \o b \in Seq(Nat)
    BY <2>1, FlowMore
  <2>3. Flow(curd, down \o b, x, TRUE)
    BY <2>1, <2>2
  <2> QED BY <2>2, <2>3 DEF x
<1>4. sent'.down = Append(sent.down, b) /\ sent'.up = sent.up
  BY <1>1
<1>5. Append(sent.down, b) = got.down \o <<b>> /\ Append(sent.down, b) \in Sequences
  BY <1>1, AppendIsConcat, AppendProperties DEF Sequences
<1>6. sent' \in [up : Sequences, down : Sequences]
  BY <1>1, <1>5
<1>7. IsPrefix(got'.down, sent'.down) /\ (got' = got => PrefixOK')
  <2>1. IsPrefix(got.down, Append(sent.down, b))
    BY <1>1, PrefixKept DEF Sequences, PrefixOK
  <2> QED BY <1>4, <2>1 DEF PrefixOK
<1>8. DownOK(<<b>>)'
  <2>1. <<b>> \in Sequences
    BY <1>1 DEF Sequences
  <2> QED BY <1>3, <1>4, <1>5, <2>1 DEF DownOK
<1> QED BY <1>3, <1>4, <1>6, <1>7, <1>8

LEMMA ConnectStep ==
    ASSUME NEW u, NEW v, SdkInv(u, v), NEW text \in Texts, ConnectWalletd(text)
    PROVE  SdkInv(<<TheRequest>>, <<>>)'
<1>1. /\ at = "idle" /\ asked' = Append(asked, text) /\ sock = "none"
      /\ jmsg' = 1 /\ at' = "auth" /\ curd' = JavaEmpty /\ Send(TheRequest, TRUE)
      /\ peer' = "open"
      /\ UNCHANGED <<jstage, answers, down, dmsg, dstage, dcurd, job, paired, got>>
  BY DEF ConnectWalletd, Ask, Connected, InitiateDialogue, TheRequest
<1>2. /\ peer = "none" /\ up = <<>> /\ down = <<>> /\ sent.up = <<>> /\ got.up = <<>>
      /\ sent.down = <<>> /\ got.down = <<>>
      /\ job = <<>> /\ Fresh(dcurd) /\ jstage = "anonymous"
  BY <1>1 DEF SdkInv, UnconnectedOK
<1>3. /\ Len(TheRequest) < MaxSize /\ sock' = "open" /\ up' = up \o TheRequest
      /\ sent' = [sent EXCEPT !.up = Append(@, TheRequest)] /\ TheRequest \in Framed
  <2>1. ~(Len(TheRequest) >= MaxSize) /\ sock' = "open" /\ up' = up \o TheRequest
        /\ sent' = [sent EXCEPT !.up = Append(@, TheRequest)]
    BY <1>1, <1>2 DEF Send, Sendable
  <2>2. TheRequest \in Seq(Nat) /\ MaxSize \in Nat
    BY Said, SizeAssumption
  <2>3. Len(TheRequest) \in Nat
    BY <2>2, LenProperties
  <2>4. Len(TheRequest) < MaxSize
    <3> DEFINE k == Len(TheRequest)
    <3>1. k \in Nat /\ ~(k >= MaxSize)
      BY <2>1, <2>3
    <3> HIDE DEF k
    <3>2. k < MaxSize
      BY <2>2, <3>1
    <3> QED BY <3>2 DEF k
  <2> QED BY <2>1, <2>4, Said
<1>4. <<>> \in Sequences /\ <<>> = <<>> \o <<>> /\ Append(<<>>, TheRequest) = <<TheRequest>>
  <2>1. <<>> \in Sequences
    BY EmptySeq DEF Sequences
  <2> QED BY <2>1, ConcatEmptySeq DEF Sequences
<1>5. /\ UpOK(<<TheRequest>>)' /\ PrefixOK' /\ up' \in Seq(Nat)
      /\ sent' \in [up : Sequences, down : Sequences] /\ sent'.down = sent.down
  <2> DEFINE e == <<>>
             x == <<TheRequest>>
             b == TheRequest
  <2>1. /\ e \in Sequences /\ sent.up = got.up \o e /\ Flow(dcurd, up, e, FALSE) /\ e = <<>>
        /\ Append(e, b) = x
    BY <1>2, <1>4 DEF Flow
  <2>2. /\ SdkTypes /\ PrefixOK /\ b \in Framed /\ up' = up \o b
        /\ sent' = [sent EXCEPT !.up = Append(@, b)] /\ UNCHANGED <<got, dcurd>>
    BY <1>1, <1>3 DEF SdkInv
  <2> HIDE DEF e, x, b
  <2>3. /\ UpOK(Append(e, b))' /\ PrefixOK' /\ up' \in Seq(Nat)
        /\ sent' \in [up : Sequences, down : Sequences] /\ sent'.down = sent.down
    BY ONLY <2>1, <2>2, SentUp
  <2> QED BY <2>1, <2>3 DEF x
<1>6. /\ AnswersOK' /\ asked' \in Seq(Texts) /\ answers' \in Sequences
      /\ Len(asked)' \in Len(answers)'..(Len(answers)' + 1)
  BY <1>1, AskBegins DEF SdkInv, SdkTypes
<1>7. JavaEmpty \in Partial /\ JavaEmpty.size \in 0..MaxSize - 1
  BY EmptyIsFresh, SmallSizes
<1>8. SdkTypes'
  BY <1>1, <1>3, <1>5, <1>6, <1>7 DEF SdkInv, SdkTypes, SessionTypeOK
<1>9. DownOK(<<>>)'
  <2>1. Flow(JavaEmpty, <<>>, <<>>, TRUE)
    BY EmptyIsFresh DEF Flow
  <2> QED BY <1>1, <1>2, <1>4, <1>5, <2>1 DEF DownOK
<1>10. UnconnectedOK'
  BY <1>1, <1>3 DEF UnconnectedOK
<1>11. DialogueOf(<<TheRequest>>, <<>>)'
  BY <1>1, <1>2 DEF DialogueOf
<1> QED BY <1>5, <1>6, <1>8, <1>9, <1>10, <1>11 DEF SdkInv

LEMMA SendRequestStep ==
    ASSUME NEW u, NEW v, SdkInv(u, v), NEW ok \in BOOLEAN, SendRequest(ok),
           NEW text, text = Last(asked), NEW b, b = AskOf(text)
    PROVE  SdkInv(u, v)' \/ SdkInv(Append(u, b), v)'
<1>1. /\ at = "send" /\ Send(b, ok)
      /\ UNCHANGED <<jstage, jmsg, asked, down, peer, dmsg, dstage, dcurd, job, paired, got>>
  BY DEF SendRequest, AskOf, daemon
<1>2. /\ ok => at' = "recv" /\ curd' = JavaEmpty /\ UNCHANGED answers
      /\ ~ok => answers' = Append(answers, Error) /\ at' = "idle" /\ UNCHANGED curd
  BY DEF SendRequest, Finish
<1>3. /\ SdkTypes /\ AnswersOK /\ PrefixOK /\ UnconnectedOK /\ UpOK(u) /\ DownOK(v)
      /\ sock = "open" => DialogueOf(u, v)
  BY DEF SdkInv
<1>4. text \in Texts
  <2>1. asked \in Seq(Texts) /\ answers \in Sequences /\ Len(asked) = Len(answers) + 1
    BY <1>1, <1>3 DEF SdkTypes, AnswersOK
  <2>2. Len(answers) \in Nat
    BY <2>1, LenProperties DEF Sequences
  <2>3. Len(asked) \in 1..Len(asked)
    BY <2>1, <2>2
  <2> QED BY <2>1, <2>3, ElementOfSeq DEF Last
<1>5. sock # "none" /\ peer # "none" /\ sock \in {"open", "closed"}
  BY <1>1, <1>3 DEF UnconnectedOK, SdkTypes, SessionTypeOK
<1>6. CASE ~ok
  <2>1. /\ sock' = "closed" /\ UNCHANGED <<up, sent>>
    BY <1>1, <1>6 DEF Send
  <2>2. /\ AnswersOK' /\ asked' \in Seq(Texts) /\ answers' \in Sequences
        /\ Len(asked)' \in Len(answers)'..(Len(answers)' + 1)
    <3>1. Error \in Seq(Nat) /\ at # "idle" /\ AnswersOK /\ asked \in Seq(Texts) /\ answers \in Sequences
      BY <1>1, <1>3, EmptySeq DEF Error, SdkTypes
    <3>2. asked' = asked /\ answers' = Append(answers, Error) /\ at' = "idle" /\ jstage' = jstage
      BY <1>1, <1>2, <1>6
    <3> QED BY ONLY <3>1, <3>2, AskEnds
  <2>3. SdkTypes'
    BY <1>1, <1>2, <1>3, <1>6, <2>1, <2>2 DEF SdkTypes, SessionTypeOK
  <2>4. UpOK(u)' /\ DownOK(v)' /\ PrefixOK'
    <3>1. UNCHANGED <<up, down, sent, got, peer, dcurd>> /\ sock' = "closed"
      BY <1>1, <2>1
    <3> QED BY ONLY <1>3, <3>1, FlowsKept
  <2>5. UnconnectedOK'
    BY <1>1, <1>5, <2>1 DEF UnconnectedOK
  <2>6. SdkInv(u, v)'
    BY <2>1, <2>2, <2>3, <2>4, <2>5 DEF SdkInv
  <2> QED BY <2>6
<1>7. CASE ok
  <2>1. /\ ~(Len(b) >= MaxSize) /\ sock = "open" /\ sock' = "open"
        /\ IF peer # "closed" THEN up' = up \o b /\ sent' = [sent EXCEPT !.up = Append(@, b)]
           ELSE UNCHANGED <<up, sent>>
    <3> QED BY <1>1, <1>5, <1>7 DEF Send, Sendable
  <2>2. b \in Framed /\ b \in Seq(Nat)
    <3> DEFINE k == Len(b)
    <3>1. b \in Seq(Nat) /\ (k < MaxSize => b \in Framed)
      BY <1>4, SaidToAsk
    <3>2. k \in Nat /\ MaxSize \in Nat /\ ~(k >= MaxSize)
      BY <2>1, <3>1, LenProperties, SizeAssumption
    <3> HIDE DEF k
    <3> QED BY <3>1, <3>2
  <2>3. /\ v = <<>> /\ (peer = "open" => job = <<>> /\ u \in {<<>>, <<TheResponse>>})
        /\ jstage = "verified"
    BY <1>1, <1>3, <2>1 DEF DialogueOf
  <2>4. AnswersOK' /\ answers' = answers /\ asked' = asked /\ at' = "recv" /\ curd' = JavaEmpty
    BY <1>1, <1>2, <1>3, <1>7 DEF AnswersOK
  <2>5. JavaEmpty \in Partial /\ JavaEmpty.size \in 0..MaxSize - 1
    BY EmptyIsFresh, SmallSizes
  <2>6. DownOK(v)
    BY <1>3
  <2>7. sent.down = got.down \o v /\ down = <<>>
    <3>1. sent.down = got.down \o v /\ Flow(curd, down, <<>>, TRUE)
      BY <1>3, <2>1, <2>3 DEF DownOK
    <3>2. ASSUME NEW y, NEW z PROVE <<y>> # <<>> /\ <<y, z>> # <<>>
      <4>1. Len(<<y>>) = 1 /\ Len(<<y, z>>) = 2 /\ Len(<<>>) = 0
        OBVIOUS
      <4> QED BY <4>1
    <3> QED BY <3>1, <3>2 DEF Flow
  <2>8. Flow(JavaEmpty, <<>>, <<>>, TRUE)
    BY EmptyIsFresh DEF Flow
  <2>9. UnconnectedOK'
    BY <1>1, <1>5, <2>1 DEF UnconnectedOK
  <2>10. CASE peer = "open"
    <3>1. /\ up' = up \o b /\ sent' = [sent EXCEPT !.up = Append(@, b)]
      BY <2>1, <2>10
    <3>2. /\ UpOK(Append(u, b))' /\ PrefixOK' /\ up' \in Seq(Nat)
          /\ sent' \in [up : Sequences, down : Sequences] /\ sent'.down = sent.down
      <4>1. /\ SdkTypes /\ PrefixOK /\ u \in Sequences /\ sent.up = got.up \o u /\ Flow(dcurd, up, u, FALSE)
            /\ UNCHANGED <<got, dcurd>>
        BY <1>1, <1>3, <2>10 DEF UpOK
      <4>2. u = <<>> \/ \E c : u = <<c>>
        BY <2>3, <2>10
      <4>3. b \in Framed
        BY <2>2
      <4> QED BY <3>1, <4>1, <4>2, <4>3, SentUp
    <3>3. SdkTypes'
      BY <1>1, <1>3, <2>1, <2>4, <2>5, <3>2 DEF SdkTypes, SessionTypeOK
    <3>4. DownOK(v)'
      BY <1>1, <2>4, <2>6, <2>7, <2>8, <2>3, <3>2 DEF DownOK
    <3>5. DialogueOf(Append(u, b), v)'
      <4>1. Append(u, b) \in {<<b>>, <<TheResponse, b>>}
        <5>1. Append(<<>>, b) = <<b>> /\ Append(<<TheResponse>>, b) = <<TheResponse, b>>
          BY Pair
        <5> QED BY <2>3, <2>10, <5>1
      <4>2. AskUnderWay(text, Append(u, b), v)'
        BY <1>1, <2>3, <2>10, <4>1 DEF AskUnderWay
      <4> QED BY <1>1, <2>3, <2>4, <4>2 DEF DialogueOf
    <3>6. SdkInv(Append(u, b), v)'
      BY <2>4, <2>9, <3>2, <3>3, <3>4, <3>5 DEF SdkInv
    <3> QED BY <3>6
  <2>11. CASE peer = "closed"
    <3>1. UNCHANGED <<up, sent>>
      BY <2>1, <2>11
    <3>2. SdkTypes'
      BY <1>1, <1>3, <2>1, <2>4, <2>5, <3>1 DEF SdkTypes, SessionTypeOK
    <3>3. UpOK(u)' /\ PrefixOK'
      BY <1>1, <1>3, <2>11, <3>1 DEF UpOK, PrefixOK
    <3>4. DownOK(v)'
      BY <1>1, <2>4, <2>6, <2>7, <2>8, <2>3, <3>1 DEF DownOK
    <3>5. DialogueOf(u, v)'
      BY <1>1, <2>3, <2>4, <2>11 DEF DialogueOf
    <3>6. SdkInv(u, v)'
      BY <2>4, <2>9, <3>2, <3>3, <3>4, <3>5 DEF SdkInv
    <3> QED BY <3>6
  <2> QED BY <1>3, <1>5, <2>10, <2>11 DEF SdkTypes, SessionTypeOK
<1> QED BY <1>6, <1>7

\* What a datagram that has been received leaves on the way.
LEMMA Taking ==
    ASSUME NEW s, NEW g \in Sequences, NEW r \in Sequences, r # <<>>, s = g \o r
    PROVE  /\ s = Append(g, Head(r)) \o Tail(r) /\ IsPrefix(Append(g, Head(r)), s)
           /\ Append(g, Head(r)) \in Sequences /\ Tail(r) \in Sequences
<1> DEFINE V == Seq(Nat)
           a == Append(g, Head(r))
           t == Tail(r)
<1>1. g \in Seq(V) /\ r \in Seq(V)
  BY DEF Sequences
<1> HIDE DEF V
<1>2. s = a \o t /\ a \in Seq(V) /\ t \in Seq(V)
  BY <1>1, RestLess
<1> HIDE DEF a, t
<1>3. IsPrefix(a, s)
  BY <1>2, PrefixOf
<1> QED BY <1>2, <1>3 DEF a, t, V, Sequences

LEMMA One ==
    ASSUME NEW y
    PROVE  <<y>> # <<>> /\ Head(<<y>>) = y /\ Tail(<<y>>) = <<>>
<1>1. Len(<<y>>) = 1 /\ Len(<<>>) = 0
  OBVIOUS
<1> QED BY <1>1

LEMMA Two ==
    ASSUME NEW y, NEW z
    PROVE  <<y, z>> # <<>> /\ Head(<<y, z>>) = y /\ Tail(<<y, z>>) = <<z>>
<1>1. Len(<<y, z>>) = 2 /\ Len(<<>>) = 0 /\ <<y, z>>[1] = y /\ <<y, z>>[2] = z
  OBVIOUS
<1>2. <<y, z>> # <<>>
  BY <1>1
<1>3. Head(<<y, z>>) = y
  BY <1>1
<1>4. Tail(<<y, z>>) = <<z>>
  OBVIOUS
<1> QED BY <1>2, <1>3, <1>4

LEMMA SendResponseStep ==
    ASSUME NEW u, NEW v, SdkInv(u, v), SendResponse,
           NEW text, text = Last(asked), NEW b, b = AnswerTo(text)
    PROVE  SdkInv(u, v)' \/ SdkInv(u, <<b>>)'
<1>1. /\ peer = "open" /\ job # <<>> /\ Sendto(NewDatagram(Response, Head(job))) /\ job' = Tail(job)
      /\ UNCHANGED <<sock, jstage, jmsg, curd, at, asked, answers, up, dmsg, dstage, dcurd, paired, got>>
  BY DEF SendResponse, sdk
<1>2. /\ SdkTypes /\ AnswersOK /\ PrefixOK /\ UnconnectedOK /\ UpOK(u) /\ DownOK(v)
      /\ sock = "open" => DialogueOf(u, v)
  BY DEF SdkInv
<1>3. AnswersOK' /\ sock # "none"
  BY <1>1, <1>2 DEF AnswersOK, UnconnectedOK
<1>4. job' \in Sequences
  BY <1>1, <1>2, HeadTailProperties DEF SdkTypes, Sequences
<1>5. CASE peer' = "closed" /\ UNCHANGED <<down, sent>>
  <2>1. SdkTypes'
    BY <1>1, <1>2, <1>4, <1>5 DEF SdkTypes, SessionTypeOK
  <2>2. UpOK(u)' /\ DownOK(v)' /\ PrefixOK'
    BY <1>1, <1>2, <1>5 DEF UpOK, DownOK, PrefixOK
  <2>3. UnconnectedOK'
    BY <1>1, <1>3, <1>5 DEF UnconnectedOK
  <2>4. ASSUME sock' = "open" PROVE DialogueOf(u, v)'
    BY <1>1, <1>2, <1>5, <2>4 DEF DialogueOf
  <2> QED BY <1>3, <2>1, <2>2, <2>3, <2>4 DEF SdkInv
<1>6. CASE /\ sock = "open" /\ peer' = peer
           /\ Len(NewDatagram(Response, Head(job))) < MaxSize
           /\ down' = down \o NewDatagram(Response, Head(job))
           /\ sent' = [sent EXCEPT !.down = Append(@, NewDatagram(Response, Head(job)))]
  <2>1. at \in {"idle", "auth", "send", "recv"} /\ DialogueOf(u, v)
    BY <1>2, <1>6 DEF SdkTypes, SessionTypeOK
  <2>2. at = "recv" /\ AskUnderWay(text, u, v) /\ jstage = "verified"
    BY <1>1, <2>1 DEF DialogueOf
  <2>3. u = <<>> /\ v = <<>> /\ job = <<Cut(text)>>
    BY <1>1, <2>2 DEF AskUnderWay
  <2>4. Head(job) = Cut(text) /\ job' = <<>>
    BY <1>1, <2>3, One
  <2>5. Len(b) < MaxSize /\ down' = down \o b /\ sent' = [sent EXCEPT !.down = Append(@, b)]
    BY <1>6, <2>4 DEF AnswerTo
  <2>6. text \in Texts
    <3>1. asked \in Seq(Texts) /\ answers \in Sequences /\ Len(asked) = Len(answers) + 1
      BY <1>2, <2>2 DEF SdkTypes, AnswersOK
    <3>2. Len(answers) \in Nat
      BY <3>1, LenProperties DEF Sequences
    <3>3. Len(asked) \in 1..Len(asked)
      BY <3>1, <3>2
    <3> QED BY <3>1, <3>3, ElementOfSeq DEF Last
  <2>7. b \in Framed
    BY <2>5, <2>6, SaidToAsk
  <2>8. /\ DownOK(<<b>>)' /\ PrefixOK' /\ down' \in Seq(Nat)
        /\ sent' \in [up : Sequences, down : Sequences] /\ sent'.up = sent.up
    <3>1. sent.down = got.down /\ Flow(curd, down, <<>>, TRUE)
      <4>1. sent.down = got.down \o v /\ Flow(curd, down, v, TRUE)
        BY <1>2, <1>6 DEF DownOK
      <4>2. got.down \in Sequences
        BY <1>2 DEF SdkTypes
      <4> QED BY <2>3, <4>1, <4>2, ConcatEmptySeq DEF Sequences
    <3>2. SdkTypes /\ PrefixOK /\ got' = got /\ got'.down = got.down /\ curd' = curd
      BY <1>1, <1>2
    <3> QED BY <2>5, <2>7, <3>1, <3>2, SentDown
  <2>9. SdkTypes'
    BY <1>1, <1>2, <1>4, <1>6, <2>8 DEF SdkTypes, SessionTypeOK
  <2>10. UpOK(u)'
    BY <1>1, <1>2, <1>6, <2>8 DEF UpOK
  <2>11. UnconnectedOK'
    BY <1>1, <1>3, <1>6 DEF UnconnectedOK
  <2>12. DialogueOf(u, <<b>>)'
    <3>1. AskUnderWay(text, u, <<b>>)'
      BY <2>3, <2>4 DEF AskUnderWay
    <3> QED BY <1>1, <2>2, <3>1 DEF DialogueOf
  <2> QED BY <1>3, <2>8, <2>9, <2>10, <2>11, <2>12 DEF SdkInv
<1> QED BY <1>1, <1>5, <1>6 DEF Sendto

\* What the SDK waits for while it reads.
LEMMA OnTheWayDown ==
    ASSUME NEW u, NEW v, DialogueOf(u, v), Waiting, v # <<>>
    PROVE  \/ /\ at = "auth" /\ v = <<TheChallenge>> /\ jmsg = 1
              /\ peer = "open" => u = <<>> /\ job = <<>>
           \/ /\ at = "recv" /\ v = <<AnswerTo(Last(asked))>> /\ jstage = "verified"
              /\ peer = "open" => u = <<>> /\ job = <<>>
<1>1. CASE at = "auth"
  BY <1>1 DEF DialogueOf
<1>2. CASE at = "recv"
  BY <1>2 DEF DialogueOf, AskUnderWay
<1> QED BY <1>1, <1>2 DEF Waiting

LEMMA ClientReadStep ==
    ASSUME NEW u, NEW v, SdkInv(u, v), NEW n \in 1..MaxSize, NEW ok \in BOOLEAN, ClientRead(n, ok)
    PROVE  \/ SdkInv(u, v)' \/ SdkInv(u, <<>>)' \/ SdkInv(<<TheResponse>>, <<>>)'
<1> DEFINE e == JavaRecvfrom(curd, SubSeq(down, 1, n))
<1>1. /\ SdkTypes /\ AnswersOK /\ PrefixOK /\ UnconnectedOK /\ UpOK(u) /\ DownOK(v)
      /\ sock = "open" => DialogueOf(u, v)
  BY DEF SdkInv
<1>2. /\ Waiting /\ sock = "open" /\ n \in 1..Min({Wanted(curd), Len(down)})
      /\ down' = SubSeq(down, n + 1, Len(down))
      /\ UNCHANGED <<asked, peer, dmsg, dstage, dcurd, job, paired>>
      /\ e = Oversized \/ (Completed(e) /\ Receive(e, ok) /\ curd' = JavaEmpty
                             /\ got' = [got EXCEPT !.down = Append(@, e.bytes)])
                       \/ (~Completed(e) /\ curd' = e
                             /\ UNCHANGED <<sock, jstage, jmsg, at, answers, up, sent, got>>)
  BY DEF ClientRead, daemon
<1>3. DialogueOf(u, v) /\ v \in Sequences /\ sent.down = got.down \o v /\ Flow(curd, down, v, TRUE)
  BY <1>1, <1>2 DEF DownOK
<1>4. Fresh(JavaEmpty) /\ JavaEmpty \in Partial /\ JavaEmpty.size \in 0..MaxSize - 1
  BY EmptyIsFresh, SmallSizes
<1>5. /\ v # <<>> /\ e # Oversized /\ down' \in Seq(Nat)
      /\ Completed(e) => /\ e.bytes = Head(v) /\ e.service = JavaDecodeService(Head(v))
                         /\ Flow(JavaEmpty, down', Tail(v), TRUE) /\ Head(v) \in Framed
      /\ ~Completed(e) => Flow(e, down', v, TRUE)
  <2> DEFINE x == SubSeq(down, n + 1, Len(down))
             J == TRUE
             f == JavaEmpty
  <2>1. ReadStep(curd, down, n, e, x, J)
    BY <1>2 DEF ReadStep
  <2>2. J \in BOOLEAN /\ Flow(curd, down, v, J) /\ Fresh(f)
    BY <1>3, <1>4
  <2>3. down' = x
    BY <1>2
  <2> HIDE DEF e, x, J, f
  <2>4. Taken(e, x, v, f, J)
    BY <2>1, <2>2, FlowRead
  <2>5. Decoded(Head(v), J) = JavaDecodeService(Head(v))
    BY DEF Decoded, J
  <2> QED BY <2>3, <2>4, <2>5 DEF Taken, J, f
<1> HIDE DEF e
<1>6. sock # "none" /\ peer # "none"
  BY <1>1, <1>2 DEF UnconnectedOK
<1>7. CASE ~Completed(e)
  <2>1. /\ curd' = e
        /\ UNCHANGED <<sock, jstage, jmsg, at, answers, up, sent, got>>
    BY <1>2, <1>5, <1>7
  <2>2. Flow(e, down', v, TRUE)
    BY <1>5, <1>7
  <2>3. e \in Partial /\ e.size \in 0..MaxSize - 1
    BY <2>2, FlowTyped
  <2>4. SdkTypes'
    BY <1>1, <1>2, <1>5, <2>1, <2>3 DEF SdkTypes, SessionTypeOK
  <2>5. AnswersOK' /\ PrefixOK' /\ UpOK(u)'
    BY <1>1, <1>2, <2>1 DEF AnswersOK, PrefixOK, UpOK
  <2>6. DownOK(v)'
    BY <1>3, <2>1, <2>2 DEF DownOK
  <2>7. UnconnectedOK'
    BY <1>2, <1>6, <2>1 DEF UnconnectedOK
  <2>8. DialogueOf(u, v)'
    BY <1>2, <1>3, <2>1 DEF DialogueOf, AskUnderWay
  <2> QED BY <2>4, <2>5, <2>6, <2>7, <2>8 DEF SdkInv
<1>8. CASE Completed(e)
  <2>1. /\ Receive(e, ok) /\ curd' = JavaEmpty /\ got' = [got EXCEPT !.down = Append(@, e.bytes)]
        /\ e.bytes = Head(v) /\ e.service = JavaDecodeService(Head(v))
        /\ Flow(JavaEmpty, down', Tail(v), TRUE)
    BY <1>2, <1>5, <1>8
  <2>2. /\ sent.down = Append(got.down, Head(v)) \o Tail(v)
        /\ IsPrefix(Append(got.down, Head(v)), sent.down)
        /\ Append(got.down, Head(v)) \in Sequences
    <3> DEFINE s == sent.down
               g == got.down
    <3>1. g \in Sequences /\ v \in Sequences /\ v # <<>> /\ s = g \o v
      BY <1>1, <1>3, <1>5 DEF SdkTypes
    <3> HIDE DEF s, g
    <3>2. s = Append(g, Head(v)) \o Tail(v) /\ IsPrefix(Append(g, Head(v)), s)
          /\ Append(g, Head(v)) \in Sequences
      BY <3>1, Taking
    <3> QED BY <3>2 DEF s, g
  <2>3. /\ got'.down = Append(got.down, Head(v)) /\ got'.up = got.up
        /\ got' \in [up : Sequences, down : Sequences]
    BY <1>1, <2>1, <2>2 DEF SdkTypes
  <2>4. Tail(v) = <<>> /\ <<>> \in Sequences
    <3>1. \E y : v = <<y>>
      BY <1>2, <1>3, <1>5, OnTheWayDown
    <3>2. <<>> \in Sequences
      BY EmptySeq DEF Sequences
    <3> QED BY <3>1, <3>2, One
  <2>5. sent'.down = sent.down => DownOK(<<>>)' /\ IsPrefix(got'.down, sent'.down)
    BY <2>1, <2>2, <2>3, <2>4 DEF DownOK
  <2>6. CASE at = "recv"
    <3>1. /\ v = <<AnswerTo(Last(asked))>> /\ jstage = "verified"
          /\ peer = "open" => u = <<>> /\ job = <<>>
      BY <1>2, <1>3, <1>5, <2>6, OnTheWayDown
    <3>2. /\ answers' = Append(answers, JavaParseString(e.bytes)) /\ at' = "idle"
          /\ UNCHANGED <<jstage, jmsg, sock, up, sent>>
      BY <2>1, <2>6 DEF Receive, Finish
    <3>3. Last(asked) \in Texts
      <4>1. asked \in Seq(Texts) /\ answers \in Sequences /\ Len(asked) = Len(answers) + 1
        BY <1>1, <2>6 DEF SdkTypes, AnswersOK
      <4>2. Len(answers) \in Nat
        BY <4>1, LenProperties DEF Sequences
      <4>3. Len(asked) \in 1..Len(asked)
        BY <4>1, <4>2
      <4> QED BY <4>1, <4>3, ElementOfSeq DEF Last
    <3>4. e.bytes = AnswerTo(Last(asked))
      BY <2>1, <3>1, One
    <3>5. JavaParseString(e.bytes) = Cut(Last(asked)) /\ Cut(Last(asked)) \in Seq(Nat)
      BY <3>3, <3>4, SaidToAsk
    <3>6. /\ AnswersOK' /\ asked' \in Seq(Texts) /\ answers' \in Sequences
          /\ Len(asked)' \in Len(answers)'..(Len(answers)' + 1)
      <4>1. /\ AnswersOK /\ asked \in Seq(Texts) /\ answers \in Sequences /\ at # "idle"
            /\ jstage' = jstage /\ jstage' = "verified" /\ asked' = asked /\ at' = "idle"
            /\ answers' = Append(answers, Cut(Last(asked))) /\ Cut(Last(asked)) \in Seq(Nat)
        BY <1>1, <1>2, <2>6, <3>1, <3>2, <3>5 DEF SdkTypes
      <4> QED BY ONLY <4>1, AskEnds
    <3>7. SdkTypes'
      BY <1>1, <1>2, <1>4, <1>5, <2>1, <2>3, <3>2, <3>6 DEF SdkTypes, SessionTypeOK
    <3>8. UpOK(u)' /\ PrefixOK' /\ DownOK(<<>>)'
      BY <1>1, <1>2, <2>3, <2>5, <3>2 DEF UpOK, PrefixOK
    <3>9. UnconnectedOK'
      BY <1>2, <1>6, <3>2 DEF UnconnectedOK
    <3>10. DialogueOf(u, <<>>)'
      BY <1>2, <3>1, <3>2 DEF DialogueOf
    <3> QED BY <3>6, <3>7, <3>8, <3>9, <3>10 DEF SdkInv
  <2>7. CASE at = "auth"
    <3>1. v = <<TheChallenge>> /\ jmsg = 1 /\ (peer = "open" => u = <<>> /\ job = <<>>)
      BY <1>2, <1>3, <1>5, <2>7, OnTheWayDown
    <3>2. /\ e.bytes = TheChallenge /\ e.service = PeerChallenge
          /\ JavaParseString(e.bytes) = <<DaemonKey, 1, 2>>
      BY <2>1, <3>1, One, Said
    <3>3. /\ jstage' = "verified" /\ jmsg' = 0 /\ Send(TheResponse, ok) /\ at' = "send"
          /\ UNCHANGED answers
      <4>1. RunAuthResponder(e, ok)
        BY <2>1, <2>7 DEF Receive
      <4> DEFINE p == JavaParseString(e.bytes)
      <4>2. Len(p) = 3 /\ p[2] = 1 /\ p[3] = 2
        BY <3>2
      <4>3. ProcessPeerChallenge(p, ok) /\ (jstage' = "verified" => at' = "send" /\ UNCHANGED answers)
        BY <3>2, <4>1 DEF RunAuthResponder
      <4> HIDE DEF p
      <4> QED BY <3>1, <4>2, <4>3 DEF ProcessPeerChallenge, TheResponse
    <3>4. AnswersOK' /\ asked' \in Seq(Texts) /\ Len(asked)' \in Len(answers)'..(Len(answers)' + 1)
      BY <1>1, <1>2, <2>7, <3>3 DEF AnswersOK, SdkTypes, SessionTypeOK
    <3>5. CASE sock' = "closed" /\ UNCHANGED <<up, sent>>
      <4>1. SdkTypes'
        BY <1>1, <1>2, <1>4, <1>5, <2>1, <2>3, <3>3, <3>4, <3>5 DEF SdkTypes, SessionTypeOK
      <4>2. UpOK(u)' /\ PrefixOK' /\ DownOK(<<>>)'
        BY <1>1, <1>2, <2>3, <2>5, <3>5 DEF UpOK, PrefixOK
      <4>3. UnconnectedOK'
        BY <1>2, <1>6, <3>5 DEF UnconnectedOK
      <4> QED BY <3>4, <3>5, <4>1, <4>2, <4>3 DEF SdkInv
    <3>6. CASE sock' = "open" /\ peer = "closed" /\ UNCHANGED <<up, sent>>
      <4>1. SdkTypes'
        BY <1>1, <1>2, <1>4, <1>5, <2>1, <2>3, <3>3, <3>4, <3>6 DEF SdkTypes, SessionTypeOK
      <4>2. UpOK(u)' /\ PrefixOK' /\ DownOK(<<>>)'
        BY <1>1, <1>2, <2>3, <2>5, <3>6 DEF UpOK, PrefixOK
      <4>3. UnconnectedOK'
        BY <1>2, <1>6, <3>6 DEF UnconnectedOK
      <4>4. DialogueOf(u, <<>>)'
        BY <1>2, <3>3, <3>6 DEF DialogueOf
      <4> QED BY <3>4, <4>1, <4>2, <4>3, <4>4 DEF SdkInv
    <3>7. CASE /\ sock' = "open" /\ peer # "closed" /\ ~(Len(TheResponse) >= MaxSize)
               /\ up' = up \o TheResponse /\ sent' = [sent EXCEPT !.up = Append(@, TheResponse)]
      <4>1. peer = "open" /\ u = <<>> /\ job = <<>>
        BY <1>1, <1>6, <3>1, <3>7 DEF SdkTypes, SessionTypeOK
      <4>2. TheResponse \in Framed
        <5> DEFINE k == Len(TheResponse)
        <5>1. TheResponse \in Seq(Nat) /\ (k < MaxSize => TheResponse \in Framed)
          BY Said
        <5>2. k \in Nat /\ MaxSize \in Nat /\ ~(k >= MaxSize)
          BY <3>7, <5>1, LenProperties, SizeAssumption
        <5> HIDE DEF k
        <5> QED BY <5>1, <5>2
      <4>3. /\ UpOK(<<TheResponse>>)' /\ IsPrefix(got'.up, sent'.up) /\ up' \in Seq(Nat)
            /\ sent' \in [up : Sequences, down : Sequences] /\ sent'.down = sent.down
        <5>1. /\ SdkTypes /\ PrefixOK /\ u \in Sequences /\ sent.up = got.up \o u
              /\ Flow(dcurd, up, u, FALSE) /\ got'.up = got.up /\ dcurd' = dcurd
          BY <1>1, <1>2, <2>3, <4>1 DEF UpOK
        <5> DEFINE b == TheResponse
        <5>2. /\ b \in Framed /\ up' = up \o b /\ sent' = [sent EXCEPT !.up = Append(@, b)]
          BY <3>7, <4>2
        <5>3. Append(u, b) = <<b>>
          BY <4>1
        <5> HIDE DEF b
        <5>4. /\ UpOK(Append(u, b))' /\ IsPrefix(got'.up, sent'.up) /\ up' \in Seq(Nat)
              /\ sent' \in [up : Sequences, down : Sequences] /\ sent'.down = sent.down
          BY ONLY <5>1, <5>2, <4>1, SentUp
        <5> QED BY <5>3, <5>4 DEF b
      <4>4. SdkTypes'
        BY <1>1, <1>2, <1>4, <1>5, <2>1, <2>3, <3>3, <3>4, <3>7, <4>3 DEF SdkTypes, SessionTypeOK
      <4>5. PrefixOK' /\ DownOK(<<>>)'
        BY <2>5, <4>3 DEF PrefixOK
      <4>6. UnconnectedOK'
        BY <1>2, <1>6, <3>7 DEF UnconnectedOK
      <4>7. DialogueOf(<<TheResponse>>, <<>>)'
        BY <1>2, <3>3, <4>1 DEF DialogueOf
      <4> QED BY <3>4, <4>3, <4>4, <4>5, <4>6, <4>7 DEF SdkInv
    <3> QED
      <4>1. ok => ~(Len(TheResponse) >= MaxSize)
        BY <1>2, <3>3 DEF Send, Sendable
      <4> QED BY <3>3, <3>5, <3>6, <3>7, <4>1 DEF Send
  <2> QED BY <1>2, <2>6, <2>7 DEF Waiting
<1> QED BY <1>7, <1>8

\* What the daemon reads while the SDK is there.
LEMMA OnTheWayUp ==
    ASSUME NEW u, NEW v, DialogueOf(u, v), peer = "open", job = <<>>, u # <<>>,
           at \in {"idle", "auth", "send", "recv"}, NEW ask, ask = AskOf(Last(asked))
    PROVE  /\ v = <<>>
           /\ \/ at = "auth" /\ u = <<TheRequest>> /\ jmsg = 1 /\ jstage = "anonymous"
              \/ at \in {"idle", "send"} /\ u = <<TheResponse>> /\ jstage = "verified"
              \/ at = "recv" /\ u \in {<<ask>>, <<TheResponse, ask>>} /\ jstage = "verified"
<1>1. CASE at = "auth"
  BY <1>1 DEF DialogueOf
<1>2. CASE at \in {"idle", "send"}
  BY <1>2 DEF DialogueOf
<1>3. CASE at = "recv"
  <2>1. AskUnderWay(Last(asked), u, v) /\ jstage = "verified"
    BY <1>3 DEF DialogueOf
  <2>2. <<Cut(Last(asked))>> # <<>>
    BY One
  <2> QED BY <1>3, <2>1, <2>2 DEF AskUnderWay
<1> QED BY <1>1, <1>2, <1>3

LEMMA DaemonReadStep ==
    ASSUME NEW u, NEW v, SdkInv(u, v), NEW n \in 1..MaxSize, DaemonRead(n),
           NEW t, t = Tail(u), NEW text, text = Last(asked), NEW ask, ask = AskOf(text)
    PROVE  SdkInv(u, v)' \/ SdkInv(t, v)' \/ SdkInv(t, <<TheChallenge>>)'
<1> DEFINE e == Recvfrom(dcurd, SubSeq(up, 1, n))
<1>1. /\ SdkTypes /\ AnswersOK /\ PrefixOK /\ UnconnectedOK /\ UpOK(u) /\ DownOK(v)
      /\ sock = "open" => DialogueOf(u, v)
  BY DEF SdkInv
<1>2. /\ peer = "open" /\ job = <<>> /\ n \in 1..Min({Wanted(dcurd), Len(up)})
      /\ up' = SubSeq(up, n + 1, Len(up))
      /\ UNCHANGED <<sock, jstage, jmsg, curd, at, asked, answers, paired>>
      /\ e = Oversized \/ (Completed(e) /\ ProcessWork(e) /\ dcurd' = Empty
                             /\ got' = [got EXCEPT !.up = Append(@, e.bytes)])
                       \/ (~Completed(e) /\ dcurd' = e
                             /\ UNCHANGED <<peer, dmsg, dstage, job, down, sent, got>>)
  BY DEF DaemonRead, sdk
<1>3. u \in Sequences /\ sent.up = got.up \o u /\ Flow(dcurd, up, u, FALSE)
  BY <1>1, <1>2 DEF UpOK
<1>4. Fresh(Empty) /\ Empty \in Partial /\ Empty.size \in 0..MaxSize - 1
  BY EmptyIsFresh, SmallSizes
<1>5. /\ u # <<>> /\ e # Oversized /\ up' \in Seq(Nat)
      /\ Completed(e) => /\ e.bytes = Head(u) /\ e.service = DecodeService(Head(u))
                         /\ Flow(Empty, up', t, FALSE) /\ Head(u) \in Framed
      /\ ~Completed(e) => Flow(e, up', u, FALSE)
  <2> DEFINE x == SubSeq(up, n + 1, Len(up))
             J == FALSE
             f == Empty
  <2>1. ReadStep(dcurd, up, n, e, x, J)
    BY <1>2 DEF ReadStep
  <2>2. J \in BOOLEAN /\ Flow(dcurd, up, u, J) /\ Fresh(f)
    BY <1>3, <1>4
  <2>3. up' = x
    BY <1>2
  <2> HIDE DEF e, x, J, f
  <2>4. Taken(e, x, u, f, J)
    BY <2>1, <2>2, FlowRead
  <2>5. Decoded(Head(u), J) = DecodeService(Head(u))
    BY DEF Decoded, J
  <2> QED BY <2>3, <2>4, <2>5 DEF Taken, J, f
<1> HIDE DEF e
<1>6. AnswersOK' /\ sock # "none"
  BY <1>1, <1>2 DEF AnswersOK, UnconnectedOK
<1>7. CASE ~Completed(e)
  <2>1. /\ dcurd' = e
        /\ UNCHANGED <<peer, dmsg, dstage, job, down, sent, got>>
    BY <1>2, <1>5, <1>7
  <2>2. Flow(e, up', u, FALSE)
    BY <1>5, <1>7
  <2>3. e \in Partial /\ e.size \in 0..MaxSize - 1
    BY <2>2, FlowTyped
  <2>4. SdkTypes'
    BY <1>1, <1>2, <1>5, <2>1, <2>3 DEF SdkTypes, SessionTypeOK
  <2>5. PrefixOK' /\ DownOK(v)'
    BY <1>1, <1>2, <2>1 DEF PrefixOK, DownOK
  <2>6. UpOK(u)'
    BY <1>3, <2>1, <2>2 DEF UpOK
  <2>7. UnconnectedOK'
    BY <1>2, <1>6, <2>1 DEF UnconnectedOK
  <2>8. ASSUME sock' = "open" PROVE DialogueOf(u, v)'
    BY <1>1, <1>2, <2>1, <2>8 DEF DialogueOf, AskUnderWay
  <2> QED BY <1>6, <2>4, <2>5, <2>6, <2>7, <2>8 DEF SdkInv
<1>8. CASE Completed(e)
  <2>1. /\ ProcessWork(e) /\ dcurd' = Empty /\ got' = [got EXCEPT !.up = Append(@, e.bytes)]
        /\ e.bytes = Head(u) /\ e.service = DecodeService(Head(u))
        /\ Flow(Empty, up', t, FALSE) /\ Head(u) \in Framed
    BY <1>2, <1>5, <1>8
  <2>2. /\ sent.up = Append(got.up, Head(u)) \o t
        /\ IsPrefix(Append(got.up, Head(u)), sent.up)
        /\ Append(got.up, Head(u)) \in Sequences /\ t \in Sequences
    <3> DEFINE s == sent.up
               g == got.up
    <3>1. g \in Sequences /\ u \in Sequences /\ u # <<>> /\ s = g \o u
      BY <1>1, <1>3, <1>5 DEF SdkTypes
    <3> HIDE DEF s, g
    <3>2. s = Append(g, Head(u)) \o Tail(u) /\ IsPrefix(Append(g, Head(u)), s)
          /\ Append(g, Head(u)) \in Sequences /\ Tail(u) \in Sequences
      BY <3>1, Taking
    <3> QED BY <3>2 DEF s, g
  <2>3. /\ got'.up = Append(got.up, Head(u)) /\ got'.down = got.down
        /\ got' \in [up : Sequences, down : Sequences]
    BY <1>1, <2>1, <2>2 DEF SdkTypes
  <2>4. sent'.up = sent.up => UpOK(t)' /\ IsPrefix(got'.up, sent'.up)
    BY <2>1, <2>2, <2>3 DEF UpOK
  <2> DEFINE p == ParseString(e.bytes)
             c == NewDatagram(PeerChallenge, <<DaemonKey, p[1], 2>>)
  <2>5. p \in Seq(Nat)
    <3>1. \A i \in (H + 1)..Len(e.bytes) : e.bytes[i] \in Nat
      <4>1. e.bytes \in Seq(Nat) /\ Len(e.bytes) \in Nat /\ H = 6
        BY <2>1, FramedIs
      <4>2. \A i \in 1..Len(e.bytes) : e.bytes[i] \in Nat
        BY <4>1, ElementOfSeq
      <4> QED BY <4>1, <4>2
    <3>2. e.bytes \in Seq(Nat) /\ H + 1 \in Int /\ Len(e.bytes) \in Int
      BY <2>1, FramedIs
    <3> QED BY <3>1, <3>2, SubSeqProperties DEF ParseString
  <2>6. \/ e.service = IdRequest /\ ProcessRequest(p)
        \/ e.service = ChallengeResponse /\ ProcessChallengeResponse(p)
        \/ /\ e.service = Request /\ UNCHANGED <<dmsg, dstage, down, sent>>
           /\ \/ job' = Append(job, p) /\ UNCHANGED peer
              \/ peer' = "closed" /\ UNCHANGED job
    BY <2>1 DEF ProcessWork
  <2>7. /\ DecodeService(TheRequest) = IdRequest /\ DecodeService(TheResponse) = ChallengeResponse
        /\ IdRequest # ChallengeResponse /\ IdRequest # Request /\ ChallengeResponse # Request
    BY Said DEF IdRequest, ChallengeResponse, Request
  <2>8. at # "idle" => text \in Texts
    <3> SUFFICES ASSUME at # "idle" PROVE text \in Texts
      OBVIOUS
    <3>1. asked \in Seq(Texts) /\ answers \in Sequences /\ Len(asked) = Len(answers) + 1
      BY <1>1 DEF SdkTypes, AnswersOK
    <3>2. Len(answers) \in Nat
      BY <3>1, LenProperties DEF Sequences
    <3>3. Len(asked) \in 1..Len(asked)
      BY <3>1, <3>2
    <3> QED BY <3>1, <3>3, ElementOfSeq DEF Last
  <2>9. text \in Texts => DecodeService(ask) = Request /\ ParseString(ask) = Cut(text)
    BY SaidToAsk
  <2>10. sock = "open" =>
           /\ v = <<>>
           /\ \/ /\ at = "auth" /\ e.service = IdRequest /\ e.bytes = TheRequest /\ t = <<>>
                 /\ jmsg = 1 /\ jstage = "anonymous"
              \/ /\ at \in {"idle", "send"} /\ e.service = ChallengeResponse /\ t = <<>>
                 /\ jstage = "verified"
              \/ /\ at = "recv" /\ e.service = ChallengeResponse /\ t = <<ask>>
                 /\ jstage = "verified"
              \/ /\ at = "recv" /\ e.service = Request /\ p = Cut(text) /\ t = <<>>
                 /\ jstage = "verified"
    <3> SUFFICES ASSUME sock = "open" PROVE <2>10!2
      OBVIOUS
    <3>1. /\ DialogueOf(u, v) /\ peer = "open" /\ job = <<>> /\ u # <<>>
          /\ at \in {"idle", "auth", "send", "recv"} /\ ask = AskOf(Last(asked))
      BY <1>1, <1>2, <1>5 DEF SdkTypes, SessionTypeOK
    <3>2. /\ v = <<>>
          /\ \/ at = "auth" /\ u = <<TheRequest>> /\ jmsg = 1 /\ jstage = "anonymous"
             \/ at \in {"idle", "send"} /\ u = <<TheResponse>> /\ jstage = "verified"
             \/ at = "recv" /\ u \in {<<ask>>, <<TheResponse, ask>>} /\ jstage = "verified"
      BY <3>1, OnTheWayUp
    <3>3. /\ u = <<TheRequest>> => e.bytes = TheRequest /\ e.service = IdRequest /\ t = <<>>
          /\ u = <<TheResponse>> => e.service = ChallengeResponse /\ t = <<>>
          /\ u = <<TheResponse, ask>> => e.service = ChallengeResponse /\ t = <<ask>>
          /\ u = <<ask>> => e.bytes = ask /\ e.service = DecodeService(ask) /\ t = <<>>
      <4>1. ASSUME NEW y, u = <<y>> PROVE Head(u) = y /\ t = <<>>
        BY <4>1, One
      <4>2. ASSUME NEW y, NEW z, u = <<y, z>> PROVE Head(u) = y /\ t = <<z>>
        BY <4>2, Two
      <4>3. u = <<TheRequest>> => e.bytes = TheRequest /\ e.service = IdRequest /\ t = <<>>
        BY <2>1, <2>7, <4>1
      <4>4. u = <<TheResponse>> => e.service = ChallengeResponse /\ t = <<>>
        BY <2>1, <2>7, <4>1
      <4>5. u = <<TheResponse, ask>> => e.service = ChallengeResponse /\ t = <<ask>>
        BY <2>1, <2>7, <4>2
      <4>6. u = <<ask>> => e.bytes = ask /\ e.service = DecodeService(ask) /\ t = <<>>
        BY <2>1, <4>1
      <4> QED BY ONLY <4>3, <4>4, <4>5, <4>6
    <3>4. at = "recv" /\ u = <<ask>> => e.service = Request /\ p = Cut(text)
      BY <2>8, <2>9, <3>3
    <3> HIDE DEF p
    <3> QED BY <3>2, <3>3, <3>4
  <2> HIDE DEF p
  <2>11. CASE /\ UNCHANGED <<down, sent>> /\ dmsg' \in {0, 2} /\ dstage' \in {"denied", "authorized"}
              /\ job' \in Sequences /\ peer' \in {"open", "closed"}
              /\ sock = "open" => DialogueOf(t, v)'
    <3>1. SdkTypes'
      BY <1>1, <1>2, <1>4, <1>5, <2>1, <2>3, <2>11 DEF SdkTypes, SessionTypeOK
    <3>2. UpOK(t)' /\ DownOK(v)' /\ PrefixOK'
      BY <1>1, <1>2, <2>3, <2>4, <2>11 DEF DownOK, PrefixOK
    <3>3. UnconnectedOK'
      BY <1>2, <1>6, <2>11 DEF UnconnectedOK
    <3> QED BY <1>2, <1>6, <2>11, <3>1, <3>2, <3>3 DEF SdkInv
  <2>12. /\ dmsg \in {0, 2} /\ dstage \in {"denied", "authorized"} /\ job \in Sequences
    BY <1>1 DEF SdkTypes, SessionTypeOK
  <2>13. CASE e.service = ChallengeResponse /\ ProcessChallengeResponse(p)
    <3>1. /\ UNCHANGED <<peer, job, down, sent>> /\ dmsg' = 0 /\ dstage' \in {"denied", "authorized"}
      BY <2>13 DEF ProcessChallengeResponse
    <3>2. ASSUME sock = "open" PROVE DialogueOf(t, v)'
      <4>1. CASE at \in {"idle", "send"} /\ t = <<>> /\ v = <<>> /\ jstage = "verified"
        BY <1>2, <3>1, <4>1 DEF DialogueOf
      <4>2. CASE at = "recv" /\ t = <<ask>> /\ v = <<>> /\ jstage = "verified"
        <5>1. AskUnderWay(text, t, v)'
          BY <1>2, <3>1, <4>2 DEF AskUnderWay
        <5> QED BY <1>2, <3>1, <4>2, <5>1 DEF DialogueOf
      <4> QED BY <2>7, <2>10, <2>13, <3>2, <4>1, <4>2
    <3> QED BY <1>2, <2>11, <2>12, <3>1, <3>2
  <2>14. CASE /\ e.service = Request /\ UNCHANGED <<dmsg, dstage, down, sent>>
              /\ \/ job' = Append(job, p) /\ UNCHANGED peer
                 \/ peer' = "closed" /\ UNCHANGED job
    <3>1. job' \in Sequences /\ peer' \in {"open", "closed"}
      <4>1. Append(job, p) \in Sequences
        <5> DEFINE V == Seq(Nat)
        <5>1. job \in Seq(V) /\ p \in V
          BY <2>5, <2>12 DEF Sequences
        <5> HIDE DEF V
        <5>2. Append(job, p) \in Seq(V)
          BY <5>1, AppendProperties
        <5> QED BY <5>2 DEF V, Sequences
      <4> QED BY <1>2, <2>12, <2>14, <4>1
    <3>2. ASSUME sock = "open" PROVE DialogueOf(t, v)'
      <4>1. at = "recv" /\ p = Cut(text) /\ t = <<>> /\ v = <<>> /\ jstage = "verified"
        BY <2>7, <2>10, <2>14, <3>2
      <4>2. ASSUME peer' = "open" PROVE AskUnderWay(text, t, v)'
        <5>1. job' = Append(<<>>, p)
          BY <1>2, <2>14, <4>2
        <5>2. job' = <<Cut(text)>>
          BY <4>1, <5>1
        <5> QED BY <4>1, <5>2 DEF AskUnderWay
      <4> QED BY <1>2, <4>1, <4>2 DEF DialogueOf
    <3> QED BY <2>11, <2>12, <2>14, <3>1, <3>2
  <2>15. CASE e.service = IdRequest /\ ProcessRequest(p)
    <3>1. dmsg' = 2 /\ Sendto(c) /\ UNCHANGED <<dstage, job>>
      BY <2>15 DEF ProcessRequest
    <3>2. ASSUME sock = "open"
          PROVE  /\ at = "auth" /\ t = <<>> /\ v = <<>> /\ jmsg = 1 /\ jstage = "anonymous"
                 /\ e.bytes = TheRequest
      BY <2>7, <2>10, <2>15, <3>2
    <3>3. CASE peer' = "closed" /\ UNCHANGED <<down, sent>>
      <4>1. ASSUME sock = "open" PROVE DialogueOf(t, v)'
        BY <1>2, <3>2, <3>3, <4>1 DEF DialogueOf
      <4> QED BY <2>11, <2>12, <3>1, <3>3, <4>1
    <3>4. CASE /\ sock = "open" /\ Len(c) < MaxSize /\ UNCHANGED peer
               /\ down' = down \o c /\ sent' = [sent EXCEPT !.down = Append(@, c)]
      <4>1. c = TheChallenge
        <5>1. p[1] = 1
          BY <3>2, <3>4, Said DEF p
        <5> QED BY <5>1 DEF TheChallenge
      <4> HIDE DEF c
      <4>2. TheChallenge \in Framed
        BY <3>4, <4>1, Said
      <4>3. /\ DownOK(<<TheChallenge>>)' /\ IsPrefix(got'.down, sent'.down) /\ down' \in Seq(Nat)
            /\ sent' \in [up : Sequences, down : Sequences] /\ sent'.up = sent.up
        <5> DEFINE b == TheChallenge
        <5>1. sent.down = got.down /\ Flow(curd, down, <<>>, TRUE)
          <6>1. sent.down = got.down \o v /\ Flow(curd, down, v, TRUE)
            BY <1>1, <3>4 DEF DownOK
          <6>2. got.down \in Sequences
            BY <1>1 DEF SdkTypes
          <6> QED BY <3>2, <3>4, <6>1, <6>2, ConcatEmptySeq DEF Sequences
        <5>2. SdkTypes /\ PrefixOK /\ got'.down = got.down /\ curd' = curd
          BY <1>1, <1>2, <2>3
        <5>3. b \in Framed /\ down' = down \o b /\ sent' = [sent EXCEPT !.down = Append(@, b)]
          BY <3>4, <4>1, <4>2
        <5> HIDE DEF b
        <5>4. /\ DownOK(<<b>>)' /\ IsPrefix(got'.down, sent'.down) /\ down' \in Seq(Nat)
              /\ sent' \in [up : Sequences, down : Sequences] /\ sent'.up = sent.up
          BY ONLY <5>1, <5>2, <5>3, SentDown
        <5> QED BY <5>4 DEF b
      <4>4. SdkTypes'
        BY <1>1, <1>2, <1>4, <1>5, <2>1, <2>3, <3>1, <3>4, <4>3 DEF SdkTypes, SessionTypeOK
      <4>5. UpOK(t)' /\ PrefixOK'
        BY <2>4, <4>3 DEF PrefixOK
      <4>6. UnconnectedOK'
        BY <1>2, <1>6, <3>4 DEF UnconnectedOK
      <4>7. DialogueOf(t, <<TheChallenge>>)'
        BY <1>2, <3>1, <3>2, <3>4 DEF DialogueOf
      <4> QED BY <1>6, <4>3, <4>4, <4>5, <4>6, <4>7 DEF SdkInv
    <3> QED BY <3>1, <3>3, <3>4 DEF Sendto
  <2> QED BY <2>6, <2>13, <2>14, <2>15
<1> QED BY <1>7, <1>8

\* The invariant, for what is on the way.
SdkInvariant == \E u, v : SdkInv(u, v)

\* No step breaks it.
LEMMA SdkInvariantKept ==
    ASSUME SdkInvariant, [SessionNext]_sessionvars
    PROVE  SdkInvariant'
<1>1. PICK u, v : SdkInv(u, v)
  BY DEF SdkInvariant
<1> SUFFICES \E x, y : SdkInv(x, y)'
  BY DEF SdkInvariant
<1>2. ASSUME NEW k \in 1..MaxAsk, NEW text \in ArgsOf[k],
             ConnectWalletd(text) \/ ConnectRefused(text) \/ AskAgain(text)
      PROVE  \E x, y : SdkInv(x, y)'
  <2>1. text \in Texts
    BY AskAssumption DEF Texts
  <2> QED BY <1>1, <1>2, <2>1, ConnectStep, ConnectRefusedStep, AskAgainStep
<1>3. ASSUME NEW ok \in BOOLEAN, SendRequest(ok) PROVE \E x, y : SdkInv(x, y)'
  <2>1. PICK text, b : text = Last(asked) /\ b = AskOf(text)
    OBVIOUS
  <2>2. SdkInv(u, v)' \/ SdkInv(Append(u, b), v)'
    BY <1>1, <1>3, <2>1, SendRequestStep
  <2> QED BY <2>2
<1>4. ASSUME NEW n \in 1..MaxSize, NEW ok \in BOOLEAN, ClientRead(n, ok)
      PROVE  \E x, y : SdkInv(x, y)'
  BY <1>1, <1>4, ClientReadStep
<1>5. ASSUME ClientReadFails PROVE \E x, y : SdkInv(x, y)'
  BY <1>1, <1>5, ClientReadFailsStep
<1>6. ASSUME NEW n \in 1..MaxSize, DaemonRead(n) PROVE \E x, y : SdkInv(x, y)'
  <2>1. PICK t, text, ask : t = Tail(u) /\ text = Last(asked) /\ ask = AskOf(text)
    OBVIOUS
  <2>2. SdkInv(u, v)' \/ SdkInv(t, v)' \/ SdkInv(t, <<TheChallenge>>)'
    BY <1>1, <1>6, <2>1, DaemonReadStep
  <2> QED BY <2>2
<1>7. ASSUME SendResponse PROVE \E x, y : SdkInv(x, y)'
  <2>1. PICK text, b : text = Last(asked) /\ b = AnswerTo(text)
    OBVIOUS
  <2>2. SdkInv(u, v)' \/ SdkInv(u, <<b>>)'
    BY <1>1, <1>7, <2>1, SendResponseStep
  <2> QED BY <2>2
<1>8. ASSUME DaemonCloses PROVE \E x, y : SdkInv(x, y)'
  BY <1>1, <1>8, DaemonClosesStep
<1>9. ASSUME UNCHANGED sessionvars PROVE \E x, y : SdkInv(x, y)'
  <2>1. SdkInv(u, v)'
    BY <1>1, <1>9 DEF sessionvars, sdk, daemon, SdkInv, SdkTypes, SessionTypeOK, AnswersOK, PrefixOK,
         UnconnectedOK, UpOK, DownOK, DialogueOf, AskUnderWay
  <2> QED BY <2>1
<1> QED BY <1>2, <1>3, <1>4, <1>5, <1>6, <1>7, <1>8, <1>9 DEF SessionNext, SdkStep

\* It holds in every state, whatever the base, the bound on the sizes and the asks.
LEMMA SdkInvariantHolds == SessionSpec => []SdkInvariant
<1>1. SessionInit => SdkInvariant
  BY SdkStarts DEF SdkInvariant
<1>2. SdkInvariant /\ [SessionNext]_sessionvars => SdkInvariant'
  BY SdkInvariantKept
<1> QED BY <1>1, <1>2, PTL DEF SessionSpec

\* recvfrom and sendto of both languages: however TCP cuts the bytes, each end receives
\* the datagrams the other has sent, whole and in order, for every base and every size.
THEOREM DatagramsWhole == SessionSpec => []WholeDatagrams
<1>1. SdkInvariant => WholeDatagrams
  BY SdkInvImplies DEF SdkInvariant
<1> QED BY <1>1, SdkInvariantHolds, PTL

\* ask: what it writes answers what this very ask asked, or is an error.
THEOREM AnswersBelong == SessionSpec => []AnswersItsAsk
<1>1. SdkInvariant => AnswersItsAsk
  BY SdkInvImplies DEF SdkInvariant
<1> QED BY <1>1, SdkInvariantHolds, PTL
=============================================================================
