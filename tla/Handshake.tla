------------------------------ MODULE Handshake ------------------------------
(***************************************************************************)
(* How the two ends of each connection learn who the other is (id/peer_t), *)
(* and which connections a node keeps (auth/peer_t, engine/peer_t).        *)
(*                                                                         *)
(* The end that connected sends a random message; the other signs it and   *)
(* sends a random message of its own with its public key; the first        *)
(* verifies, signs and answers.  Both then authorize what they verified: a *)
(* node refuses a second connection to the same public key.                *)
(*                                                                         *)
(* Several workers of a node handle datagrams of different connections at  *)
(* the same time; the datagrams of one connection are handled one by one   *)
(* and arrive in order (module Clients).  A public key is named by the     *)
(* node that has it, a random message by the end that drew it.             *)
(***************************************************************************)
EXTENDS Naturals, Sequences, FiniteSets

CONSTANTS Node,          \* the nodes
          Conn,          \* the connections
          Dialler,       \* the node that makes each of them
          Dialled,       \* the node it reaches
          Broken,        \* nodes that cannot sign for the key they show
          MaxConn,       \* bound: connections made
          SysopAllowed,  \* daemon.sysop_allowed
          None

ASSUME HandshakeAssumption ==
  /\ Dialler \in [Conn -> Node] /\ Dialled \in [Conn -> Node]
  /\ Broken \subseteq Node
  /\ MaxConn \in Nat
  /\ SysopAllowed \in BOOLEAN
  /\ None \notin Node /\ None \notin Conn \X {"dialler", "dialled"}

VARIABLES
  open,        \* the end's socket is open
  active,      \* the end is in clients.active_ of its node
  msg,         \* the message it waits to see signed, or None
  stage_peer,  \* what it thinks of the other end
  pubkey,      \* the key it verified, or None
  auth,        \* auth::peer_t::stage
  stage,       \* engine::peer_t::stage; out, hall and node are "member"
  step,        \* its worker: "free", "authorize" or "decide"
  leaving,     \* it has asked to be disconnected
  net          \* the datagrams on their way to it

vars == <<open, active, msg, stage_peer, pubkey, auth, stage, step, leaving, net>>

End == Conn \X {"dialler", "dialled"}
Other(e) == <<e[1], IF e[2] = "dialler" THEN "dialled" ELSE "dialler">>
Owner(e) == IF e[2] = "dialler" THEN Dialler[e[1]] ELSE Dialled[e[1]]

Init ==
  /\ open = [e \in End |-> FALSE]
  /\ active = [e \in End |-> FALSE]
  /\ msg = [e \in End |-> None]
  /\ stage_peer = [e \in End |-> "anonymous"]
  /\ pubkey = [e \in End |-> None]
  /\ auth = [e \in End |-> "denied"]
  /\ stage = [e \in End |-> "unknown"]
  /\ step = [e \in End |-> "free"]
  /\ leaving = [e \in End |-> FALSE]
  /\ net = [e \in End |-> <<>>]

Mut_Verify(p, m, sig) == sig.key = p /\ sig.over = m

\* ec::sign_encode and ec::verify: a signature is good for one key, one message.
Sign(e, m) == [key |-> Owner(e), over |-> m, good |-> Owner(e) \notin Broken]
Verify(p, m, sig) == sig.good /\ sig.key = p /\ sig.over = m

Made(c) == open[<<c, "dialler">>] \/ leaving[<<c, "dialler">>]

\* connect() and initiate_dialogue(); the other node accepts, and both list the
\* new client as active before they can read from it.
Connect(c) ==
  LET e == <<c, "dialler">> IN
  /\ ~Made(c) /\ Cardinality({d \in Conn : Made(d)}) < MaxConn
  /\ open' = [open EXCEPT ![e] = TRUE, ![Other(e)] = TRUE]
  /\ active' = [active EXCEPT ![e] = TRUE, ![Other(e)] = TRUE]
  /\ msg' = [msg EXCEPT ![e] = e]
  /\ net' = [net EXCEPT ![Other(e)] = <<[service |-> "request", msg |-> e]>>]
  /\ UNCHANGED <<stage_peer, pubkey, auth, stage, step, leaving>>

\* A worker takes the next datagram of an end nobody is working on.
Receives(e, service) ==
  /\ open[e] /\ step[e] = "free"
  /\ net[e] # <<>> /\ Head(net[e]).service = service

process_request(e) ==
  /\ Receives(e, "request")
  /\ LET d == Head(net[e]) IN
       net' = [net EXCEPT ![e] = Tail(@),
                          ![Other(e)] = Append(@, [service |-> "peer_challenge",
                             pub |-> Owner(e), sig |-> Sign(e, d.msg), msg |-> e])]
  /\ msg' = [msg EXCEPT ![e] = e]
  /\ UNCHANGED <<open, active, stage_peer, pubkey, auth, stage, step, leaving>>

\* What both ends do with the key and signature in a datagram.
Judge(e, d) ==
  LET ok == Verify(d.pub, msg[e], d.sig) IN
  /\ stage_peer' = [stage_peer EXCEPT ![e] = IF ok THEN "verified" ELSE "verified_fail"]
  /\ pubkey' = [pubkey EXCEPT ![e] = IF ok THEN d.pub ELSE @]
  /\ msg' = [msg EXCEPT ![e] = None]
  /\ step' = [step EXCEPT ![e] = "authorize"]

\* The answer is sent whatever the verdict.
process_peer_challenge(e) ==
  /\ Receives(e, "peer_challenge")
  /\ LET d == Head(net[e]) IN
       /\ Judge(e, d)
       /\ net' = [net EXCEPT ![e] = Tail(@),
                             ![Other(e)] = Append(@, [service |-> "challenge_response",
                                pub |-> Owner(e), sig |-> Sign(e, d.msg)])]
  /\ UNCHANGED <<open, active, auth, stage, leaving>>

process_challenge_response(e) ==
  /\ Receives(e, "challenge_response")
  /\ Judge(e, Head(net[e]))
  /\ net' = [net EXCEPT ![e] = Tail(@)]
  /\ UNCHANGED <<open, active, auth, stage, leaving>>

Mut_is_duplicate(n, p) ==
  \E e, f, g \in End : /\ e # f /\ f # g /\ e # g
                       /\ \A h \in {e, f, g} : Owner(h) = n /\ active[h] /\ pubkey[h] = p

\* More than one of the node's active connections has this public key.
is_duplicate(n, p) ==
  \E e, f \in End : /\ e # f /\ Owner(e) = n /\ Owner(f) = n
                    /\ active[e] /\ active[f]
                    /\ pubkey[e] = p /\ pubkey[f] = p

\* auth::peer_t::verification_completed.
Authorize(e) ==
  /\ step[e] = "authorize"
  /\ auth' = [auth EXCEPT ![e] =
       IF stage_peer[e] = "verified" /\ ~is_duplicate(Owner(e), pubkey[e])
       THEN "authorized" ELSE @]
  /\ step' = [step EXCEPT ![e] = "decide"]
  /\ UNCHANGED <<open, active, msg, stage_peer, pubkey, stage, leaving, net>>

Mut_Decide(e) ==
  LET sysop == stage_peer[e] = "verified" /\ pubkey[e] = Owner(e)
      a == IF ~sysop THEN auth[e] ELSE IF SysopAllowed THEN "authorized" ELSE "denied"
  IN
  /\ step[e] = "decide"
  /\ auth' = [auth EXCEPT ![e] = a]
  /\ stage' = [stage EXCEPT ![e] = IF sysop THEN "sysop"
                                   ELSE IF stage_peer[e] = "verified" THEN "member" ELSE @]
  /\ leaving' = [leaving EXCEPT ![e] = stage_peer[e] # "verified"]
  /\ step' = [step EXCEPT ![e] = "free"]
  /\ UNCHANGED <<open, active, msg, stage_peer, pubkey, net>>

\* The rest of engine::peer_t::verification_completed, with
\* basic_auth_completed: the node's own key is the sysop's, whose authorization
\* does not depend on the layer below; who is not authorized is disconnected.
Decide(e) ==
  LET sysop == stage_peer[e] = "verified" /\ pubkey[e] = Owner(e)
      a == IF ~sysop THEN auth[e] ELSE IF SysopAllowed THEN "authorized" ELSE "denied"
  IN
  /\ step[e] = "decide"
  /\ auth' = [auth EXCEPT ![e] = a]
  /\ stage' = [stage EXCEPT ![e] = IF sysop THEN "sysop"
                                   ELSE IF stage_peer[e] = "verified" THEN "member" ELSE @]
  /\ leaving' = [leaving EXCEPT ![e] = stage_peer[e] # "verified" \/ a # "authorized"]
  /\ step' = [step EXCEPT ![e] = "free"]
  /\ UNCHANGED <<open, active, msg, stage_peer, pubkey, net>>

\* The other end is closed and everything it sent is read: recv fails.
RecvFails(e) ==
  /\ open[e] /\ step[e] = "free" /\ ~leaving[e]
  /\ ~open[Other(e)] /\ net[e] = <<>>
  /\ leaving' = [leaving EXCEPT ![e] = TRUE]
  /\ UNCHANGED <<open, active, msg, stage_peer, pubkey, auth, stage, step, net>>

\* shrink: the end is closed once no worker is on it.
Close(e) ==
  /\ open[e] /\ leaving[e] /\ step[e] = "free"
  /\ open' = [open EXCEPT ![e] = FALSE]
  /\ net' = [net EXCEPT ![e] = <<>>]
  /\ UNCHANGED <<active, msg, stage_peer, pubkey, auth, stage, step, leaving>>

\* The scan that follows: until then the closed end counts as active.
Scan(e) ==
  /\ active[e] /\ ~open[e]
  /\ active' = [active EXCEPT ![e] = FALSE]
  /\ UNCHANGED <<open, msg, stage_peer, pubkey, auth, stage, step, leaving, net>>

EndStep(e) ==
  \/ Scan(e) \/ process_request(e) \/ process_peer_challenge(e)
  \/ process_challenge_response(e) \/ Authorize(e) \/ Decide(e)
  \/ RecvFails(e) \/ Close(e)

Next == (\E c \in Conn : Connect(c)) \/ (\E e \in End : EndStep(e))

\* The nodes' threads run, while any of them has something to do; connections
\* are made when they are made.
Fairness == WF_vars(\E e \in End : EndStep(e))

Spec == Init /\ [][Next]_vars
LiveSpec == Spec /\ Fairness

-----------------------------------------------------------------------------
(* Properties *)

Signature == [key : Node, over : End, good : BOOLEAN]
Datagram ==
  [service : {"request"}, msg : End]
    \cup [service : {"peer_challenge"}, pub : Node, sig : Signature, msg : End]
    \cup [service : {"challenge_response"}, pub : Node, sig : Signature]

\* Types of an end's state (id/peer_t.h, auth/peer_t.h, engine/peer_t.h).
TypeOK ==
  /\ open \in [End -> BOOLEAN] /\ active \in [End -> BOOLEAN]
  /\ msg \in [End -> End \cup {None}]
  /\ stage_peer \in [End -> {"anonymous", "verified", "verified_fail"}]
  /\ pubkey \in [End -> Node \cup {None}]
  /\ auth \in [End -> {"denied", "authorized"}]
  /\ stage \in [End -> {"unknown", "sysop", "member"}]
  /\ step \in [End -> {"free", "authorize", "decide"}]
  /\ leaving \in [End -> BOOLEAN]
  /\ net \in [End -> Seq(Datagram)]

\* A key an end has verified is the key of the node that owns the other end,
\* and that node can sign with it: it signed the message this end drew for this
\* connection (process_peer_challenge, process_challenge_response).
VerifiedIsPeer ==
  \A e \in End : stage_peer[e] = "verified" =>
     /\ pubkey[e] = Owner(Other(e))
     /\ Owner(Other(e)) \notin Broken

\* A node keeps no two open connections to the same other node, however their
\* handshakes overlap: the last of them to verify the key sees the others
\* (is_duplicate runs after pubkey is set).  The sysop's are exempt.
OneConnectionPerPeer ==
  \A e, f \in End :
     /\ Owner(e) = Owner(f) /\ pubkey[e] = pubkey[f] /\ pubkey[e] # Owner(e)
     /\ open[e] /\ open[f]
     /\ auth[e] = "authorized" /\ auth[f] = "authorized"
     => e = f

\* Every connection that is made settles: both ends authorize each other or
\* both close, also when one end refuses after the other has accepted.
Settles ==
  <>[](\A e \in End :
         \/ open[e] /\ auth[e] = "authorized" /\ open[Other(e)] /\ auth[Other(e)] = "authorized"
         \/ ~open[e] /\ ~open[Other(e)])
=============================================================================
