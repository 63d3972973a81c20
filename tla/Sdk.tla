-------------------------------- MODULE Sdk --------------------------------
(***************************************************************************)
(* A program that uses the Java SDK (sdk/java/us) and the wallet daemon    *)
(* that serves it, down to the bytes of the connection between them.       *)
(*   - the program asks (rpc_api.ask); the first ask connects and lets     *)
(*     both ends prove who they are (run_auth_responder); an ask ends with *)
(*     the text of the answer or of an error;                              *)
(*   - TCP keeps the order of the bytes and nothing else: a read returns   *)
(*     any number of those that have arrived, and each end puts its        *)
(*     datagrams together from them (recvfrom);                            *)
(*   - a read that waits 3 seconds fails, and the daemon may be killed.    *)
(*                                                                         *)
(* java.net.Socket.isConnected, which the SDK takes for `connected',       *)
(* stays true after close: the SDK connects at most once.  The daemon's    *)
(* end is C++ (gov/socket, gov/id); it reads one datagram at a time.       *)
(*                                                                         *)
(* A byte has Base values here, 256 in the code.  A public key, a random   *)
(* message and its signature are one byte each, without the blanks between *)
(* them, and a signature is the message itself: who can sign is the matter *)
(* of module Handshake.  What the wallet does is that of module Wallet:    *)
(* the answer is the argument.                                             *)
(***************************************************************************)
EXTENDS Integers, SequencesExt

CONSTANTS
    Base,     \* values of a byte
    MaxSize,  \* datagram::maxsize
    MaxAsk,   \* bound: asks of the program
    ArgsOf    \* the arguments ask k may have: sequences of characters, each
              \* the sequence of its bytes in UTF-8

H == 6

ASSUME BaseAssumption == Base \in Nat /\ Base >= 3

\* The sizes there are fit in the int of Java (100000 and 2^31 in the code).
ASSUME SizeAssumption ==
    /\ MaxSize \in Nat /\ MaxSize > H
    /\ 2 * MaxSize <= Base * Base * Base * Base

\* No character is NUL, at which the parse_string of C++ stops.
ASSUME AskAssumption ==
    /\ MaxAsk \in Nat
    /\ \A k \in 1..MaxAsk : ArgsOf[k] \subseteq Seq(Seq(Nat \ {0}) \ {<<>>})

VARIABLES
    \* the SDK
    sock,        \* "none", "open", or "closed", which is for good
    jstage,      \* stage_peer: "anonymous", "verified" or "verified_fail"
    jmsg,        \* msg: sent to be signed, 0 when there is none
    curd,        \* the datagram that recv puts together
    at,          \* "idle", "auth" (run_auth_responder), "send" or "recv"
    asked,       \* arguments of every ask so far
    answers,     \* what every ask that has ended wrote
    \* the connection
    up, down,    \* bytes under way
    \* the daemon
    peer,        \* its end: "none", "open" or "closed"
    dmsg, dstage,\* the same of its end
    dcurd,
    job,         \* requests a worker serves
    paired,      \* the device is, so that authorize says yes
    \* history: datagrams whole as they were sent and received
    sent, got

sdk == <<sock, jstage, jmsg, curd, at, asked, answers>>
daemon == <<peer, dmsg, dstage, dcurd, job, paired>>
sessionvars == <<sdk, up, down, daemon, sent, got>>

\* Services.
IdRequest == 1
PeerChallenge == 2
ChallengeResponse == 3
Request == 4
Response == Request + 1

SdkKey == 1
DaemonKey == 2

-----------------------------------------------------------------------------
(***************************************************************************)
(* Datagrams in C++ ...                                                    *)
(***************************************************************************)
Base2 == Base * Base
Base3 == Base2 * Base
Base4 == Base3 * Base

EncodeSize(sz) ==
    <<sz % Base, (sz \div Base) % Base, (sz \div Base2) % Base, (sz \div Base3) % Base>>

DecodeSize(b) == b[1] + b[2] * Base + b[3] * Base2 + b[4] * Base3

EncodeService(svc) == <<svc % Base, (svc \div Base) % Base>>

DecodeService(b) == b[5] + b[6] * Base

\* datagram::datagram(service, payload)
NewDatagram(service, payload) ==
    EncodeSize(H + Len(payload)) \o EncodeService(service) \o payload

ParseString(b) == SubSeq(b, H + 1, Len(b))

\* datagram::datagram()
Empty == [bytes |-> <<>>, size |-> 0, service |-> 0]

\* recv puts an error in its place.
Oversized == [bytes |-> <<>>, size |-> -1, service |-> 0]

Completed(d) == Len(d.bytes) = d.size /\ d.size # 0

\* How many bytes recvfrom asks for: the header first, then the rest.
Wanted(d) == (IF Len(d.bytes) < H THEN H ELSE d.size) - Len(d.bytes)

\* datagram::recvfrom, when ::recv returns the chunk.
Recvfrom(d, chunk) ==
    LET b == d.bytes \o chunk
    IN  IF Len(b) < H THEN [d EXCEPT !.bytes = b, !.size = H]
        ELSE IF Len(d.bytes) >= H THEN [d EXCEPT !.bytes = b]
        ELSE IF DecodeSize(b) > MaxSize THEN Oversized
        ELSE [bytes |-> b, size |-> DecodeSize(b), service |-> DecodeService(b)]

(***************************************************************************)
(* ... and in Java, where int and short have a sign, and the size of the   *)
(* text is that of its characters.                                         *)
(***************************************************************************)
Signed(n, values) == IF 2 * n >= values THEN n - values ELSE n

JavaEncodeSize(sz) ==
    <<sz % Base, (sz \div Base) % Base, (sz \div Base2) % Base, (sz \div Base3) % Base>>

JavaDecodeSize(b) == Signed(b[1] + b[2] * Base + b[3] * Base2 + b[4] * Base3, Base4)

JavaEncodeService(svc) == <<svc % Base, (svc \div Base) % Base>>

JavaDecodeService(b) == Signed(b[5] + b[6] * Base, Base2)

GetBytes(text) == FlattenSeq(text)

\* datagram(short, String)
JavaDatagram(service, text) ==
    JavaEncodeSize(H + Len(text)) \o JavaEncodeService(service) \o SubSeq(GetBytes(text), 1, Len(text))

JavaParseString(b) == SubSeq(b, H + 1, Len(b))

\* datagram()
JavaEmpty == [bytes |-> <<>>, size |-> H, service |-> 0]

\* Mutant: the size is taken to be one less.
Mut_JavaRecvfrom(d, chunk) ==
    LET b == d.bytes \o chunk
        sz == JavaDecodeSize(b) - 1
    IN  IF Len(b) < H \/ Len(d.bytes) >= H THEN [d EXCEPT !.bytes = b]
        ELSE IF sz > MaxSize \/ sz < 0 THEN Oversized
        ELSE [bytes |-> b, size |-> sz, service |-> JavaDecodeService(b)]

JavaRecvfrom(d, chunk) ==
    LET b == d.bytes \o chunk
        sz == JavaDecodeSize(b)
    IN  IF Len(b) < H \/ Len(d.bytes) >= H THEN [d EXCEPT !.bytes = b]
        ELSE IF sz > MaxSize \/ sz < 0 THEN Oversized
        ELSE [bytes |-> b, size |-> sz, service |-> JavaDecodeService(b)]

-----------------------------------------------------------------------------
\* rpc_api: a socket that is not connected, and a peer nobody knows.
SdkInit ==
    /\ sock = "none" /\ jstage = "anonymous" /\ jmsg = 0 /\ curd = JavaEmpty
    /\ at = "idle" /\ asked = <<>> /\ answers = <<>>

DaemonInit ==
    /\ peer = "none" /\ dmsg = 0 /\ dstage = "denied" /\ dcurd = Empty /\ job = <<>>
    /\ paired \in BOOLEAN

SessionInit ==
    /\ SdkInit /\ DaemonInit
    /\ up = <<>> /\ down = <<>>
    /\ sent = [up |-> <<>>, down |-> <<>>] /\ got = [up |-> <<>>, down |-> <<>>]

(***************************************************************************)
(* The SDK.                                                                *)
(***************************************************************************)

\* Socket.isConnected
Connected == sock # "none"

\* Whether sendto may succeed: a write to a socket whose other end is gone
\* may, or may not.
Sendable(b) ==
    IF Len(b) >= MaxSize \/ sock = "closed" THEN {FALSE}
    ELSE IF peer = "closed" THEN {TRUE, FALSE} ELSE {TRUE}

\* client.send: a failure disconnects.
Send(b, ok) ==
    /\ ok \in Sendable(b)
    /\ sock' = IF ok THEN "open" ELSE "closed"
    /\ IF ok /\ peer # "closed" THEN up' = up \o b /\ sent' = [sent EXCEPT !.up = Append(@, b)]
       ELSE UNCHANGED <<up, sent>>

Finish(text) ==
    /\ answers' = Append(answers, text)
    /\ at' = "idle"

Error == <<>>

\* rpc_api.ask
Ask(text) ==
    /\ at = "idle" /\ Len(asked) < MaxAsk
    /\ asked' = Append(asked, text)

\* initiate_dialogue
InitiateDialogue ==
    /\ jmsg' = 1 /\ at' = "auth" /\ curd' = JavaEmpty
    /\ Send(JavaDatagram(IdRequest, << <<1>> >>), TRUE)

\* connect_walletd without a connection: the daemon accepts.
ConnectWalletd(text) ==
    /\ Ask(text) /\ ~Connected
    /\ InitiateDialogue
    /\ peer' = "open"
    /\ UNCHANGED <<jstage, answers, down, dmsg, dstage, dcurd, job, paired, got>>

\* Nobody listens.
ConnectRefused(text) ==
    /\ Ask(text) /\ ~Connected
    /\ Finish(Error)
    /\ UNCHANGED <<sock, jstage, jmsg, curd, up, down, daemon, sent, got>>

\* connect_walletd finds the socket connected.
AskAgain(text) ==
    /\ Ask(text) /\ Connected
    /\ at' = "send"
    /\ UNCHANGED <<sock, jstage, jmsg, curd, answers, up, down, daemon, sent, got>>

\* send_recv, its send.
SendRequest(ok) ==
    /\ at = "send"
    /\ LET b == JavaDatagram(Request, Last(asked))
       IN  Send(b, ok)
    /\ IF ok THEN at' = "recv" /\ curd' = JavaEmpty /\ UNCHANGED answers
             ELSE Finish(Error) /\ UNCHANGED curd
    /\ UNCHANGED <<jstage, jmsg, asked, down, daemon, got>>

Waiting == at \in {"auth", "recv"}

\* Mutant: the connection is kept.
Mut_Fail == Finish(Error) /\ UNCHANGED sock

\* recv after an error of recvfrom: disconnect, and the ask ends.
Fail == Finish(Error) /\ sock' = "closed"

\* process_peer_challenge: the SDK is convinced, or not, and proves itself.
ProcessPeerChallenge(parts, ok) ==
    /\ jstage' = IF Len(parts) = 3 /\ parts[2] = jmsg THEN "verified" ELSE "verified_fail"
    /\ IF Len(parts) = 3
       THEN jmsg' = 0 /\ Send(JavaDatagram(ChallengeResponse, << <<SdkKey>>, <<parts[3]>> >>), ok)
       ELSE ok /\ UNCHANGED <<jmsg, sock, up, sent>>

\* run_auth_responder, when a datagram is complete.  It would serve an
\* IdRequest or a ChallengeResponse too, which no daemon sends to the end that
\* connected.
RunAuthResponder(d, ok) ==
    IF d.service = PeerChallenge
    THEN /\ ProcessPeerChallenge(JavaParseString(d.bytes), ok)
         /\ IF jstage' = "verified" THEN at' = "send" /\ UNCHANGED answers ELSE Finish(Error)
    ELSE ok /\ Finish(Error) /\ UNCHANGED <<jstage, jmsg, sock, up, sent>>

\* What is done with a whole datagram.
Receive(d, ok) ==
    \/ at = "auth" /\ RunAuthResponder(d, ok)
    \/ at = "recv" /\ ok /\ Finish(JavaParseString(d.bytes)) /\ UNCHANGED <<jstage, jmsg, sock, up, sent>>

\* recv: one read of the socket.
ClientRead(n, ok) ==
    /\ Waiting /\ sock = "open"
    /\ n \in 1..Min({Wanted(curd), Len(down)})
    /\ down' = SubSeq(down, n + 1, Len(down))
    /\ LET d == JavaRecvfrom(curd, SubSeq(down, 1, n))
       IN  IF d = Oversized THEN ok /\ Fail /\ UNCHANGED <<jstage, jmsg, curd, up, sent, got>>
           ELSE IF Completed(d)
           THEN /\ Receive(d, ok)
                /\ curd' = JavaEmpty
                /\ got' = [got EXCEPT !.down = Append(@, d.bytes)]
           ELSE ok /\ curd' = d /\ UNCHANGED <<sock, jstage, jmsg, at, answers, up, sent, got>>
    /\ UNCHANGED <<asked, daemon>>

\* Mutant: only the dialogue has a timeout.
Mut_ClientReadFails ==
    /\ Waiting
    /\ sock = "closed" \/ peer = "closed" \/ at = "auth"
    /\ Fail
    /\ UNCHANGED <<jstage, jmsg, curd, asked, up, down, daemon, sent, got>>

\* A read that fails, maybe in the middle of a datagram: what is under way
\* takes more than 3 seconds to arrive, or the connection is gone.
ClientReadFails ==
    /\ Waiting
    /\ Fail
    /\ UNCHANGED <<jstage, jmsg, curd, asked, up, down, daemon, sent, got>>

-----------------------------------------------------------------------------
(***************************************************************************)
(* The daemon.                                                             *)
(***************************************************************************)

\* datagram::sendto
Sendto(b) ==
    IF peer = "open" /\ sock = "open" /\ Len(b) < MaxSize
    THEN down' = down \o b /\ sent' = [sent EXCEPT !.down = Append(@, b)] /\ UNCHANGED peer
    ELSE peer' = "closed" /\ UNCHANGED <<down, sent>>

\* process_request: this end signs and asks for a signature.
ProcessRequest(text) ==
    /\ dmsg' = 2
    /\ Sendto(NewDatagram(PeerChallenge, <<DaemonKey, text[1], 2>>))
    /\ UNCHANGED <<dstage, job>>

\* process_challenge_response, verification_completed.
ProcessChallengeResponse(text) ==
    /\ dstage' = IF text[2] = dmsg /\ paired THEN "authorized" ELSE "denied"
    /\ dmsg' = 0
    /\ UNCHANGED <<peer, job, down, sent>>

\* wallet_daemon::process_work
ProcessWork(d) ==
    LET text == ParseString(d.bytes) IN
    \/ d.service = IdRequest /\ ProcessRequest(text)
    \/ d.service = ChallengeResponse /\ ProcessChallengeResponse(text)
    \/ /\ d.service = Request
       /\ IF dstage = "authorized" THEN job' = Append(job, text) /\ UNCHANGED peer
                                   ELSE peer' = "closed" /\ UNCHANGED job
       /\ UNCHANGED <<dmsg, dstage, down, sent>>

\* process_work of a worker: one read of the socket.
DaemonRead(n) ==
    /\ peer = "open" /\ job = <<>>
    /\ n \in 1..Min({Wanted(dcurd), Len(up)})
    /\ up' = SubSeq(up, n + 1, Len(up))
    /\ LET d == Recvfrom(dcurd, SubSeq(up, 1, n))
       IN  IF d = Oversized
           THEN dcurd' = Empty /\ peer' = "closed" /\ UNCHANGED <<dmsg, dstage, job, down, sent, got>>
           ELSE IF Completed(d)
           THEN /\ dcurd' = Empty
                /\ ProcessWork(d)
                /\ got' = [got EXCEPT !.up = Append(@, d.bytes)]
           ELSE dcurd' = d /\ UNCHANGED <<peer, dmsg, dstage, job, down, sent, got>>
    /\ UNCHANGED <<sdk, paired>>

\* send_response
SendResponse ==
    /\ peer = "open" /\ job # <<>>
    /\ Sendto(NewDatagram(Response, Head(job)))
    /\ job' = Tail(job)
    /\ UNCHANGED <<sdk, up, dmsg, dstage, dcurd, paired, got>>

\* The other end is gone, or the daemon is killed.
DaemonCloses ==
    /\ peer = "open"
    /\ peer' = "closed" /\ dcurd' = Empty /\ job' = <<>>
    /\ UNCHANGED <<sdk, up, down, dmsg, dstage, paired, sent, got>>

-----------------------------------------------------------------------------
SdkStep ==
    \/ \E ok \in BOOLEAN : SendRequest(ok)
    \/ \E n \in 1..MaxSize, ok \in BOOLEAN : ClientRead(n, ok)
    \/ ClientReadFails

SessionNext ==
    \/ \E k \in 1..MaxAsk : k = Len(asked) + 1 /\
         \E text \in ArgsOf[k] : ConnectWalletd(text) \/ ConnectRefused(text) \/ AskAgain(text)
    \/ SdkStep
    \/ \E n \in 1..MaxSize : DaemonRead(n)
    \/ SendResponse
    \/ DaemonCloses

SessionSpec == SessionInit /\ [][SessionNext]_sessionvars

\* Nothing stops the thread that asks: a read ends after 3 seconds.
SessionLiveSpec == SessionSpec /\ WF_sessionvars(SdkStep)

-----------------------------------------------------------------------------
Partial == [bytes : Seq(Nat), size : Nat, service : Int]

\* The types of the variables: no end ever takes a size from the wire that
\* it cannot have been sent.
SessionTypeOK ==
    /\ sock \in {"none", "open", "closed"} /\ peer \in {"none", "open", "closed"}
    /\ jstage \in {"anonymous", "verified", "verified_fail"}
    /\ jmsg \in {0, 1} /\ dmsg \in {0, 2} /\ dstage \in {"denied", "authorized"}
    /\ at \in {"idle", "auth", "send", "recv"}
    /\ curd \in Partial /\ dcurd \in Partial
    /\ curd.size \in 0..MaxSize - 1 /\ dcurd.size \in 0..MaxSize - 1
    /\ up \in Seq(Nat) /\ down \in Seq(Nat)
    /\ Len(asked) \in Len(answers)..(Len(answers) + 1)

\* recvfrom and sendto of both languages: however the bytes are cut into
\* reads, an end receives the datagrams the other has sent, whole and in
\* order, until the connection is lost.
WholeDatagrams ==
    /\ SessionTypeOK
    /\ IsPrefix(got.up, sent.up) /\ IsPrefix(got.down, sent.down)

Ascii(text) == \A i \in DOMAIN text : Len(text[i]) = 1

\* ask: what it writes is an error or the answer to what this ask asked, not
\* the late answer to one that gave up, nor a part of the dialogue.
AnswersItsAsk ==
    \A k \in DOMAIN answers :
        answers[k] # Error => /\ Ascii(asked[k]) => answers[k] = GetBytes(asked[k])
                              /\ answers[k][1] = GetBytes(asked[k])[1]
                              /\ jstage = "verified"

\* Every ask returns, whatever the daemon does.
AskReturns == (at # "idle") ~> (at = "idle")
=============================================================================
