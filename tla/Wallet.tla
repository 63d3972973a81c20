------------------------------- MODULE Wallet -------------------------------
(***************************************************************************)
(* The wallet daemon (wallet/): the keys and the paired devices it keeps,  *)
(* each with a file; the requests devices make over RPC, served by the     *)
(* workers of its pool; and its connection to a node, the backend, which   *)
(* it asks for balances and hands transactions.  walletx -local is another *)
(* process that works on the same home directory.                          *)
(*                                                                         *)
(* A key stands for itself, its public key and its address.  All accounts  *)
(* are p2pkh.  How an end proves its key is in module Handshake, how the   *)
(* sockets are served in Clients, what the node does with a transaction in *)
(* Cash.                                                                   *)
(***************************************************************************)
EXTENDS Naturals, Sequences, FiniteSets, Functions, SequencesExt, TLC

CONSTANTS
    Device,     \* rpc_api objects, each with a key of its own
    Worker,     \* threads of the daemon's pool
    Key,        \* keys that may be in the wallet
    GovKey,     \* the one run_daemon imports from the node's home
    Rcpt,       \* who is paid
    Amount,     \* amounts that are asked for
    Fee,        \* 1
    SigCodes,   \* what a signature covers: codes of the inputs and the outputs
    Name,       \* names that devices are paired with
    NoName,     \* the empty one
    DefaultName,\* "my device"
    FirstSeen,  \* "First_seen_device"
    Draft,      \* transactions made elsewhere
    Purse,      \* balances of the addresses at the start
    Paired,     \* tables of devices that a home directory may have at the start
    None,
    MaxAsk,     \* bound: requests made
    MaxBoot,    \* bound: starts of the daemon
    MaxLocal    \* bound: keys made with walletx -local

\* sigcode_t
SigCode == {"all", "none", "this"}

\* An input that is not signed: its locking_program_input is empty.
NoSig == <<>>

\* Transactions that wait for signatures.
Unsigned ==
    [inputs : Seq([addr : Key, amount : Nat, sig : {NoSig}]),
     outputs : Seq([addr : Rcpt, amount : Nat]), ts : Nat]

\* Tables of devices with their names.
Rosters == UNION {[S -> Name \cup {FirstSeen}] : S \in {T \in SUBSET Device : IsFiniteSet(T)}}

ASSUME WalletAssumption ==
    /\ GovKey \in Key /\ {FirstSeen, DefaultName} \cap Name = {}
    /\ Purse \in [Key -> Nat] /\ Amount \subseteq Nat /\ Fee \in Nat \ {0}
    /\ SigCodes \subseteq SigCode \X SigCode /\ Draft \subseteq Unsigned
    /\ None \notin Key \cup Device \cup Worker
    /\ Paired \subseteq Rosters

VARIABLES
    up,        \* the daemon runs
    keys,      \* wallet: its keys in memory
    file,      \* homedir/keys
    need_save, \* wallet: some key of the table may not be in the file
    saving,    \* where in struct wallet each worker is: with which key, and
               \* what it writes
    data,      \* wallet::data: the balances that were last answered
    devices,   \* devices_t: device -> name
    dfile,     \* homedir/d, as a sequence of words
    stage,     \* of each device's connection at the daemon: "off", "anonymous",
               \* "denied" or "authorized"
    conn,      \* each rpc_api's socket is not zero
    object,    \* what each rpc_api remembers of its handshakes, see Connect
    asking,    \* the number of the request each device waits for, or 0
    outbox,    \* the request on its way to the daemon, or None
    inbox,     \* the numbers of the requests whose answers are on their way
               \* to each device; 0 is a datagram that answers none
    sock,      \* the endpoint is connected to the backend
    work,      \* the request each worker is busy with, or Idle
    reply,     \* the backend's answer on its way, or None
    ledger,    \* the balances that the backend has
    mempool,   \* the transactions that it was sent
    made,      \* transactions that devices have
    \* history
    n,         \* how many requests, starts and local keys
    told,      \* addresses that somebody was told
    roster,    \* device -> name, as far as the users know
    sent,      \* payments that were made, with what was asked and shown
    refused,   \* payments that were refused, likewise
    taken,     \* the last answer that a device took, or None
    flaws      \* ways in which the model has left what it can follow

mem == <<keys, file, need_save, saving, data, devices, dfile>>
wire == <<stage, conn, object, asking, outbox, inbox>>
chain == <<sock, work, reply, ledger, mempool>>
past == <<told, roster, sent, refused, taken>>
vars == <<up, mem, wire, chain, made, n, past, flaws>>

\* A worker in none of the functions of struct wallet that change its keys.
Outside == [at |-> "outside", key |-> None, keys |-> {}]

\* struct wallet, and the file it finds: a daemon that has had devices has saved
\* the node's key.
WalletInit ==
    /\ keys = {} /\ file = (IF dfile = <<>> THEN {} ELSE {GovKey}) /\ data = <<>>
    /\ need_save = FALSE /\ saving = [w \in Worker |-> Outside]

\* The order in which the tables are gone through.
InOrder(S) == SetToSeq(S)

\* The words of a name: an empty one is no word, default_name is two.
Words(name) == IF name = NoName THEN <<>> ELSE IF name = DefaultName THEN <<"my", "device">> ELSE <<name>>

\* device::to_stream
DeviceWords(ds, d) == <<d>> \o Words(ds[d])

\* devices_t::save_
SaveDevices(ds) ==
    LET order == InOrder(DOMAIN ds) IN FlattenSeq([i \in DOMAIN order |-> DeviceWords(ds, order[i])])

\* devices_t without a device.
NoDevices == [d \in {} |-> NoName]

\* struct devices_t, and the file it finds.
PairingInit == devices = NoDevices /\ roster \in Paired /\ dfile = SaveDevices(roster)

\* struct rpc_api: no socket, no message, nobody verified.
RpcInit ==
    /\ stage = [d \in Device |-> "off"] /\ conn = [d \in Device |-> FALSE]
    /\ object = [d \in Device |-> "new"] /\ asking = [d \in Device |-> 0]
    /\ outbox = [d \in Device |-> None] /\ inbox = [d \in Device |-> <<>>]

\* A worker without a request.
Idle == [dev |-> None, id |-> 0, req |-> None, addrs |-> <<>>]

\* struct wallet_local_api: its endpoint is not connected.
EndpointInit == sock = FALSE /\ work = [w \in Worker |-> Idle] /\ reply = None

Init ==
    /\ up = FALSE /\ PairingInit /\ WalletInit /\ RpcInit /\ EndpointInit
    /\ ledger = Purse /\ mempool = {} /\ made = Draft
    /\ n = [ask |-> 0, boot |-> 0, loc |-> 0]
    /\ told = {} /\ sent = {} /\ refused = {} /\ taken = None /\ flaws = {}

\* The model follows the program until one of the flaws has happened.
Fine == flaws = {}

\* Requests that connect_backend is called for.
BackendOps == {"balance", "ping", "tx_make", "tx_sign", "tx_send"}

\* Workers that have a request, and those of them that wait for the backend.
Working == {w \in Worker : work[w].id # 0}
Waiting == {w \in Working : work[w].req.op \in BackendOps}

\* Workers whose key may not be in the file yet, and those of them that have
\* the file open.
Saving == {w \in Worker : saving[w].at \in {"asked", "writing"}}
Writing == {w \in Worker : saving[w].at = "writing"}

Sum(s) == SumFunction(s)

-----------------------------------------------------------------------------
(***************************************************************************)
(* The files.                                                              *)
(***************************************************************************)

\* device::from_stream: the i-th pair of words, if the first of them is a key.
IsDevice(words, i) == 2*i <= Len(words) /\ words[2*i - 1] \in Device

\* devices_t::load_: until there is no device.
LoadDevices(words) ==
    LET good == {i \in 0..(Len(words) \div 2) : \A j \in 1..i : IsDevice(words, j)}
        pairs == CHOOSE i \in good : \A j \in good : j <= i
    IN  [d \in {words[2*i - 1] : i \in 1..pairs} |->
            words[2 * (CHOOSE i \in 1..pairs : words[2*i - 1] = d)]]

\* wallet::load: a key for each word of the file.
Load == file

\* wallet::save where nothing comes between: in run_daemon, when the file has
\* no key that could be lost, and in another process.
Save(ks) == file' = ks

\* A worker goes on in struct wallet.
GoTo(w, at, k, ks) == saving' = [saving EXCEPT ![w] = [at |-> at, key |-> k, keys |-> ks]]

\* The key is put in the table, and has to be saved.
Emplace(w, k) ==
    /\ keys' = keys \cup {k}
    /\ need_save' = TRUE
    /\ GoTo(w, "asked", k, {})

\* wallet::new_address up to save, with a key that nobody has.
NewAddress(w, k) == k \notin keys \cup told /\ Emplace(w, k)

Mut_AddAddress(w, k) ==
    /\ keys' = keys \cup {k}
    /\ need_save' = need_save
    /\ GoTo(w, "asked", k, {})

\* wallet::add_address up to save: a key that is there is not saved.
AddAddress(w, k) ==
    \/ k \in keys /\ UNCHANGED <<keys, need_save>> /\ GoTo(w, "saved", k, {})
    \/ k \notin keys /\ Emplace(w, k)

-----------------------------------------------------------------------------
(***************************************************************************)
(* Transactions.                                                           *)
(***************************************************************************)

\* tx::check, where -1 is 0: no caller tells them apart.
Check(t) ==
    IF \E i \in DOMAIN t.inputs : t.inputs[i].amount = 0 THEN 0
    ELSE IF \E i \in DOMAIN t.outputs : t.outputs[i].amount = 0 THEN 0
    ELSE Sum([i \in DOMAIN t.inputs |-> t.inputs[i].amount]) - Sum([i \in DOMAIN t.outputs |-> t.outputs[i].amount])

\* inputs_t::write_sigmsg: all inputs, or the one that is signed.
InputsSigMsg(t, i, code) ==
    LET covered == IF code = "all" THEN t.inputs ELSE <<t.inputs[i]>>
    IN  [j \in DOMAIN covered |-> <<covered[j].addr, covered[j].amount>>]

\* outputs_t::write_sigmsg: all outputs, the one beside the input, or none.
OutputsSigMsg(t, i, code) ==
    IF code = "all" THEN t.outputs
    ELSE IF code = "this" /\ i <= Len(t.outputs) THEN <<t.outputs[i]>>
    ELSE <<>>

\* tx::get_hash
GetHash(t, i, codes) == <<InputsSigMsg(t, i, codes[1]), OutputsSigMsg(t, i, codes[2]), t.ts>>

\* same_sigmsg_across_inputs: true for the codes whose messages differ.
SameSigMsgAcrossInputs(codes) == codes[1] = "this" \/ codes[2] = "this"

\* p2pkh::create_input
CreateInput(hash, codes, key) == [hash |-> hash, codes |-> codes, key |-> key]

\* p2pkh::check_input, reached through app::unlock.
Unlock(t, i) ==
    LET sig == t.inputs[i].sig IN
    /\ sig # NoSig
    /\ sig.key = t.inputs[i].addr
    /\ sig.hash = GetHash(t, i, sig.codes)

\* Mutant: an empty box leaves what was answered before.
Mut_QueryAccounts(addrs, boxes) ==
    LET box(a) == boxes[CHOOSE i \in DOMAIN addrs : addrs[i] = a]
    IN  [a \in {a \in ToSet(addrs) : box(a) > 0 \/ a \in DOMAIN data} |-> IF box(a) > 0 THEN box(a) ELSE data[a]]

\* query_accounts: the boxes that were answered, for the addresses asked for;
\* the empty ones are left out.
QueryAccounts(addrs, boxes) ==
    [a \in {addrs[i] : i \in {j \in DOMAIN addrs : boxes[j] > 0}} |->
        boxes[CHOOSE i \in DOMAIN addrs : addrs[i] = a]]

\* The accounts in the order of their balances.
Ascending(boxes) ==
    CHOOSE v \in [1..Cardinality(DOMAIN boxes) -> DOMAIN boxes] :
        IsInjective(v) /\ \A i, j \in DOMAIN v : i < j => boxes[v[i]] <= boxes[v[j]]

\* select_sources: the smallest balances first, all of each but the last.
SelectSources(boxes, amount) ==
    LET v == Ascending(boxes)
        before(i) == Sum([j \in 1..(i - 1) |-> boxes[v[j]]])
        last == {i \in DOMAIN v : boxes[v[i]] + before(i) > amount}
        used == IF last = {} THEN Len(v) ELSE CHOOSE i \in last : \A j \in last : i <= j
    IN  [i \in 1..used |-> [addr |-> v[i],
            amount |-> IF before(i) + boxes[v[i]] <= amount THEN boxes[v[i]] ELSE amount - before(i)]]

\* input_accounts_t::get_withdraw_amount
GetWithdrawAmount(src) == Sum([i \in DOMAIN src |-> src[i].amount])

\* wallet::get_keys and generate_locking_program_input: nothing without the key.
LockingInput(hash, codes, addr) == IF addr \in keys THEN CreateInput(hash, codes, addr) ELSE NoSig

\* The inputs of a new transaction, all signed: one message for all of them
\* where the codes are said to allow it.
SignAll(t, codes) ==
    [t EXCEPT !.inputs = [i \in DOMAIN @ |->
        [@[i] EXCEPT !.sig = LockingInput(GetHash(t, IF SameSigMsgAcrossInputs(codes) THEN 1 ELSE i, codes),
                                          codes, t.inputs[i].addr)]]]

\* pair<string, tx>: an error or a transaction.
Refuse(e) == [err |-> e, tx |-> None]
Accept(t) == [err |-> "", tx |-> t]

\* add_input for each source, and add_output.
NewTx(src, req, ts) ==
    [inputs |-> [i \in DOMAIN src |-> [addr |-> src[i].addr, amount |-> src[i].amount, sig |-> NoSig]],
     outputs |-> <<[addr |-> req.rcpt, amount |-> req.amount]>>, ts |-> ts]

Mut_MakeTx(boxes, req, ts) ==
    LET src == SelectSources(boxes, req.amount)
        t == NewTx(src, req, ts)
    IN  IF src = <<>> THEN Refuse("Insufficient balance")
        ELSE IF Check(t) < 1 THEN Refuse("Failed check")
        ELSE Accept(SignAll(t, req.codes))

\* tx_make_p2pkh, without the sending.
MakeTx(boxes, req, ts) ==
    LET src == SelectSources(boxes, req.amount + Fee)
        t == NewTx(src, req, ts)
    IN  IF src = <<>> THEN Refuse("Insufficient balance")
        ELSE IF GetWithdrawAmount(src) # req.amount + Fee THEN Refuse("Inconsistency")
        ELSE IF Check(t) < 1 THEN Refuse("Failed check")
        ELSE Accept(SignAll(t, req.codes))

\* tx_sign: what is not signed and can be is signed, the rest stays unsigned.
SignTx(boxes, t, codes) ==
    IF \E i \in DOMAIN t.inputs : t.inputs[i].addr \notin DOMAIN boxes THEN Refuse("Address not found")
    ELSE Accept([t EXCEPT !.inputs = [i \in DOMAIN @ |->
            IF Unlock(t, i) THEN @[i]
            ELSE [@[i] EXCEPT !.sig = LockingInput(GetHash(t, i, codes), codes, t.inputs[i].addr)]]])

\* wallet::send: the node is sent what has a fee.
Send(t) == IF Check(t) > 0 THEN mempool \cup {t} ELSE mempool

-----------------------------------------------------------------------------
(***************************************************************************)
(* A device.                                                               *)
(***************************************************************************)

\* walletx: balance, list, and the address commands.
KeyCommand == [op : {"balance", "list", "new_address"}] \cup [op : {"add_address"}, key : Key]

\* tx_make_p2pkh_input, without the fee, which is always 1 here.
MakeInput == [op : {"tx_make"}, rcpt : Rcpt, amount : Amount, codes : SigCodes, send : BOOLEAN]

\* walletx: the tx commands; transfer is the tx_make with all, all and send.
TxCommand ==
    MakeInput
      \cup [op : {"tx_sign"}, tx : made, codes : SigCodes]
      \cup [op : {"tx_send", "tx_check", "tx_decode"}, tx : made]

\* walletx: pair, unpair, list_devices and ping.
PairCommand ==
    [op : {"pair"}, dev : Device, name : Name] \cup [op : {"unpair"}, dev : Device]
      \cup [op : {"list_devices", "ping"}]

\* peer_t::initiate_dialogue: an object that has a message to be signed does not
\* begin another dialogue.  Neither the message nor the stages are forgotten
\* when the connection ends.
Begin(o) == CASE o = "new" -> "hello"                \* dialogue begun
              [] o \in {"hello", "mute"} -> "mute"  \* not begun, nobody verified
              [] o = "verified" -> "again"           \* the daemon begins its own
              [] OTHER -> "spent"

\* run_auth_responder: the object waits until it has verified the daemon.
InDialogue(o) == o \in {"hello", "mute"}

\* client::connect, init_sock
Connect(d) ==
    /\ up
    /\ conn' = [conn EXCEPT ![d] = TRUE]
    /\ stage' = [stage EXCEPT ![d] = "anonymous"]
    /\ object' = [object EXCEPT ![d] = Begin(@)]

\* rpc_api::connect_walletd
ConnectWalletd(d) == IF conn[d] THEN UNCHANGED <<conn, stage, object>> ELSE Connect(d)

\* rpc_api::ask sends the request, unless it waits for a dialogue that nobody
\* has begun.
Ask(d, req) ==
    /\ Fine /\ asking[d] = 0 /\ n.ask < MaxAsk
    /\ n' = [n EXCEPT !.ask = @ + 1]
    /\ asking' = [asking EXCEPT ![d] = n'.ask]
    /\ ConnectWalletd(d)
    /\ outbox' = [outbox EXCEPT ![d] = IF stage'[d] = "off" \/ object'[d] = "mute" THEN None
                                       ELSE [id |-> n'.ask, req |-> req]]
    /\ UNCHANGED <<up, mem, inbox, chain, made, past, flaws>>

\* send_recv returns: without expected service, any datagram will do.
Receive(d) ==
    /\ Fine /\ asking[d] # 0 /\ inbox[d] # <<>> /\ ~InDialogue(object[d])
    /\ taken' = [asked |-> asking[d], got |-> Head(inbox[d]), object |-> object[d]]
    /\ asking' = [asking EXCEPT ![d] = 0]
    /\ inbox' = [inbox EXCEPT ![d] = Tail(@)]
    /\ UNCHANGED <<up, mem, stage, conn, object, outbox, chain, made, n, told, roster, sent, refused, flaws>>

Mut_Fail(d) ==
    /\ Fine /\ asking[d] # 0 /\ inbox[d] = <<>>
    /\ asking' = [asking EXCEPT ![d] = 0]
    /\ outbox' = [outbox EXCEPT ![d] = None]
    /\ UNCHANGED <<up, mem, stage, conn, object, inbox, chain, made, n, past, flaws>>

\* client::disconnect, which the daemon sees as the end of the stream.
Disconnect(d) ==
    /\ conn' = [conn EXCEPT ![d] = FALSE]
    /\ stage' = [stage EXCEPT ![d] = "off"]
    /\ outbox' = [outbox EXCEPT ![d] = None]

\* Nothing arrives for 3 seconds, or the connection has ended: disconnect.  A
\* worker that still works for the device answers to nobody.
Fail(d) ==
    /\ Fine /\ asking[d] # 0 /\ inbox[d] = <<>>
    /\ asking' = [asking EXCEPT ![d] = 0]
    /\ Disconnect(d)
    /\ work' = [w \in Worker |-> IF w \in Working /\ work[w].dev = d THEN [work[w] EXCEPT !.dev = None] ELSE work[w]]
    /\ UNCHANGED <<up, mem, object, inbox, sock, reply, ledger, mempool, made, n, past, flaws>>

-----------------------------------------------------------------------------
(***************************************************************************)
(* The daemon.                                                             *)
(***************************************************************************)

\* devices_t::authorize: the first device to come is taken.
Admit(d, ds) == IF DOMAIN ds = {} THEN [e \in {d} |-> FirstSeen] ELSE ds

\* The dialogue of module Handshake, up to verification_completed.
Verify(d) ==
    /\ Fine /\ up /\ stage[d] = "anonymous" /\ object[d] = "hello"
    /\ object' = [object EXCEPT ![d] = "verified"]
    /\ devices' = Admit(d, devices)
    /\ dfile' = IF devices' = devices THEN dfile ELSE SaveDevices(devices')
    /\ stage' = [stage EXCEPT ![d] = IF d \in DOMAIN devices' THEN "authorized" ELSE "denied"]
    /\ roster' = Admit(d, roster)
    /\ UNCHANGED <<up, keys, file, need_save, saving, data, conn, asking, outbox, inbox, chain, made, n,
                   told, sent, refused, taken, flaws>>

\* The challenge for a dialogue that the device does not wait for.
Challenge(d) ==
    /\ Fine /\ up /\ stage[d] = "anonymous" /\ object[d] = "again"
    /\ object' = [object EXCEPT ![d] = "spent"]
    /\ inbox' = [inbox EXCEPT ![d] = Append(@, 0)]
    /\ UNCHANGED <<up, mem, stage, conn, asking, outbox, chain, made, n, past, flaws>>

\* wallet_daemon::process_work for a device that is not authorized.
Reject(d) ==
    /\ Fine /\ up /\ outbox[d] # None
    /\ stage[d] = "denied" \/ (stage[d] = "anonymous" /\ object[d] = "spent")
    /\ stage' = [stage EXCEPT ![d] = "off"]
    /\ outbox' = [outbox EXCEPT ![d] = None]
    /\ UNCHANGED <<up, mem, conn, object, asking, inbox, chain, made, n, past, flaws>>

\* A free worker takes a request; a worker serves one client at a time.
Takes(w, d, ops) ==
    /\ Fine /\ up /\ w \notin Working
    /\ stage[d] = "authorized" /\ outbox[d] # None /\ outbox[d].req.op \in ops
    /\ \A v \in Working : work[v].dev # d
    /\ outbox' = [outbox EXCEPT ![d] = None]

\* send_response
Answer(d, id) == inbox' = [inbox EXCEPT ![d] = Append(@, id)]

\* Handlers that only read: tx_check says nothing of a transaction that is well.
ServeReading(w, d) ==
    /\ Takes(w, d, {"list", "list_devices", "tx_check", "tx_decode"})
    /\ Answer(d, outbox[d].id)
    /\ UNCHANGED <<up, mem, stage, conn, object, asking, chain, made, n, past, flaws>>

\* The worker keeps the request.
Busies(w, d, addrs) ==
    work' = [work EXCEPT ![w] = [dev |-> d, id |-> outbox[d].id, req |-> outbox[d].req, addrs |-> addrs]]

\* new_address, add_address: the key is in the table.  No mutex keeps another
\* worker out of it until the key is in the file.
ServeKeys(w, d) ==
    /\ Takes(w, d, {"new_address", "add_address"})
    /\ \E k \in Key : IF outbox[d].req.op = "add_address" THEN k = outbox[d].req.key /\ AddAddress(w, k)
                     ELSE NewAddress(w, k)
    /\ Busies(w, d, <<>>)
    /\ UNCHANGED <<up, file, data, devices, dfile, stage, conn, object, asking, inbox, sock, reply, ledger, mempool,
                   made, n, past, flaws>>

\* wallet::save up to the first key: another worker may have saved what there
\* was to save; otherwise the file is opened, and is empty then.  What another
\* process has put in it is forgotten.
SaveBegins(w) ==
    /\ Fine /\ saving[w].at = "asked"
    /\ \/ /\ ~need_save
          /\ GoTo(w, "saved", saving[w].key, {})
          /\ UNCHANGED <<file, flaws>>
       \/ /\ need_save
          /\ GoTo(w, "writing", saving[w].key, keys)
          /\ file' = {}
          /\ flaws' = IF file \subseteq keys THEN {} ELSE {"overwritten"}
    /\ UNCHANGED <<up, keys, need_save, data, devices, dfile, wire, chain, made, n, past>>

\* The rest of wallet::save.  The flag is taken back also when another worker
\* has put a key in the table since, and the file may have been written by one
\* that began later: both lose a key.
SaveEnds(w) ==
    /\ Fine /\ saving[w].at = "writing"
    /\ file' = saving[w].keys
    /\ need_save' = FALSE
    /\ GoTo(w, "saved", saving[w].key, {})
    /\ flaws' = IF /\ file \subseteq saving[w].keys
                   /\ \A v \in Worker : saving[v].at = "asked" => saving[v].key \in saving[w].keys
                THEN {} ELSE {"unsaved"}
    /\ UNCHANGED <<up, keys, data, devices, dfile, wire, chain, made, n, past>>

\* devices_t::pair: a device that is renamed to nothing gets the default name, a
\* new one stays without.
Pair(dev, name) ==
    [d \in DOMAIN devices \cup {dev} |->
        IF d # dev THEN devices[d]
        ELSE IF name = NoName /\ dev \in DOMAIN devices THEN DefaultName ELSE name]

\* devices_t::unpair
Unpair(dev) == Restrict(devices, DOMAIN devices \ {dev})

ServePairing(w, d) ==
    /\ Takes(w, d, {"pair", "unpair"})
    /\ LET req == outbox[d].req
       IN  devices' = IF req.op = "pair" THEN Pair(req.dev, req.name) ELSE Unpair(req.dev)
    /\ dfile' = IF devices' = devices THEN dfile ELSE SaveDevices(devices')
    /\ roster' = devices'
    /\ Answer(d, outbox[d].id)
    /\ UNCHANGED <<up, keys, file, need_save, saving, data, stage, conn, object, asking, chain, made, n,
                   told, sent, refused, taken, flaws>>

\* tx_send
ServeSend(w, d) ==
    /\ Takes(w, d, {"tx_send"})
    /\ sock' = TRUE
    /\ mempool' \in {Send(outbox[d].req.tx), mempool}
    /\ Answer(d, outbox[d].id)
    /\ UNCHANGED <<up, mem, stage, conn, object, asking, work, reply, ledger, made, n, past, flaws>>

\* connect_backend fails: the device is told.
Unreachable(w, d) ==
    /\ Takes(w, d, BackendOps) /\ ~sock
    /\ Answer(d, outbox[d].id)
    /\ UNCHANGED <<up, mem, stage, conn, object, asking, chain, made, n, past, flaws>>

\* What the backend is asked for: all addresses of the wallet (refresh), those
\* of the transaction (tx_sign), or none (ping).
Addresses(req) ==
    CASE req.op = "ping" -> <<>>
      [] req.op = "tx_sign" -> [i \in DOMAIN req.tx.inputs |-> req.tx.inputs[i].addr]
      [] OTHER -> InOrder(keys)

\* connect_backend, and the query.  Two workers that use the endpoint at the
\* same time may read each other's answers.
Query(w, d) ==
    /\ Takes(w, d, BackendOps \ {"tx_send"})
    /\ Busies(w, d, Addresses(outbox[d].req))
    /\ sock' = TRUE
    /\ flaws' = IF Waiting # {} THEN {"mixed"} ELSE {}
    /\ UNCHANGED <<up, mem, stage, conn, object, asking, inbox, reply, ledger, mempool, made, n, past>>

\* The worker is done: it answers, if the device is still there.
Done(w) ==
    /\ work' = [work EXCEPT ![w] = Idle]
    /\ IF work[w].dev = None THEN UNCHANGED inbox ELSE Answer(work[w].dev, work[w].id)

\* The address of the key is answered.
Tell(w) ==
    /\ Fine /\ saving[w].at = "saved"
    /\ saving' = [saving EXCEPT ![w] = Outside]
    /\ told' = IF work[w].dev = None THEN told ELSE told \cup {saving[w].key}
    /\ Done(w)
    /\ UNCHANGED <<up, keys, file, need_save, data, devices, dfile, stage, conn, object, asking, outbox,
                   sock, reply, ledger, mempool, made, n, roster, sent, refused, taken, flaws>>

\* The backend has answered the worker.
Answered(w, op) ==
    /\ Fine /\ up /\ w \in Waiting /\ work[w].req.op = op /\ reply # None
    /\ reply' = None
    /\ Done(w)
    /\ UNCHANGED <<up, keys, file, need_save, saving, devices, dfile, stage, conn, object, asking, outbox,
                   sock, ledger, n, told, roster, taken, flaws>>

Boxes(w) == QueryAccounts(work[w].addrs, reply)

\* A transaction that is answered is known, if the device is still there.
Keep(w, t) == made' = IF t.err # "" \/ work[w].dev = None THEN made ELSE made \cup {t.tx}

\* wallet_local_api::ping
Ping(w) == Answered(w, "ping") /\ UNCHANGED <<data, mempool, made, sent, refused>>

\* wallet_local_api::balance and refresh
Balance(w) ==
    /\ Answered(w, "balance")
    /\ data' = Boxes(w)
    /\ UNCHANGED <<mempool, made, sent, refused>>

\* wallet_local_api::tx_make_p2pkh, transfer: sent as soon as it is made; that
\* the connection fails then is answered instead of the transaction.  What the
\* wallet did and what it saw are kept.
Pay(w) ==
    /\ Answered(w, "tx_make")
    /\ data' = Boxes(w)
    /\ LET req == work[w].req
           t == MakeTx(Boxes(w), req, work[w].id)
           seen == [tx |-> t.tx, req |-> req,
                   shown |-> [a \in ToSet(work[w].addrs) |-> reply[CHOOSE i \in DOMAIN reply : work[w].addrs[i] = a]]]
       IN  /\ \/ mempool' = (IF t.err = "" /\ req.send THEN Send(t.tx) ELSE mempool) /\ Keep(w, t)
              \/ t.err = "" /\ req.send /\ UNCHANGED <<mempool, made>>
           /\ sent' = IF t.err = "" THEN sent \cup {seen} ELSE sent
           /\ refused' = IF t.err # "" THEN refused \cup {seen} ELSE refused

\* wallet_local_api::tx_sign
SignDraft(w) ==
    /\ Answered(w, "tx_sign")
    /\ Keep(w, SignTx(Boxes(w), work[w].req.tx, work[w].req.codes))
    /\ UNCHANGED <<data, mempool, sent, refused>>

\* The backend does not answer in 3 seconds, or has closed the connection.
GiveUp(w) ==
    /\ Fine /\ up /\ w \in Waiting /\ reply = None
    /\ sock' = FALSE
    /\ Done(w)
    /\ UNCHANGED <<up, mem, stage, conn, object, asking, outbox, reply, ledger, mempool, made, n, past, flaws>>

-----------------------------------------------------------------------------
(***************************************************************************)
(* The backend, and the processes.                                         *)
(***************************************************************************)

\* app::cash_query: the balance of each address, empty if there is no account.
CashQuery(w) ==
    /\ Fine /\ sock /\ w \in Waiting /\ reply = None
    /\ reply' = [i \in DOMAIN work[w].addrs |-> ledger[work[w].addrs[i]]]
    /\ UNCHANGED <<up, mem, wire, sock, work, ledger, mempool, made, n, past, flaws>>

\* What the inputs, or the outputs, of a transaction move for an account.
Moved(items, k) == Sum([i \in DOMAIN items |-> IF items[i].addr = k THEN items[i].amount ELSE 0])

\* A block with one of the transactions; one that has an input without an
\* account, or that does not unlock, is never in a block.  That the account
\* holds as much is not tested (module Cash).
Block ==
    /\ Fine
    /\ \E t \in mempool :
         /\ mempool' = mempool \ {t}
         /\ ledger' = IF \A i \in DOMAIN t.inputs : ledger[t.inputs[i].addr] # 0 /\ Unlock(t, i)
                      THEN [k \in Key |-> ledger[k] + Moved(t.outputs, k) - Moved(t.inputs, k)]
                      ELSE ledger
    /\ UNCHANGED <<up, mem, wire, sock, work, reply, made, n, past, flaws>>

\* import_gov_k; run_daemon does the same.
ImportGovKey(ks) == ks \cup {GovKey}

\* run_daemon: the files are read, and the key of the node is added.
Start ==
    /\ Fine /\ ~up /\ n.boot < MaxBoot
    /\ up' = TRUE
    /\ keys' = ImportGovKey(Load) /\ Save(keys') /\ data' = <<>>
    /\ devices' = LoadDevices(dfile)
    /\ n' = [n EXCEPT !.boot = @ + 1]
    /\ flaws' = IF \E d \in DOMAIN roster : roster[d] \in {NoName, DefaultName} THEN {"names"} ELSE {}
    /\ UNCHANGED <<need_save, saving, dfile, wire, chain, made, past>>

\* A worker may be in devices_t::save_, with the file of devices open.
Pairing(d) ==
    \/ stage[d] = "authorized" /\ outbox[d] # None /\ outbox[d].req.op \in {"pair", "unpair"}
    \/ stage[d] = "anonymous" /\ object[d] = "hello" /\ devices = NoDevices

\* The daemon ends, anywhere; what it has sent still arrives.  A file of keys
\* that was open has as many as were written; of devices, none.
Kill ==
    /\ Fine /\ up
    /\ up' = FALSE
    /\ file' \in IF Writing = {} THEN {file} ELSE SUBSET keys
    /\ \/ UNCHANGED dfile /\ flaws' = IF Saving # {} /\ ~(told \subseteq file') THEN {"cut"} ELSE {}
       \/ (\E d \in Device : Pairing(d)) /\ dfile' = <<>> /\ flaws' = {"cut"}
    /\ need_save' = FALSE /\ saving' = [w \in Worker |-> Outside]
    /\ stage' = [d \in Device |-> "off"]
    /\ outbox' = [d \in Device |-> None]
    /\ work' = [w \in Worker |-> Idle] /\ sock' = FALSE /\ reply' = None
    /\ UNCHANGED <<keys, data, devices, conn, object, asking, inbox, ledger, mempool, made, n, past>>

\* walletx -local address new, on the same directory: a wallet of its own that
\* is loaded, with the key of the node, and saved; unless it is stopped with the
\* file open, or reads it when the daemon has it open.
LocalNew(k) ==
    /\ Fine /\ n.loc < MaxLocal /\ k \notin keys \cup file \cup told
    /\ n' = [n EXCEPT !.loc = @ + 1]
    /\ \/ Writing = {} /\ Save(ImportGovKey(Load) \cup {k}) /\ told' = told \cup {k} /\ UNCHANGED flaws
       \/ file' = {} /\ flaws' = {"cut"} /\ UNCHANGED told
    /\ UNCHANGED <<up, keys, need_save, saving, data, devices, dfile, wire, chain, made,
                   roster, sent, refused, taken>>

Next ==
    \/ \E d \in Device : (\E req \in KeyCommand \cup TxCommand \cup PairCommand : Ask(d, req)) \/ Receive(d) \/ Fail(d)
    \/ \E d \in Device : Verify(d) \/ Challenge(d) \/ Reject(d)
    \/ \E w \in Worker, d \in Device : ServeReading(w, d) \/ ServeKeys(w, d) \/ ServePairing(w, d)
    \/ \E w \in Worker, d \in Device : ServeSend(w, d) \/ Unreachable(w, d) \/ Query(w, d)
    \/ \E w \in Worker : SaveBegins(w) \/ SaveEnds(w) \/ Tell(w)
    \/ \E w \in Worker : Ping(w) \/ Balance(w) \/ Pay(w) \/ SignDraft(w) \/ GiveUp(w) \/ CashQuery(w)
    \/ Block \/ (\E k \in Key : LocalNew(k))
    \/ Start \/ Kill

Spec == Init /\ [][Next]_vars

-----------------------------------------------------------------------------
(***************************************************************************)
(* Properties.                                                             *)
(***************************************************************************)

TypeOK ==
    /\ up \in BOOLEAN /\ keys \subseteq Key /\ file \subseteq Key
    /\ DOMAIN devices \subseteq Device
    /\ \A a \in DOMAIN data : a \in Key /\ data[a] > 0
    /\ \A d \in Device : (inbox[d] # <<>> \/ outbox[d] # None) => conn[d]
    /\ \A d \in Device : outbox[d] # None => outbox[d].id \in 1..n.ask
    /\ \A w \in Waiting : up /\ sock

\* A payment spends exactly what was asked and the fee, and each input comes
\* from another account of the wallet, which the backend said holds that much
\* (select_sources, tx_make_p2pkh).  Every input unlocks its account, but for
\* the inputs after the first of a payment whose signatures cover "this": they
\* are signed over the message of the first (same_sigmsg_across_inputs).
SpendsAsAsked ==
    /\ TypeOK
    /\ \A p \in sent :
        LET in == p.tx.inputs IN
        /\ p.tx.outputs = <<[addr |-> p.req.rcpt, amount |-> p.req.amount]>>
        /\ GetWithdrawAmount(in) = p.req.amount + Fee
        /\ \A i \in DOMAIN in : in[i].amount \in 1..p.shown[in[i].addr]
        /\ \A i, j \in DOMAIN in : in[i].addr = in[j].addr => i = j
        /\ \A i \in DOMAIN in : Unlock(p.tx, i) \/ (i > 1 /\ "this" \in ToSet(p.req.codes))

\* A payment that the accounts with a balance cover is not refused, unless the
\* smallest of them add up to it exactly and there is one more, whose input is
\* then empty (select_sources, tx_make_p2pkh).
RefusedForAReason ==
    \A p \in refused :
        LET funds(S) == SumFunctionOnSet(p.shown, S)
            all == {a \in DOMAIN p.shown : p.shown[a] > 0}
        IN  \/ p.req.amount = 0
            \/ funds(all) < p.req.amount + Fee
            \/ \E S \in SUBSET all :
                 /\ funds(S) = p.req.amount + Fee
                 /\ \E b \in all \ S : \A a \in S : p.shown[a] <= p.shown[b]

\* An address that somebody was told, to be paid at, has its key in the file
\* when no worker is in wallet::save, so that it is there when the daemon ends
\* and starts again, and in the middle of a save it is in the daemon's memory;
\* and the devices that the daemon recognises are those that were paired, or
\* came first, and were not unpaired, also after it has been started again
\* (devices_t::save_, load_).
KeptAcrossRestarts ==
    Fine => /\ Saving = {} => told \subseteq file
            /\ told \subseteq file \cup keys
            /\ up => devices = roster

\* What a device takes for the answer to a request is the answer to that
\* request, and not a late one to an earlier request that it gave up, as long
\* as the object is on its first connection (client::recv disconnects).
AnswersTheRequest ==
    (taken # None /\ taken.object = "verified") => taken.got = taken.asked

=============================================================================
