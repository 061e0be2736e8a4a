--------------------------- MODULE TransportServer ---------------------------
(***************************************************************************)
(* The transport handshake of one server connection.                      *)
(*                                                                         *)
(* The server is cluelessh-transport's ServerConnection (server.rs): the   *)
(* ServerState machine driven by recv_bytes, is_waiting_on_key_exchange    *)
(* and do_key_exchange.  It is composed with the part of the tokio driver  *)
(* (cluelessh-tokio server.rs, progress and send_off_data) that runs the   *)
(* host-key signature as a spawned task and feeds its result back, and     *)
(* with a client that follows RFC 4253 as the environment.                 *)
(*                                                                         *)
(* Bytes are abstracted to items: a whole packet named by its message      *)
(* type, and the identification line as a head and a tail, so that a read  *)
(* may end inside it.  A socket read returns any non-empty prefix of what  *)
(* the client has written, up to MaxSegment items.                         *)
(***************************************************************************)
EXTENDS Naturals, Sequences, SequencesExt

CONSTANTS
    MaxSegment,       \* most items one stream.read returns
    ClientPipelines,  \* may the client send KEXINIT without waiting for our ident
    ClientKexInits,   \* the KEXINITs a client may send
    ClientExtInfo,    \* may the client send EXT_INFO after its NEWKEYS
    ClientServices,   \* the service requests a client may make
    SignResults,      \* outcomes of the do_key_exchange callback
    MaxIgnore,        \* IGNORE/DEBUG packets the client may interleave
    MaxAuth,          \* packets the client sends once the service is accepted
    RogueMsgs,        \* out-of-protocol packets the client may inject
    MaxRogue,
    ClientMayClose    \* client may close the TCP stream

\* A KEXINIT with a common algorithm for every list, one whose lists have
\* nothing in common with ours, and one with first_kex_packet_follows set.
KexInits == {"KEXINIT", "KEXINIT_DISJOINT", "KEXINIT_GUESS"}

ClientItems ==
    {"IDENT_HEAD", "IDENT_TAIL", "ECDH_INIT", "NEWKEYS", "EXT_INFO",
     "SERVICE_REQUEST", "SERVICE_OTHER", "IGNORE", "DEBUG", "DISCONNECT",
     "USERAUTH"} \cup KexInits

ServerMsgs == {"IDENT", "KEXINIT", "ECDH_REPLY", "NEWKEYS", "SERVICE_ACCEPT"}

ASSUME /\ MaxSegment \in Nat \ {0}
       /\ ClientPipelines \subseteq BOOLEAN /\ ClientExtInfo \subseteq BOOLEAN
       /\ ClientServices \subseteq {"SERVICE_REQUEST", "SERVICE_OTHER"}
       /\ ClientKexInits \subseteq KexInits
       /\ SignResults \subseteq {"ok", "err"} /\ SignResults # {}
       /\ {MaxIgnore, MaxAuth, MaxRogue} \subseteq Nat
       /\ RogueMsgs \subseteq ClientItems
       /\ ClientMayClose \in BOOLEAN

\* The variants of ServerState (server.rs), by name.
ServerStates ==
    {"ProtoExchange", "KeyExchangeInit", "DhKeyInit", "WaitingForKeyExchange",
     "NewKeys", "ServiceRequest", "Open"}

VARIABLES
    srv,                  \* ServerConnection: state, may_send_extensions,
                          \* the transport's send queue, plaintext_packets,
                          \* and what the last call returned
    pc,                   \* driver: "top" of progress, or blocked in select!
    signatureInProgress,  \* signature_in_progress
    tasks,                \* spawned key-exchange tasks not yet finished
    ops,                  \* operations channel (KeyExchangeResponseReceived)
    c2s,                  \* bytes written by the client, not yet read
    s2c,                  \* everything written to the socket by send_off_data
    cread,                \* how much of s2c the client has read
    cmode,                \* the client's variant, fixed at the start
    cstage,               \* client's progress through the handshake
    budget,               \* client's remaining optional packets
    cclosed               \* client has closed its side of the stream

vars == <<srv, pc, signatureInProgress, tasks, ops, c2s, s2c, cread, cmode,
          cstage, budget, cclosed>>

-----------------------------------------------------------------------------
(* ServerConnection (cluelessh-transport server.rs)                        *)

\* A call ends the connection with an error (peer_error!, ? on a parse).
Fail(st) == [st EXCEPT !.status = "error"]

\* KeyExchangeInit: parse the KEXINIT, find an algorithm of every kind
\* (each find can fail), refuse a guessed packet, queue our KEXINIT.
RecvKexInit(st, p) ==
    LET parsed  == p \in KexInits
        common  == p # "KEXINIT_DISJOINT"
        follows == p = "KEXINIT_GUESS"
    IN IF parsed /\ common /\ ~follows
       THEN [st EXCEPT !.state = "DhKeyInit", !.out = Append(@, "KEXINIT")]
       ELSE Fail(st)

\* DhKeyInit: parse the client's ECDH_INIT and wait for the signature.
RecvDhKeyInit(st, p) ==
    IF p = "ECDH_INIT" THEN [st EXCEPT !.state = "WaitingForKeyExchange"]
                       ELSE Fail(st)

\* NewKeys: the packet must be NEWKEYS; queue ours, set_key, and allow one
\* EXT_INFO before the service request.
RecvNewKeys(st, p) ==
    IF p = "NEWKEYS"
    THEN [st EXCEPT !.out = Append(@, "NEWKEYS"), !.state = "ServiceRequest",
                    !.mayExt = TRUE]
    ELSE Fail(st)

\* Mutant: the service name is not checked.
RecvServiceRequestAnyName(st, p) ==
    CASE p \in {"SERVICE_REQUEST", "SERVICE_OTHER"} ->
            [st EXCEPT !.out = Append(@, "SERVICE_ACCEPT"), !.state = "Open"]
      [] p = "EXT_INFO" /\ st.mayExt -> [st EXCEPT !.mayExt = FALSE]
      [] OTHER -> Fail(st)

\* ServiceRequest: only ssh-userauth is accepted; EXT_INFO only once.
RecvServiceRequest(st, p) ==
    CASE p = "SERVICE_REQUEST" ->
            [st EXCEPT !.out = Append(@, "SERVICE_ACCEPT"), !.state = "Open"]
      [] p = "EXT_INFO" /\ st.mayExt -> [st EXCEPT !.mayExt = FALSE]
      [] OTHER -> Fail(st)

\* One packet of the loop over recv_next_packet: DISCONNECT, IGNORE and
\* DEBUG in any state, then the arm of the current state.
HandlePacket(st, p) ==
    CASE p = "DISCONNECT"           -> [st EXCEPT !.status = "disconnect"]
      [] p \in {"IGNORE", "DEBUG"}  -> st
      [] st.state = "KeyExchangeInit" -> RecvKexInit(st, p)
      [] st.state = "DhKeyInit"       -> RecvDhKeyInit(st, p)
      [] st.state = "WaitingForKeyExchange" -> Fail(st)
      [] st.state = "NewKeys"         -> RecvNewKeys(st, p)
      [] st.state = "ServiceRequest"  -> RecvServiceRequest(st, p)
      [] st.state = "Open"            -> [st EXCEPT !.plaintext = @ + 1]

\* The packets framed by one call, handled in order; an error returns early.
RECURSIVE HandlePackets(_, _)
HandlePackets(st, ps) ==
    IF ps = <<>> \/ st.status # "running" THEN st
    ELSE HandlePackets(HandlePacket([st EXCEPT !.seen = Append(@, Head(ps))],
                                    Head(ps)), Tail(ps))

\* ProtoExchange: the ident parser is fed the whole read.  Once the line is
\* complete we queue our ident and switch state, returning Full: whatever
\* followed the line in the same read goes nowhere, and is counted in lost.
ProtoExchange(st, seg) ==
    LET ends == {i \in 1..Len(seg) : seg[i] = "IDENT_TAIL"}
    IN IF ends = {} THEN st
       ELSE [st EXCEPT !.state = "KeyExchangeInit", !.out = Append(@, "IDENT"),
                       !.seen = Append(@, "IDENT"),
                       !.lost = @ + Len(seg) - CHOOSE i \in ends : TRUE]

\* recv_bytes: ProtoExchange, or the packet transport frames every whole
\* packet of the read and each is handled.
RecvBytes(st, seg) ==
    IF st.state = "ProtoExchange" THEN ProtoExchange(st, seg)
                                  ELSE HandlePackets(st, seg)

\* Mutant: the key-exchange parameters are offered as soon as KEXINIT is done.
IsWaitingEarly(st) == st.state \in {"DhKeyInit", "WaitingForKeyExchange"}

IsWaitingOnKeyExchange(st) == st.state = "WaitingForKeyExchange"

\* do_key_exchange: queue ECDH_REPLY and wait for NEWKEYS; unreachable!
\* (a panic) in any other state.
DoKeyExchange(st) ==
    IF st.state = "WaitingForKeyExchange"
    THEN [st EXCEPT !.out = Append(@, "ECDH_REPLY"), !.state = "NewKeys"]
    ELSE [st EXCEPT !.status = "panic"]

-----------------------------------------------------------------------------
(* The driver (cluelessh-tokio server.rs, ServerConnection::progress)      *)

Running == srv.status = "running"

\* send_off_data: everything queued is written to the socket in order.
SendOffData(st) ==
    /\ srv' = [st EXCEPT !.out = <<>>]
    /\ s2c' = s2c \o st.out

\* Mutant: a signature task is spawned on every pass while waiting.
DriverTopNoFlag ==
    /\ Running /\ pc = "top"
    /\ IF IsWaitingOnKeyExchange(srv)
       THEN signatureInProgress' = TRUE /\ tasks' = tasks + 1
       ELSE UNCHANGED <<signatureInProgress, tasks>>
    /\ SendOffData(srv)
    /\ pc' = "select"
    /\ UNCHANGED <<ops, c2s, cread, cmode, cstage, budget, cclosed>>

\* Top of progress: spawn the signature task once per wait, then flush.
DriverTop ==
    /\ Running /\ pc = "top"
    /\ IF IsWaitingOnKeyExchange(srv) /\ ~signatureInProgress
       THEN signatureInProgress' = TRUE /\ tasks' = tasks + 1
       ELSE UNCHANGED <<signatureInProgress, tasks>>
    /\ SendOffData(srv)
    /\ pc' = "select"
    /\ UNCHANGED <<ops, c2s, cread, cmode, cstage, budget, cclosed>>

\* select!, socket branch: a read of 1..MaxSegment items into recv_bytes.
DriverRead ==
    /\ Running /\ pc = "select" /\ c2s # <<>>
    /\ \E k \in 1..MaxSegment :
          /\ k <= Len(c2s)
          /\ srv' = RecvBytes(srv, SubSeq(c2s, 1, k))
          /\ c2s' = SubSeq(c2s, k + 1, Len(c2s))
    /\ pc' = "top"
    /\ UNCHANGED <<signatureInProgress, tasks, ops, s2c, cread, cmode, cstage,
                   budget, cclosed>>

\* select!, socket branch: read returned 0 bytes, EOF.
DriverEof ==
    /\ Running /\ pc = "select" /\ c2s = <<>> /\ cclosed
    /\ srv' = [srv EXCEPT !.status = "disconnect"]
    /\ UNCHANGED <<pc, signatureInProgress, tasks, ops, c2s, s2c, cread,
                   cmode, cstage, budget, cclosed>>

\* select!, operations branch: KeyExchangeResponseReceived.  signature?
\* ends the connection on a failed callback; then send_off_data.
DriverKexResult ==
    /\ Running /\ pc = "select" /\ ops # <<>>
    /\ ops' = Tail(ops)
    /\ LET st == IF Head(ops) = "ok" THEN DoKeyExchange(srv) ELSE Fail(srv)
       IN IF st.status = "running"
          THEN SendOffData(st)
          ELSE srv' = st /\ UNCHANGED s2c
    /\ pc' = "top"
    /\ UNCHANGED <<signatureInProgress, tasks, c2s, cread, cmode, cstage, budget,
                   cclosed>>

\* Mutant: the task's result is lost (the ignored send error of the task).
KexTaskDoneDropped ==
    /\ tasks > 0
    /\ tasks' = tasks - 1
    /\ UNCHANGED <<srv, pc, signatureInProgress, ops, c2s, s2c, cread, cmode,
                   cstage, budget, cclosed>>

\* The spawned task: the callback returns and its result is sent on the
\* operations channel (capacity 15, never full here).
KexTaskDone ==
    /\ tasks > 0
    /\ \E r \in SignResults : ops' = Append(ops, r)
    /\ tasks' = tasks - 1
    /\ UNCHANGED <<srv, pc, signatureInProgress, c2s, s2c, cread, cmode, cstage,
                   budget, cclosed>>

-----------------------------------------------------------------------------
(* The client (environment, RFC 4253)                                      *)

Send(items) == c2s' = c2s \o items

\* What the client sends as its KEXINIT, and the stage after it: a guessed
\* packet goes out right behind a KEXINIT with first_kex_packet_follows.
KexInitItems ==
    IF cmode.kexinit = "KEXINIT_GUESS" THEN <<"KEXINIT_GUESS", "ECDH_INIT">>
                                       ELSE <<cmode.kexinit>>
AfterKexInit == IF cmode.kexinit = "KEXINIT_GUESS" THEN "ecdh_sent"
                                                   ELSE "kexinit_sent"

ClientStart ==
    /\ cstage = "start"
    /\ IF cmode.pipelines
       THEN Send(<<"IDENT_HEAD", "IDENT_TAIL">> \o KexInitItems)
            /\ cstage' = AfterKexInit
       ELSE Send(<<"IDENT_HEAD", "IDENT_TAIL">>) /\ cstage' = "ident_sent"
    /\ UNCHANGED <<srv, pc, signatureInProgress, tasks, ops, s2c, cread,
                   cmode, budget, cclosed>>

\* The client reads our next message and answers it.
ClientReact(m) ==
    CASE m = "IDENT" /\ cstage = "ident_sent" ->
            Send(KexInitItems) /\ cstage' = AfterKexInit
      [] m = "KEXINIT" /\ cstage = "kexinit_sent" ->
            Send(<<"ECDH_INIT">>) /\ cstage' = "ecdh_sent"
      [] m = "ECDH_REPLY" ->
            /\ Send(<<"NEWKEYS">> \o (IF cmode.extInfo THEN <<"EXT_INFO">>
                                                       ELSE <<>>)
                    \o <<cmode.service>>)
            /\ cstage' = "newkeys_sent"
      [] m = "SERVICE_ACCEPT" -> UNCHANGED c2s /\ cstage' = "auth"
      [] OTHER -> UNCHANGED <<c2s, cstage>>

ClientRecv ==
    /\ cread < Len(s2c)
    /\ cread' = cread + 1
    /\ ClientReact(s2c[cread + 1])
    /\ UNCHANGED <<srv, pc, signatureInProgress, tasks, ops, s2c, budget,
                   cmode, cclosed>>

\* Optional packets: IGNORE/DEBUG at any time after the ident, userauth
\* traffic once the service is accepted, out-of-protocol packets, and EOF.
ClientIgnore ==
    /\ cstage # "start" /\ ~cclosed /\ budget.ignore > 0
    /\ \E m \in {"IGNORE", "DEBUG"} : Send(<<m>>)
    /\ budget' = [budget EXCEPT !.ignore = @ - 1]
    /\ UNCHANGED <<srv, pc, signatureInProgress, tasks, ops, s2c, cread,
                   cmode, cstage, cclosed>>

ClientAuth ==
    /\ cstage = "auth" /\ ~cclosed /\ budget.auth > 0
    /\ Send(<<"USERAUTH">>)
    /\ budget' = [budget EXCEPT !.auth = @ - 1]
    /\ UNCHANGED <<srv, pc, signatureInProgress, tasks, ops, s2c, cread,
                   cmode, cstage, cclosed>>

ClientRogue ==
    /\ cstage # "start" /\ ~cclosed /\ budget.rogue > 0
    /\ \E m \in RogueMsgs : Send(<<m>>)
    /\ budget' = [budget EXCEPT !.rogue = @ - 1]
    /\ UNCHANGED <<srv, pc, signatureInProgress, tasks, ops, s2c, cread,
                   cmode, cstage, cclosed>>

ClientClose ==
    /\ ClientMayClose /\ ~cclosed
    /\ cclosed' = TRUE
    /\ UNCHANGED <<srv, pc, signatureInProgress, tasks, ops, c2s, s2c, cread,
                   cmode, cstage, budget>>

-----------------------------------------------------------------------------

Init ==
    /\ srv = [state |-> "ProtoExchange", mayExt |-> FALSE, out |-> <<>>,
              plaintext |-> 0, status |-> "running", lost |-> 0,
              seen |-> <<>>]
    /\ pc = "top"
    /\ signatureInProgress = FALSE
    /\ tasks = 0
    /\ ops = <<>>
    /\ c2s = <<>>
    /\ s2c = <<>>
    /\ cread = 0
    /\ cmode \in [pipelines : ClientPipelines, kexinit : ClientKexInits,
                 extInfo : ClientExtInfo, service : ClientServices]
    /\ cstage = "start"
    /\ budget = [ignore |-> MaxIgnore, auth |-> MaxAuth, rogue |-> MaxRogue]
    /\ cclosed = FALSE

\* The connection has ended (progress returned an error or panicked), or
\* the driver is parked in select! with nothing to read and no result due.
Ended == ~Running /\ UNCHANGED vars
Parked ==
    /\ Running /\ pc = "select" /\ c2s = <<>> /\ ~cclosed
    /\ ops = <<>> /\ tasks = 0
    /\ UNCHANGED vars

Next ==
    \/ DriverTop \/ DriverRead \/ DriverEof \/ DriverKexResult \/ KexTaskDone
    \/ ClientStart \/ ClientRecv \/ ClientIgnore \/ ClientAuth
    \/ ClientRogue \/ ClientClose
    \/ Ended \/ Parked

\* The connection task is polled whenever one of its select! branches is
\* ready, a spawned task runs to completion, and the client follows the
\* protocol; optional client packets get no fairness.
Fairness ==
    /\ WF_vars(DriverTop) /\ WF_vars(DriverRead) /\ WF_vars(DriverEof)
    /\ WF_vars(DriverKexResult) /\ WF_vars(KexTaskDone)
    /\ WF_vars(ClientStart) /\ WF_vars(ClientRecv)

Spec == Init /\ [][Next]_vars /\ Fairness

-----------------------------------------------------------------------------
(* Properties                                                              *)

\* Types, and progress's signature_in_progress flag keeping at most one
\* host-key signature task alive.
TypeOK ==
    /\ srv.state \in ServerStates
    /\ srv.mayExt \in BOOLEAN
    /\ srv.out \in Seq(ServerMsgs)
    /\ srv.plaintext \in Nat
    /\ srv.status \in {"running", "error", "disconnect", "panic"}
    /\ srv.lost \in Nat
    /\ srv.seen \in Seq(ClientItems \cup {"IDENT"})
    /\ pc \in {"top", "select"}
    /\ signatureInProgress \in BOOLEAN
    /\ tasks \in 0..1
    /\ ops \in Seq(SignResults)
    /\ c2s \in Seq(ClientItems)
    /\ s2c \in Seq(ServerMsgs)
    /\ cread \in 0..Len(s2c)

\* The phase of SshHandshake each ServerState stands for.
PhaseOf == [ProtoExchange |-> "ident", KeyExchangeInit |-> "kexinit",
            DhKeyInit |-> "ecdh", WaitingForKeyExchange |-> "sign",
            NewKeys |-> "newkeys", ServiceRequest |-> "service", Open |-> "open"]

\* The server's messages are those written and those still queued; the
\* client messages heard are the packets handed to the state arms (and
\* the ident line once complete); the handshake is live while running.
Handshake == INSTANCE SshHandshake WITH
    MaxBatch <- MaxSegment, phase <- PhaseOf[srv.state],
    sent <- s2c \o srv.out, heard <- srv.seen, extOk <- srv.mayExt,
    live <- Running

\* recv_bytes_inner's state arms, do_key_exchange and send_off_data together
\* implement the handshake of spec 4.E: every client message is answered
\* by the next server message or ends the connection, the server never
\* repeats, skips or reorders its messages, never opens on another service
\* or a second EXT_INFO, whatever the client sends and however its bytes are
\* split between reads.
HandshakeRefinement == Handshake!Spec

\* The key-exchange result is only ever applied while the transport waits
\* for it: do_key_exchange's unreachable! is never reached, however the
\* spawned task's completion interleaves with socket reads.
NoPanic == srv.status # "panic"

\* A client that follows the protocol gets the connection to Open: the
\* handshake never stalls with both sides waiting.
HandshakeCompletes == <>(srv.state = "Open")

\* Whatever else the client does (a wrong KEXINIT, a rogue packet, a close,
\* a failing signature), as long as it does not pipeline its KEXINIT the
\* handshake never stalls: progress either reaches Open or ends the
\* connection.  It needs the spawned signature task, its result on the
\* operations queue and the select! arms to be taken in turn.
HandshakeSettles == ~cmode.pipelines => <>(srv.state = "Open" \/ ~Running)

=============================================================================
