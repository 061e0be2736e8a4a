----------------------------- MODULE ChannelMux -----------------------------
(***************************************************************************)
(* The SSH connection-protocol channel multiplexer of                      *)
(* src/lib/cluelessh-connection/src/lib.rs (struct ChannelsState).         *)
(*                                                                         *)
(* Two actors drive it: the peer, whose packets are handled by             *)
(* recv_packet, and the host, which calls create_channel and do_operation. *)
(* Every call runs to completion (the connection task is single threaded), *)
(* so each call is one atomic action; the interleaving of the two actors   *)
(* is the order in which the driver picks socket bytes and host ops.       *)
(*                                                                         *)
(* Data is abstracted to byte identities: the k-th byte the host submits   *)
(* on a stream of a channel is the number k, so ordering and loss are      *)
(* visible.  u32 arithmetic is scaled: UINT_MAX stands for u32::MAX and    *)
(* RefillThreshold for the hard-coded 1000 of the refill rule.             *)
(*                                                                         *)
(* packets_to_send is drained by the driver in FIFO order onto the socket, *)
(* so it is kept here as the cumulative log `wire`; channel_updates is     *)
(* drained by the driver in FIFO order, kept as the log `updates`.  Each   *)
(* outbound packet carries, besides the peer's channel number `to`, our    *)
(* own number `ch` as an annotation for the properties.                    *)
(***************************************************************************)
EXTENDS Integers, Sequences, SequencesExt, FiniteSets

CONSTANTS
    UINT_MAX,          \* scaled u32::MAX for window arithmetic
    ChannelIdMax,      \* scaled u32::MAX for the channel number counter
    RefillThreshold,   \* scaled "our_window_size < 1000" refill threshold
    DefaultWindow,     \* create_channel's our_window_size (2097152), scaled
    DefaultMaxPacket,  \* create_channel's our_max_packet_size (32768), scaled
    PeerChannels,      \* channel numbers the peer may choose
    PeerWindows,       \* initial windows the peer may announce
    PeerMaxPackets,    \* max packet sizes the peer may announce
    AdjustDeltas,      \* deltas of the WINDOW_ADJUSTs the peer may send
    PeerDataLens,      \* lengths of the CHANNEL_DATA the peer may send
    HostDataLens,      \* lengths of the host's Data/ExtendedData operations
    ExtCodes,          \* extended data codes (model values)
    NoExt,             \* stands for extended_code = None
    HostRequestKinds,  \* request kinds the host may send
    PeerRequestKinds,  \* request kinds the peer may send ("unknown": any other)
    PeerUnsupported,   \* packet types the peer may send that have no arm
    IsServer,          \* the is_server flag of ChannelsState::new
    MaxHostBytes,      \* bound: bytes the host submits per stream
    MaxSteps           \* bound: peer packets plus host calls

ASSUME NoExt \notin ExtCodes
ASSUME RefillThreshold \in 1..UINT_MAX /\ IsServer \in BOOLEAN
ASSUME ChannelIdMax \in Nat

ChanIds == 0..ChannelIdMax

Streams == {NoExt} \cup ExtCodes
SessionRequests == {"pty-req", "shell", "exec", "subsystem", "env"}
ASSUME PeerRequestKinds \subseteq SessionRequests \cup {"signal", "unknown"}

VARIABLES
    channels,       \* ChannelsState.channels: our number -> channel record
    nextChannelId,  \* ChannelsState.next_channel_id
    wire,           \* every packet pushed onto packets_to_send, in order
    updates,        \* every ChannelUpdate pushed onto channel_updates
    status,         \* "running", or how the connection ended
    submitted,      \* history: bytes the host submitted per channel/stream
    granted,        \* history: window the peer granted us per channel
    hostEof,        \* environment: channels on which the host sent Eof
    pendingReplies, \* environment: per channel, the want_reply session
                    \* requests the host has still to answer (their ids)
    wantedReplies,  \* history: the channel of each want_reply request the
                    \* peer sent; a request's id is its position here
    steps           \* bound counter

vars == <<channels, nextChannelId, wire, updates, status, submitted,
          granted, hostEof, pendingReplies, wantedReplies, steps>>

(* A channel record.  AwaitingConfirmation uses only state, ourWindow,    *)
(* ourMaxPacket; the other fields are 0/empty there.                      *)
ChannelRec == [state: {"awaiting", "open"}, weClosed: BOOLEAN,
               peerChannel: PeerChannels \cup {0}, peerWindow: 0..UINT_MAX,
               peerMaxPacket: 0..UINT_MAX, ourWindow: 0..UINT_MAX,
               ourMaxPacket: 0..UINT_MAX, step: 0..UINT_MAX,
               queue: [Streams -> Seq(Nat)]]

NoQueues == [s \in Streams |-> <<>>]

Awaiting(win, maxPacket) ==
    [state |-> "awaiting", weClosed |-> FALSE, peerChannel |-> 0,
     peerWindow |-> 0, peerMaxPacket |-> 0, ourWindow |-> win,
     ourMaxPacket |-> maxPacket, step |-> 0, queue |-> NoQueues]

OpenChannel(peer, peerWin, peerMax, ourWin, ourMax) ==
    [state |-> "open", weClosed |-> FALSE, peerChannel |-> peer,
     peerWindow |-> peerWin, peerMaxPacket |-> peerMax, ourWindow |-> ourWin,
     ourMaxPacket |-> ourMax, step |-> ourWin, queue |-> NoQueues]

Pkt(type, to, c) == [type |-> type, to |-> to, ch |-> c]
DataPkt(to, c, ext, data) ==
    [type |-> "DATA", to |-> to, ch |-> c, ext |-> ext, data |-> data]
WinPkt(type, to, c, win) == [type |-> type, to |-> to, ch |-> c, win |-> win]

\* A CHANNEL_SUCCESS/FAILURE; re names the request it answers (0: none).
ReplyPkt(type, to, c, re) == [type |-> type, to |-> to, ch |-> c, re |-> re]

Update(c, kind) == [num |-> c, kind |-> kind, len |-> 0]

IsOpen(c) == c \in DOMAIN channels /\ channels[c].state = "open"

Put(c, rec) == [x \in DOMAIN channels \cup {c} |->
                    IF x = c THEN rec ELSE channels[x]]
Forget(c) == [x \in DOMAIN channels \ {c} |-> channels[x]]

Running == status = "running"
Fail(kind) == /\ status' = kind
              /\ UNCHANGED <<channels, nextChannelId, wire, updates,
                             submitted, granted, hostEof, pendingReplies>>
Tick == steps' = steps + 1

-----------------------------------------------------------------------------
(* send_data: split into chunks of the peer's max packet size, send while  *)
(* the window allows, queue the rest of the bytes.                         *)

RECURSIVE Chunks(_, _)
Chunks(data, size) ==
    IF Len(data) <= size THEN <<data>>
    ELSE <<SubSeq(data, 1, size)>> \o Chunks(SubSeq(data, size + 1, Len(data)), size)

\* Mutant of SendChunks: a window decrement that saturates instead of
\* stopping the loop, so every chunk is sent whatever the window.
RECURSIVE SendChunksSaturating(_, _)
SendChunksSaturating(chunks, win) ==
    IF chunks = <<>> THEN [sent |-> <<>>, win |-> win, keep |-> <<>>]
    ELSE LET d == Head(chunks)
             r == SendChunksSaturating(Tail(chunks),
                                       IF Len(d) <= win THEN win - Len(d) ELSE 0)
         IN [r EXCEPT !.sent = <<d>> \o @]

\* The while-let loop over the chunks: what is sent, the window left, what is kept.
RECURSIVE SendChunks(_, _)
SendChunks(chunks, win) ==
    IF chunks = <<>> THEN [sent |-> <<>>, win |-> win, keep |-> <<>>]
    ELSE LET d == Head(chunks) IN
         IF Len(d) <= win
         THEN LET r == SendChunks(Tail(chunks), win - Len(d))
              IN [r EXCEPT !.sent = <<d>> \o @]
         ELSE [sent |-> IF win = 0 THEN <<>> ELSE <<SubSeq(d, 1, win)>>,
               win  |-> 0,
               keep |-> SubSeq(d, win + 1, Len(d)) \o FlattenSeq(Tail(chunks))]

\* Result of send_data(c, data, ext) on channel record ch: panics on the
\* assert!(!data.is_empty()) and on data.chunks(0).
SendData(c, ch, data, ext) ==
    IF data = <<>> \/ ch.peerMaxPacket = 0
    THEN [panic |-> TRUE, ch |-> ch, pkts |-> <<>>]
    ELSE LET r == SendChunks(Chunks(data, ch.peerMaxPacket), ch.peerWindow)
         IN [panic |-> FALSE,
             ch |-> [ch EXCEPT !.peerWindow = r.win,
                               !.queue[ext] = @ \o r.keep],
             pkts |-> [i \in 1..Len(r.sent) |->
                          DataPkt(ch.peerChannel, c, ext, r.sent[i])]]

\* The amount spliced off a queue when the window grows.
DrainLimit(q, win) == IF Len(q) < win THEN Len(q) ELSE win

\* Mutant of DrainDefault: the drained bytes are copied, not spliced off.
DrainDefaultNoSplice(c, ch) ==
    IF ch.queue[NoExt] = <<>> THEN [panic |-> FALSE, ch |-> ch, pkts |-> <<>>]
    ELSE LET q == ch.queue[NoExt]
         IN SendData(c, ch, SubSeq(q, 1, DrainLimit(q, ch.peerWindow)), NoExt)

\* The drain of the default queue in the WINDOW_ADJUST handler.
DrainDefault(c, ch) ==
    IF ch.queue[NoExt] = <<>> THEN [panic |-> FALSE, ch |-> ch, pkts |-> <<>>]
    ELSE LET q == ch.queue[NoExt]
             n == DrainLimit(q, ch.peerWindow)
         IN SendData(c, [ch EXCEPT !.queue[NoExt] = SubSeq(q, n + 1, Len(q))],
                     SubSeq(q, 1, n), NoExt)

\* The loop over the extended queues, in the HashMap's iteration order.
RECURSIVE DrainExt(_, _, _)
DrainExt(c, r, order) ==
    IF order = <<>> \/ r.panic THEN r
    ELSE LET e == Head(order)
             q == r.ch.queue[e]
             n == DrainLimit(q, r.ch.peerWindow)
             ch1 == [r.ch EXCEPT !.queue[e] = SubSeq(q, n + 1, Len(q))]
             s == SendData(c, ch1, SubSeq(q, 1, n), e)
         IN IF n = 0 THEN DrainExt(c, r, Tail(order))
            ELSE DrainExt(c, [panic |-> s.panic, ch |-> s.ch,
                              pkts |-> r.pkts \o s.pkts], Tail(order))

-----------------------------------------------------------------------------
Init ==
    /\ channels = [c \in {} |-> Awaiting(0, 0)]
    /\ nextChannelId = 0
    /\ wire = <<>>
    /\ updates = <<>>
    /\ status = "running"
    /\ submitted = [c \in ChanIds |-> [s \in Streams |-> 0]]
    /\ granted = [c \in ChanIds |-> 0]
    /\ hostEof = {}
    /\ pendingReplies = [c \in ChanIds |-> <<>>]
    /\ wantedReplies = <<>>
    /\ steps = 0

(* ---- peer packets: the arms of recv_packet ---- *)

\* SSH_MSG_GLOBAL_REQUEST: always answered with REQUEST_FAILURE.
RecvGlobalRequest ==
    /\ \E wantReply \in BOOLEAN :
          wire' = Append(wire, [type |-> "REQUEST_FAILURE", to |-> 0,
                                ch |-> -1, wantReply |-> wantReply])
    /\ UNCHANGED <<channels, nextChannelId, updates, status, submitted,
                   granted, hostEof, pendingReplies>>

\* SSH_MSG_CHANNEL_OPEN.
RecvChannelOpen ==
    \E isSession \in BOOLEAN, sender \in PeerChannels,
       win \in PeerWindows, maxPacket \in PeerMaxPackets :
      IF ~isSession
      THEN /\ wire' = Append(wire, Pkt("OPEN_FAILURE", sender, -1))
           /\ UNCHANGED <<channels, nextChannelId, updates, status,
                          submitted, granted, hostEof, pendingReplies>>
      ELSE IF nextChannelId = ChannelIdMax THEN Fail("error")
      ELSE LET c == nextChannelId IN
           /\ nextChannelId' = c + 1
           /\ wire' = Append(wire, WinPkt("OPEN_CONFIRMATION", sender, c, win))
           /\ channels' = Put(c, OpenChannel(sender, win, maxPacket, win, maxPacket))
           /\ updates' = Append(updates, Update(c, "Open"))
           /\ granted' = [granted EXCEPT ![c] = win]
           /\ UNCHANGED <<status, submitted, hostEof, pendingReplies>>

\* SSH_MSG_CHANNEL_OPEN_CONFIRMATION.
RecvOpenConfirmation ==
    \E c \in ChanIds, peer \in PeerChannels, win \in PeerWindows,
       maxPacket \in PeerMaxPackets :
      IF c \notin DOMAIN channels \/ channels[c].state # "awaiting"
      THEN Fail("error")
      ELSE /\ updates' = Append(updates, Update(c, "Open"))
           /\ channels' = Put(c, OpenChannel(peer, win, maxPacket,
                                 channels[c].ourWindow, channels[c].ourMaxPacket))
           /\ granted' = [granted EXCEPT ![c] = win]
           /\ UNCHANGED <<nextChannelId, wire, status, submitted, hostEof,
                          pendingReplies>>

\* SSH_MSG_CHANNEL_OPEN_FAILURE.
RecvOpenFailure ==
    \E c \in ChanIds :
      IF c \notin DOMAIN channels \/ channels[c].state # "awaiting"
      THEN Fail("error")
      ELSE /\ updates' = Append(updates, Update(c, "OpenFailed"))
           /\ channels' = Forget(c)
           /\ UNCHANGED <<nextChannelId, wire, status, submitted, granted,
                          hostEof, pendingReplies>>

\* SSH_MSG_CHANNEL_WINDOW_ADJUST: grow the peer window, then drain the
\* default queue and the extended queues.
RecvWindowAdjust ==
    \E c \in ChanIds, delta \in AdjustDeltas :
      IF ~IsOpen(c) THEN Fail("error")
      ELSE IF channels[c].peerWindow + delta > UINT_MAX THEN Fail("error")
      ELSE LET d == DrainDefault(c, [channels[c] EXCEPT !.peerWindow = @ + delta])
           IN IF d.panic THEN Fail("panic")
              ELSE \E order \in SetToSeqs(ExtCodes) :
                   LET x == DrainExt(c, d, order) IN
                   IF x.panic THEN Fail("panic")
                   ELSE /\ channels' = Put(c, x.ch)
                        /\ wire' = wire \o x.pkts
                        /\ granted' = [granted EXCEPT ![c] = @ + delta]
                        /\ UNCHANGED <<nextChannelId, updates, status,
                                       submitted, hostEof, pendingReplies>>

\* The window after the refill rule, when it does not overflow u32.
Refilled(w, step) == IF w < RefillThreshold THEN w + step ELSE w

\* Mutant of AcceptData: the window is refilled but no WINDOW_ADJUST is sent.
AcceptDataNoAdjust(c, len, nw, refill) ==
    /\ channels' = [channels EXCEPT ![c].ourWindow = nw]
    /\ updates' = Append(updates, [num |-> c, kind |-> "Data", len |-> len])
    /\ UNCHANGED <<nextChannelId, wire, status, submitted, granted, hostEof,
                   pendingReplies>>

\* The tail of the CHANNEL_DATA handler once both checks passed: store the
\* new window, send WINDOW_ADJUST if the refill rule fired, emit Data.
AcceptData(c, len, nw, refill) ==
    /\ channels' = [channels EXCEPT ![c].ourWindow = nw]
    /\ wire' = IF refill
               THEN Append(wire, WinPkt("WINDOW_ADJUST", channels[c].peerChannel,
                                        c, channels[c].step))
               ELSE wire
    /\ updates' = Append(updates, [num |-> c, kind |-> "Data", len |-> len])
    /\ UNCHANGED <<nextChannelId, status, submitted, granted, hostEof,
                   pendingReplies>>

\* SSH_MSG_CHANNEL_DATA.  `our_window_size += bytes_to_add` wraps in a
\* release build and panics in a debug build: both outcomes are possible.
RecvData ==
    \E c \in ChanIds, len \in PeerDataLens :
      IF ~IsOpen(c) THEN Fail("error")
      ELSE IF len > channels[c].ourWindow THEN Fail("error")
      ELSE IF channels[c].ourMaxPacket < len THEN Fail("error")
      ELSE LET w == channels[c].ourWindow - len
               refill == w < RefillThreshold
               nw == Refilled(w, channels[c].step)
           IN IF nw > UINT_MAX
              THEN \/ Fail("panic")
                   \/ AcceptData(c, len, nw % (UINT_MAX + 1), refill)
              ELSE AcceptData(c, len, nw, refill)

\* SSH_MSG_CHANNEL_EOF: only validate_channel, so an awaiting channel passes.
RecvEof ==
    \E c \in ChanIds :
      IF c \notin DOMAIN channels THEN Fail("error")
      ELSE /\ updates' = Append(updates, Update(c, "Eof"))
           /\ UNCHANGED <<channels, nextChannelId, wire, status, submitted,
                          granted, hostEof, pendingReplies>>

\* SSH_MSG_CHANNEL_CLOSE: answer with CLOSE unless we closed, then forget.
RecvClose ==
    \E c \in ChanIds :
      IF ~IsOpen(c) THEN Fail("error")
      ELSE /\ wire' = IF channels[c].weClosed THEN wire
                      ELSE Append(wire, Pkt("CLOSE", channels[c].peerChannel, c))
           /\ channels' = Forget(c)
           /\ updates' = Append(updates, Update(c, "Closed"))
           /\ UNCHANGED <<nextChannelId, status, submitted, granted, hostEof,
                          pendingReplies>>

\* SSH_MSG_CHANNEL_REQUEST.
RecvRequest ==
    \E c \in ChanIds, kind \in PeerRequestKinds, wantReply \in BOOLEAN :
      IF ~IsOpen(c) THEN Fail("error") /\ UNCHANGED wantedReplies
      ELSE IF kind \in SessionRequests \cup {"signal"} /\ ~IsServer
      THEN Fail("error") /\ UNCHANGED wantedReplies
      ELSE LET id == IF wantReply THEN Len(wantedReplies) + 1 ELSE 0 IN
           /\ wire' = IF kind = "unknown"
                      THEN Append(wire, ReplyPkt("FAILURE", channels[c].peerChannel, c, id))
                      ELSE wire
           /\ updates' = IF kind \in SessionRequests
                         THEN Append(updates, Update(c, "Request"))
                         ELSE updates
           /\ pendingReplies' = IF kind \in SessionRequests /\ wantReply
                                THEN [pendingReplies EXCEPT ![c] = Append(@, id)]
                                ELSE pendingReplies
           /\ wantedReplies' = IF wantReply THEN Append(wantedReplies, c)
                               ELSE wantedReplies
           /\ UNCHANGED <<channels, nextChannelId, status, submitted, granted,
                          hostEof>>

\* SSH_MSG_CHANNEL_SUCCESS and SSH_MSG_CHANNEL_FAILURE: validate_channel only.
RecvReply ==
    \E c \in ChanIds, kind \in {"Success", "Failure"} :
      IF c \notin DOMAIN channels THEN Fail("error")
      ELSE /\ updates' = Append(updates, Update(c, kind))
           /\ UNCHANGED <<channels, nextChannelId, wire, status, submitted,
                          granted, hostEof, pendingReplies>>

\* Any other packet type (CHANNEL_EXTENDED_DATA among them) hits todo!().
RecvUnsupported == PeerUnsupported # {} /\ Fail("panic")

\* A field that does not parse: the `?` on the payload parser.
RecvMalformed == Fail("error")

(* ---- host calls: create_channel and do_operation ---- *)

\* Mutant of CreateChannel: the counter is not advanced, so a number is reused.
CreateChannelNoBump ==
    /\ wire' = Append(wire, WinPkt("OPEN", nextChannelId, nextChannelId, DefaultWindow))
    /\ channels' = Put(nextChannelId, Awaiting(DefaultWindow, DefaultMaxPacket))
    /\ UNCHANGED <<nextChannelId, updates, status, submitted, granted, hostEof,
                   pendingReplies>>

\* Mutant of CreateChannel: an unchecked counter increment.
CreateChannelUnchecked ==
    LET c == nextChannelId IN
    /\ nextChannelId' = c + 1
    /\ wire' = Append(wire, WinPkt("OPEN", c, c, DefaultWindow))
    /\ channels' = Put(c, Awaiting(DefaultWindow, DefaultMaxPacket))
    /\ UNCHANGED <<updates, status, submitted, granted, hostEof,
                   pendingReplies>>

\* create_channel: allocate a number, send CHANNEL_OPEN, await confirmation.
CreateChannel ==
    IF nextChannelId = ChannelIdMax THEN Fail("panic")
    ELSE LET c == nextChannelId IN
         /\ nextChannelId' = c + 1
         /\ wire' = Append(wire, WinPkt("OPEN", c, c, DefaultWindow))
         /\ channels' = Put(c, Awaiting(DefaultWindow, DefaultMaxPacket))
         /\ UNCHANGED <<updates, status, submitted, granted, hostEof,
                        pendingReplies>>

\* Mutant of Usable: the we_closed check is missing (as in src/ssh-connection).
UsableIgnoringClose(c) == IsOpen(c)

\* do_operation drops the call unless the channel is open and not closed by us.
Usable(c) == IsOpen(c) /\ ~channels[c].weClosed

\* Success / Failure operations, answering a request that wanted a reply.
HostReply ==
    \E c \in ChanIds, type \in {"SUCCESS", "FAILURE"} :
      /\ Usable(c) /\ pendingReplies[c] # <<>>
      /\ wire' = Append(wire, ReplyPkt(type, channels[c].peerChannel, c,
                                       Head(pendingReplies[c])))
      /\ pendingReplies' = [pendingReplies EXCEPT ![c] = Tail(@)]
      /\ UNCHANGED <<channels, nextChannelId, updates, status, submitted,
                     granted, hostEof>>

\* Data / ExtendedData operations: send_data with fresh byte identities.
HostData ==
    \E c \in ChanIds, ext \in Streams, len \in HostDataLens :
      /\ Usable(c) /\ c \notin hostEof
      /\ submitted[c][ext] + len <= MaxHostBytes
      /\ LET k == submitted[c][ext]
             r == SendData(c, channels[c], [i \in 1..len |-> k + i], ext)
         IN IF r.panic THEN Fail("panic")
            ELSE /\ channels' = [channels EXCEPT ![c] = r.ch]
                 /\ wire' = wire \o r.pkts
                 /\ submitted' = [submitted EXCEPT ![c][ext] = k + len]
                 /\ UNCHANGED <<nextChannelId, updates, status, granted,
                                hostEof, pendingReplies>>

\* Request operations: exec, subsystem and env are todo!().
HostRequest ==
    \E c \in ChanIds, kind \in HostRequestKinds :
      /\ Usable(c)
      /\ IF kind \in {"exec", "subsystem", "env"} THEN Fail("panic")
         ELSE /\ wire' = Append(wire, Pkt("REQUEST", channels[c].peerChannel, c))
              /\ UNCHANGED <<channels, nextChannelId, updates, status,
                             submitted, granted, hostEof, pendingReplies>>

\* Eof operation: CHANNEL_EOF goes straight onto packets_to_send.
HostEof ==
    \E c \in ChanIds :
      /\ Usable(c)
      /\ wire' = Append(wire, Pkt("EOF", channels[c].peerChannel, c))
      /\ hostEof' = hostEof \cup {c}
      /\ UNCHANGED <<channels, nextChannelId, updates, status, submitted,
                     granted, pendingReplies>>

\* Close operation: send CHANNEL_CLOSE and mark we_closed.
HostClose ==
    \E c \in ChanIds :
      /\ Usable(c)
      /\ wire' = Append(wire, Pkt("CLOSE", channels[c].peerChannel, c))
      /\ channels' = [channels EXCEPT ![c].weClosed = TRUE]
      /\ UNCHANGED <<nextChannelId, updates, status, submitted, granted,
                     hostEof, pendingReplies>>

\* One call of the connection task: a peer packet or a host call, while the
\* connection runs and the step bound is not reached.
Step(A) == Running /\ steps < MaxSteps /\ A /\ Tick

\* A call that is not a peer CHANNEL_REQUEST leaves the request history alone.
Call(A) == Step(A) /\ UNCHANGED wantedReplies

\* The connection ended, or the bound on steps is reached.
Done == (~Running \/ steps = MaxSteps) /\ UNCHANGED vars

\* recv_packet (peer) and create_channel / do_operation (host).
Next ==
    \/ Call(RecvGlobalRequest) \/ Call(RecvChannelOpen)
    \/ Call(RecvOpenConfirmation) \/ Call(RecvOpenFailure)
    \/ Call(RecvWindowAdjust) \/ Call(RecvData) \/ Call(RecvEof)
    \/ Call(RecvClose) \/ Step(RecvRequest) \/ Call(RecvReply)
    \/ Call(RecvUnsupported) \/ Call(RecvMalformed)
    \/ Call(CreateChannel) \/ Call(HostReply) \/ Call(HostData)
    \/ Call(HostRequest) \/ Call(HostEof) \/ Call(HostClose)
    \/ Done

Spec == Init /\ [][Next]_vars

-----------------------------------------------------------------------------
(* Views of the logs used by the properties. *)

SumSeq(s) == FoldLeft(LAMBDA a, b : a + b, 0, s)
PktsOf(c, types) == SelectSeq(wire, LAMBDA p : p.ch = c /\ p.type \in types)
DataOf(c, s) == SelectSeq(PktsOf(c, {"DATA"}), LAMBDA p : p.ext = s)

\* The bytes of stream s of channel c that went onto the wire, in order.
SentBytes(c, s) == FlattenSeq([i \in 1..Len(DataOf(c, s)) |-> DataOf(c, s)[i].data])
\* Bytes sent on channel c, all streams together.
SentCount(c) == SumSeq([i \in 1..Len(PktsOf(c, {"DATA"})) |->
                          Len(PktsOf(c, {"DATA"})[i].data)])
\* Window we advertised for c: the initial window plus every WINDOW_ADJUST.
Advertised(c) ==
    LET ws == PktsOf(c, {"OPEN", "OPEN_CONFIRMATION", "WINDOW_ADJUST"})
    IN SumSeq([i \in 1..Len(ws) |-> ws[i].win])
\* Bytes the peer sent us on c that we accepted and handed to the host.
Accepted(c) ==
    LET ds == SelectSeq(updates, LAMBDA u : u.num = c /\ u.kind = "Data")
    IN SumSeq([i \in 1..Len(ds) |-> ds[i].len])

-----------------------------------------------------------------------------
(* Properties. *)

TypeOK ==
    /\ DOMAIN channels \subseteq ChanIds
    /\ \A c \in DOMAIN channels : channels[c] \in ChannelRec
    /\ nextChannelId \in 0..ChannelIdMax
    /\ status \in {"running", "error", "panic"}
    /\ submitted \in [ChanIds -> [Streams -> 0..MaxHostBytes]]
    /\ hostEof \subseteq ChanIds
    /\ steps \in 0..MaxSteps

\* Ordering (send_data, the WINDOW_ADJUST drain): on every open channel and
\* stream, the bytes put on the wire followed by the bytes still queued are
\* exactly the bytes the host submitted, in call order, whatever the peer's
\* window grants and max packet size.
OutboundStreamOrder ==
    \A c \in DOMAIN channels : channels[c].state = "open" =>
        \A s \in Streams :
            SentBytes(c, s) \o channels[c].queue[s]
                = [i \in 1..submitted[c][s] |-> i]

\* Flow control (send_data): we never send the peer more bytes on a channel
\* than its initial window plus its WINDOW_ADJUSTs, and no data packet
\* exceeds the max packet size the peer announced.
OutboundFlowControl ==
    \A c \in ChanIds :
        /\ SentCount(c) <= granted[c]
        /\ IsOpen(c) =>
             \A i \in 1..Len(PktsOf(c, {"DATA"})) :
                 Len(PktsOf(c, {"DATA"})[i].data) <= channels[c].peerMaxPacket

\* Window soundness (CHANNEL_DATA handler): the bytes we accept from the
\* peer on a channel never exceed the window we advertised for it, i.e. the
\* initial window plus the WINDOW_ADJUSTs we sent.
InboundWithinAdvertised ==
    \A c \in ChanIds : Accepted(c) <= Advertised(c)

\* Idempotent close (do_operation Close, CHANNEL_CLOSE handler): whatever
\* mix of host Close calls and peer CHANNEL_CLOSE happens, at most one
\* CHANNEL_CLOSE is sent per channel.
AtMostOneClose ==
    \A c \in ChanIds : Len(PktsOf(c, {"CLOSE"})) <= 1

\* The host's update stream (channel_updates): once a channel reported
\* Closed or OpenFailed, no further update names that channel number.
ClosedIsTerminal ==
    \A i, j \in 1..Len(updates) :
        (i < j /\ updates[i].num = updates[j].num)
            => updates[i].kind \notin {"Closed", "OpenFailed"}

\* Spec 4.I and RFC 4254 5.3 (CHANNEL_EOF, do_operation Eof/Close): once we
\* sent CHANNEL_EOF or CHANNEL_CLOSE on a channel, no CHANNEL_DATA follows
\* it on that channel, given a host that sends no Data after its Eof.
NoDataAfterEofOrClose ==
    \A i, j \in 1..Len(wire) :
        (i < j /\ wire[i].ch = wire[j].ch /\ wire[i].type \in {"EOF", "CLOSE"})
            => wire[j].type # "DATA"

\* RFC 4254 5.1/5.2 (refill rule of the CHANNEL_DATA handler): the window
\* the peer holds for us, advertised minus accepted, never exceeds 2^32-1,
\* so every WINDOW_ADJUST we send is one a conforming peer accepts.
AdjustWithinLimit ==
    \A c \in ChanIds : Advertised(c) - Accepted(c) <= UINT_MAX

\* Spec 7 (peer errors are fatal but clean): nothing the peer sends makes
\* recv_packet or the do_operation that follows it panic; the connection
\* ends, if at all, with an error the driver turns into a disconnect.
NoPanic == status # "panic"

\* The SUCCESS and FAILURE packets we sent on channel c, in order.
RepliesOn(c) == PktsOf(c, {"SUCCESS", "FAILURE"})
\* The ids of the peer's want_reply requests on channel c, in order.
WantedOn(c) == SelectSeq([i \in 1..Len(wantedReplies) |-> i],
                         LAMBDA i : wantedReplies[i] = c)

\* RFC 4254 5.4 and spec 4.I (the CHANNEL_REQUEST arm, do_operation
\* Success/Failure): the peer matches replies to requests by order alone,
\* so on every channel the k-th CHANNEL_SUCCESS or CHANNEL_FAILURE we send
\* must be the answer to the peer's k-th request that asked for a reply: a
\* request with want_reply false gets none, and none is skipped.
RepliesAnswerWantReply ==
    \A c \in ChanIds :
        /\ Len(RepliesOn(c)) <= Len(WantedOn(c))
        /\ \A k \in 1..Len(RepliesOn(c)) : RepliesOn(c)[k].re = WantedOn(c)[k]
====
