---------------------------- MODULE SessionDriver ----------------------------
(***************************************************************************)
(* The channel side of the tokio session driver (cluelessh-tokio          *)
(* server.rs) once the connection is open: open_channel, the loop of       *)
(* progress that forwards the multiplexer's channel updates to per-channel *)
(* queues (capacity 10, awaited with send().await), and the select! arms   *)
(* that read the socket and apply channel operations from the shared       *)
(* operations queue (capacity 15).                                        *)
(*                                                                         *)
(* The multiplexer is abstracted to the updates it emits for each peer     *)
(* packet (ChannelMux checks how it emits them): a socket read delivers    *)
(* one packet of a peer that follows RFC 4254.  Each channel's handler,    *)
(* the host code holding the Channel object, is the environment: it       *)
(* receives updates and sends operations, awaiting a full queue.           *)
(***************************************************************************)
EXTENDS Naturals, Sequences, SequencesExt

CONSTANTS
    Chans,        \* channel numbers
    HostOpened,   \* channels the host opens with open_channel
    UpdateCap,    \* capacity of a channel's update queue
    OpsCap,       \* capacity of the channel operations queue
    MaxData,      \* data packets the peer sends per channel
    MaxOutputs,   \* operations each handler sends, per channel
    PeerEarlyEof  \* may the peer send CHANNEL_EOF before confirming our open

ASSUME /\ HostOpened \subseteq Chans
       /\ UpdateCap \in Nat \ {0} /\ OpsCap \in Nat \ {0}
       /\ MaxData \in Nat /\ MaxOutputs \in [Chans -> Nat]
       /\ PeerEarlyEof \in BOOLEAN

\* Update kinds the driver forwards to a channel's queue.
Forwarded == {"Data", "Eof", "Closed"}

VARIABLES
    muxUpdates,  \* ChannelsState's channel_updates, not yet taken
    table,       \* the driver's channels map: "none", "pending", "ready"
    updatesQ,    \* per-channel update queue (mpsc, UpdateCap)
    readyMsg,    \* what ready_send delivered to a pending channel
    opsQ,        \* channel_ops queue (mpsc, OpsCap)
    pc,          \* progress: "top", "forward", "select"
    status,      \* "running" or the error progress returned
    peer,        \* per channel: the peer's progress through the channel
    sentData,    \* per channel: data packets the peer has sent
    emitted,     \* history: updates the multiplexer emitted, per channel
    delivered,   \* history: updates each handler received
    handler,     \* per channel: "idle" or blocked "sending"
    outputs      \* per channel: operations the handler still has to send

vars == <<muxUpdates, table, updatesQ, readyMsg, opsQ, pc, status, peer,
          sentData, emitted, delivered, handler, outputs>>

peerVars == <<peer, sentData, emitted>>
hostVars == <<delivered, handler, outputs>>

Running == status = "running"

-----------------------------------------------------------------------------
(* The driver                                                              *)

\* open_channel: create_channel, then a Pending entry holding the update
\* queue and the ready oneshot.  Only callable between progress calls.
OpenChannel(c) ==
    /\ Running /\ pc = "top"
    /\ c \in HostOpened /\ table[c] = "none" /\ peer[c] = "idle"
    /\ table' = [table EXCEPT ![c] = "pending"]
    /\ peer' = [peer EXCEPT ![c] = "opening"]
    /\ UNCHANGED <<muxUpdates, updatesQ, readyMsg, opsQ, pc, status, sentData,
                   emitted, hostVars>>

\* Top of progress: start taking the multiplexer's updates.
DriverTop ==
    /\ Running /\ pc = "top"
    /\ pc' = "forward"
    /\ UNCHANGED <<muxUpdates, table, updatesQ, readyMsg, opsQ, status,
                   peerVars, hostVars>>

\* One update of `while let Some(update) = next_channel_update()`.
ForwardOpen(c) ==
    CASE table[c] = "pending" ->
            /\ table' = [table EXCEPT ![c] = "ready"]
            /\ readyMsg' = [readyMsg EXCEPT ![c] = "ok"]
            /\ UNCHANGED <<updatesQ, status>>
      [] table[c] = "ready" ->
            status' = "open_twice" /\ UNCHANGED <<table, readyMsg, updatesQ>>
      [] table[c] = "none" ->
            /\ table' = [table EXCEPT ![c] = "ready"]
            /\ updatesQ' = [updatesQ EXCEPT ![c] = <<>>]
            /\ UNCHANGED <<readyMsg, status>>

ForwardOpenFailed(c) ==
    CASE table[c] = "pending" ->
            /\ table' = [table EXCEPT ![c] = "none"]
            /\ readyMsg' = [readyMsg EXCEPT ![c] = "err"]
            /\ UNCHANGED <<updatesQ, status>>
      [] table[c] = "ready" ->
            status' = "open_twice" /\ UNCHANGED <<table, readyMsg, updatesQ>>
      [] table[c] = "none" ->
            status' = "unknown_channel" /\ UNCHANGED <<table, readyMsg, updatesQ>>

\* Mutant: an unbounded updates channel, sends never wait.
ForwardOtherUnbounded(c, kind) ==
    CASE table[c] = "ready" ->
            /\ updatesQ' = [updatesQ EXCEPT ![c] = Append(@, kind)]
            /\ UNCHANGED <<table, readyMsg, status>>
      [] table[c] = "pending" ->
            status' = "not_ready" /\ UNCHANGED <<table, readyMsg, updatesQ>>
      [] table[c] = "none" ->
            status' = "unknown_channel" /\ UNCHANGED <<table, readyMsg, updatesQ>>

\* Mutant: try_send in place of send().await, dropping what does not fit.
ForwardOtherTrySend(c, kind) ==
    CASE table[c] = "ready" ->
            /\ updatesQ' = [updatesQ EXCEPT ![c] =
                               IF Len(@) < UpdateCap THEN Append(@, kind) ELSE @]
            /\ UNCHANGED <<table, readyMsg, status>>
      [] table[c] = "pending" ->
            status' = "not_ready" /\ UNCHANGED <<table, readyMsg, updatesQ>>
      [] table[c] = "none" ->
            status' = "unknown_channel" /\ UNCHANGED <<table, readyMsg, updatesQ>>

\* Mutant: an update for a Pending channel goes into its queue, which
\* open_channel already created, instead of ending the connection.
ForwardOtherPending(c, kind) ==
    CASE table[c] \in {"ready", "pending"} ->
            /\ Len(updatesQ[c]) < UpdateCap
            /\ updatesQ' = [updatesQ EXCEPT ![c] = Append(@, kind)]
            /\ UNCHANGED <<table, readyMsg, status>>
      [] table[c] = "none" ->
            status' = "unknown_channel" /\ UNCHANGED <<table, readyMsg, updatesQ>>

\* Any other kind: an error unless Ready; then send(...).await, which waits
\* while the channel's queue is full.
ForwardOther(c, kind) ==
    CASE table[c] = "ready" ->
            /\ Len(updatesQ[c]) < UpdateCap
            /\ updatesQ' = [updatesQ EXCEPT ![c] = Append(@, kind)]
            /\ UNCHANGED <<table, readyMsg, status>>
      [] table[c] = "pending" ->
            status' = "not_ready" /\ UNCHANGED <<table, readyMsg, updatesQ>>
      [] table[c] = "none" ->
            status' = "unknown_channel" /\ UNCHANGED <<table, readyMsg, updatesQ>>

ForwardUpdate ==
    /\ Running /\ pc = "forward" /\ muxUpdates # <<>>
    /\ LET u == Head(muxUpdates)
       IN CASE u.kind = "Open"       -> ForwardOpen(u.ch)
            [] u.kind = "OpenFailed" -> ForwardOpenFailed(u.ch)
            [] OTHER                 -> ForwardOther(u.ch, u.kind)
    /\ muxUpdates' = Tail(muxUpdates)
    /\ UNCHANGED <<opsQ, pc, peerVars, hostVars>>

\* Mutant: `if let` for `while let`, leaving the loop with updates left.
ForwardDoneEarly ==
    /\ Running /\ pc = "forward"
    /\ pc' = "select"
    /\ UNCHANGED <<muxUpdates, table, updatesQ, readyMsg, opsQ, status,
                   peerVars, hostVars>>

\* No update left: send_off_data, then block in select!.
ForwardDone ==
    /\ Running /\ pc = "forward" /\ muxUpdates = <<>>
    /\ pc' = "select"
    /\ UNCHANGED <<muxUpdates, table, updatesQ, readyMsg, opsQ, status,
                   peerVars, hostVars>>

\* What the peer may send next on a channel, and the update it produces.
\* The CHANNEL_EOF arm only checks that the channel exists, so an EOF on a
\* channel still awaiting confirmation becomes an Eof update (lib.rs:386).
PeerMoves(c) ==
    CASE peer[c] = "opening" -> {[kind |-> "Open", next |-> "open"],
                                 [kind |-> "OpenFailed", next |-> "done"]}
                                \cup (IF PeerEarlyEof
                                      THEN {[kind |-> "Eof", next |-> "opening"]}
                                      ELSE {})
      [] peer[c] = "idle" /\ c \notin HostOpened ->
            {[kind |-> "Open", next |-> "open"]}
      [] peer[c] = "open" ->
            {[kind |-> "Eof", next |-> "eof"], [kind |-> "Closed", next |-> "done"]}
            \cup (IF sentData[c] < MaxData
                  THEN {[kind |-> "Data", next |-> "open"]} ELSE {})
      [] peer[c] = "eof" -> {[kind |-> "Closed", next |-> "done"]}
      [] OTHER -> {}

\* select!, socket arm: recv_bytes of one peer packet, which makes the
\* multiplexer emit one update.
DriverRead ==
    /\ Running /\ pc = "select"
    /\ \E c \in Chans : \E m \in PeerMoves(c) :
          /\ peer' = [peer EXCEPT ![c] = m.next]
          /\ sentData' = [sentData EXCEPT ![c] = @ + (IF m.kind = "Data" THEN 1 ELSE 0)]
          /\ muxUpdates' = Append(muxUpdates, [ch |-> c, kind |-> m.kind])
          /\ emitted' = [emitted EXCEPT ![c] = Append(@, m.kind)]
    /\ pc' = "top"
    /\ UNCHANGED <<table, updatesQ, readyMsg, opsQ, status, hostVars>>

\* select!, channel_ops arm: do_operation on the multiplexer.
DriverChannelOp ==
    /\ Running /\ pc = "select" /\ opsQ # <<>>
    /\ opsQ' = Tail(opsQ)
    /\ pc' = "top"
    /\ UNCHANGED <<muxUpdates, table, updatesQ, readyMsg, status, peerVars,
                   hostVars>>

-----------------------------------------------------------------------------
(* Channel handlers (environment)                                          *)

\* A handler holds its Channel once the channel is Ready: a peer-opened one
\* from next_new_channel, a host-opened one once ready_recv says Ok.
HasChannel(c) == table[c] = "ready"

HandlerRecv(c) ==
    /\ HasChannel(c) /\ handler[c] = "idle" /\ updatesQ[c] # <<>>
    /\ delivered' = [delivered EXCEPT ![c] = Append(@, Head(updatesQ[c]))]
    /\ updatesQ' = [updatesQ EXCEPT ![c] = Tail(@)]
    /\ UNCHANGED <<muxUpdates, table, readyMsg, opsQ, pc, status, peerVars,
                   handler, outputs>>

HandlerOutput(c) ==
    /\ HasChannel(c) /\ handler[c] = "idle" /\ outputs[c] > 0
    /\ handler' = [handler EXCEPT ![c] = "sending"]
    /\ outputs' = [outputs EXCEPT ![c] = @ - 1]
    /\ UNCHANGED <<muxUpdates, table, updatesQ, readyMsg, opsQ, pc, status,
                   peerVars, delivered>>

\* ops_send.send(op).await completes once the queue has room.
HandlerSend(c) ==
    /\ handler[c] = "sending" /\ Len(opsQ) < OpsCap
    /\ opsQ' = Append(opsQ, c)
    /\ handler' = [handler EXCEPT ![c] = "idle"]
    /\ UNCHANGED <<muxUpdates, table, updatesQ, readyMsg, pc, status, peerVars,
                   delivered, outputs>>

-----------------------------------------------------------------------------

Init ==
    /\ muxUpdates = <<>>
    /\ table = [c \in Chans |-> "none"]
    /\ updatesQ = [c \in Chans |-> <<>>]
    /\ readyMsg = [c \in Chans |-> "none"]
    /\ opsQ = <<>>
    /\ pc = "top"
    /\ status = "running"
    /\ peer = [c \in Chans |-> "idle"]
    /\ sentData = [c \in Chans |-> 0]
    /\ emitted = [c \in Chans |-> <<>>]
    /\ delivered = [c \in Chans |-> <<>>]
    /\ handler = [c \in Chans |-> "idle"]
    /\ outputs = MaxOutputs

\* The connection has ended, or the driver is parked in select! with no
\* peer packet and no operation left to come.
Finished ==
    \/ ~Running
    \/ /\ pc = "select" /\ opsQ = <<>>
       /\ \A c \in Chans : PeerMoves(c) = {} \/ (c \in HostOpened /\ peer[c] = "idle")
       /\ \A c \in Chans : handler[c] = "idle"
Idle == Finished /\ UNCHANGED vars

Next ==
    \/ \E c \in Chans : OpenChannel(c)
    \/ DriverTop \/ ForwardUpdate \/ ForwardDone \/ DriverRead \/ DriverChannelOp
    \/ \E c \in Chans : HandlerRecv(c) \/ HandlerOutput(c) \/ HandlerSend(c)
    \/ Idle

\* The connection task runs whenever a select! arm is ready or an awaited
\* send can complete; tokio's mpsc wakes a blocked sender when room frees.
\* A handler keeps receiving and finishes a send it started; the peer and
\* the host's decisions to open or output get no fairness.
Fairness ==
    /\ WF_vars(DriverTop) /\ WF_vars(ForwardUpdate) /\ WF_vars(ForwardDone)
    /\ WF_vars(DriverChannelOp)
    /\ \A c \in Chans : WF_vars(HandlerRecv(c)) /\ WF_vars(HandlerSend(c))

Spec == Init /\ [][Next]_vars /\ Fairness

-----------------------------------------------------------------------------
(* Properties                                                              *)

TypeOK ==
    /\ table \in [Chans -> {"none", "pending", "ready"}]
    /\ updatesQ \in [Chans -> Seq(Forwarded)]
    /\ \A c \in Chans : Len(updatesQ[c]) <= UpdateCap
    /\ readyMsg \in [Chans -> {"none", "ok", "err"}]
    /\ opsQ \in Seq(Chans) /\ Len(opsQ) <= OpsCap
    /\ pc \in {"top", "forward", "select"}
    /\ handler \in [Chans -> {"idle", "sending"}]

\* The forwarded updates of a channel, among everything it emitted.
ForwardedOf(s) == SelectSeq(s, LAMBDA k : k \in Forwarded)
PendingOf(c) == SelectSeq(muxUpdates, LAMBDA u : u.ch = c /\ u.kind \in Forwarded)

\* Each channel's updates in flight: in the channel's queue, then those the
\* multiplexer holds.  Once progress has returned an error nothing more is
\* forwarded, and only the queue is still received from.
InFlight(c) ==
    updatesQ[c] \o (IF Running
                    THEN [i \in 1..Len(PendingOf(c)) |-> PendingOf(c)[i].kind]
                    ELSE <<>>)

Stream == INSTANCE ChannelUpdateStream
              WITH Kinds <- Forwarded, inflight <- [c \in Chans |-> InFlight(c)],
                   received <- delivered, live <- Running

\* The driver implements the per-channel update stream: the two stages
\* (the multiplexer's channel_updates, then the channel's bounded queue fed
\* by the awaited send) together lose, duplicate and reorder nothing, and
\* under the driver's and handlers' fairness every update is eventually
\* received, also across waits on a full queue and across Pending -> Ready.
StreamRefinement == Stream!Spec

\* The updates of a host-opened channel following its Open, among what the
\* multiplexer emitted for it.
AfterOpen(s) ==
    LET i == SelectInSeq(s, LAMBDA k : k = "Open")
    IN IF i = 0 THEN <<>> ELSE SubSeq(s, i + 1, Len(s))

\* A handler never holds more updates than the peer sent after confirming
\* its channel: the multiplexer passes an EOF on an unconfirmed channel
\* through (lib.rs:386), and the driver must end the connection on it
\* ("channel not ready yet") instead of queueing it for the host.
UpdatesOnlyAfterConfirmation ==
    \A c \in Chans :
        Len(delivered[c]) + Len(updatesQ[c]) <= Len(ForwardedOf(AfterOpen(emitted[c])))

\* The driver never waits on a channel's full update queue while that
\* channel's handler waits on the full operations queue that only the
\* driver drains.
NoMutualWait ==
    ~ \E c \in Chans :
        /\ pc = "forward" /\ muxUpdates # <<>> /\ Head(muxUpdates).ch = c
        /\ table[c] = "ready" /\ Len(updatesQ[c]) = UpdateCap
        /\ handler[c] = "sending" /\ Len(opsQ) = OpsCap

=============================================================================
