--------------------------- MODULE LegacyConnection ---------------------------
(***************************************************************************)
(* The channel layer of the legacy ssh-connection crate                    *)
(* (src/ssh-connection/src/lib.rs): ServerChannelsState takes the peer's   *)
(* packets one at a time (recv_packet), queues packets for the peer and    *)
(* updates for the host, and carries out the host's operations            *)
(* (do_operation).  There are no windows (the code's "TODO: window").      *)
(*                                                                         *)
(* Messages are records naming their type and the fields the code acts    *)
(* on; names, data and terminal modes are left out.  The payload parser's  *)
(* errors on a short payload are not modelled: every message is well      *)
(* formed.  recv_packet returning Err ends the connection ("error"); a     *)
(* todo!() or a failed expect panics it ("panic").                         *)
(*                                                                         *)
(* The host is the environment: it takes updates in order and operates on *)
(* the channels it has seen opened and not yet seen closed, closing each   *)
(* at most once.  It learns of a peer's close only from the Closed update. *)
(***************************************************************************)
EXTENDS Naturals, Sequences, SequencesExt, FiniteSets

CONSTANTS
    ChannelIdMax,   \* u32::MAX of next_channel_id, scaled
    PeerMsgs,       \* what the peer may send, when this module runs alone
    MaxHostOps      \* most operations the host makes

ASSUME ChannelIdMax \in Nat /\ MaxHostOps \in Nat

VARIABLES
    packetsToSend,  \* ServerChannelsState::packets_to_send
    sent,           \* packets the caller has drained from it, in order
    channelUpdates, \* ServerChannelsState::channel_updates
    taken,          \* updates the host has taken, in order
    channels,       \* ServerChannelsState::channels: our number -> Channel
    nextChannelId,  \* ServerChannelsState::next_channel_id
    connStatus,     \* "ok", "error" once recv_packet failed, or "panic"
    hostClosed,     \* channels the host has closed
    hostOps         \* operations the host has made

connVars == <<packetsToSend, sent, channelUpdates, taken, channels,
              nextChannelId, connStatus, hostClosed, hostOps>>

\* A packet for the peer.  our names the channel it is about (a ghost:
\* the wire carries only the recipient, the peer's number).
Out(type, recipient, our) == [type |-> type, recipient |-> recipient, our |-> our]

Update(number, kind) == [number |-> number, kind |-> kind]

\* Request types with an arm that produces an update.
RequestKinds == {"pty-req", "shell", "exec"}

\* ServerChannelsState::new
ConnInit ==
    /\ packetsToSend = <<>> /\ sent = <<>>
    /\ channelUpdates = <<>> /\ taken = <<>>
    /\ channels = <<>> /\ nextChannelId = 0
    /\ connStatus = "ok" /\ hostClosed = {} /\ hostOps = 0

\* recv_packet or do_operation ends the connection (the host's count is
\* left to the caller).
Fail(why) ==
    /\ connStatus' = why
    /\ UNCHANGED <<packetsToSend, sent, channelUpdates, taken, channels,
                   nextChannelId, hostClosed>>

-----------------------------------------------------------------------------
(* recv_packet, one action per arm of its match                            *)

RecvGlobalRequest(m) ==
    /\ m.type = "GLOBAL_REQUEST"
    /\ packetsToSend' = Append(packetsToSend, Out("REQUEST_FAILURE", "none", "none"))
    /\ UNCHANGED <<sent, channelUpdates, taken, channels, nextChannelId,
                   connStatus, hostClosed>>

RecvChannelOpenUnknownType(m) ==
    /\ m.type = "CHANNEL_OPEN" /\ m.chType # "session"
    /\ packetsToSend' = Append(packetsToSend, Out("OPEN_FAILURE", m.sender, "none"))
    /\ UNCHANGED <<sent, channelUpdates, taken, channels, nextChannelId,
                   connStatus, hostClosed>>

\* next_channel_id.checked_add(1) fails before anything is queued.
RecvChannelOpenOverflow(m) ==
    /\ m.type = "CHANNEL_OPEN" /\ m.chType = "session"
    /\ nextChannelId = ChannelIdMax
    /\ Fail("error")

RecvChannelOpen(m) ==
    /\ m.type = "CHANNEL_OPEN" /\ m.chType = "session"
    /\ nextChannelId < ChannelIdMax
    /\ nextChannelId' = nextChannelId + 1
    /\ packetsToSend' = Append(packetsToSend,
                               Out("OPEN_CONFIRMATION", m.sender, nextChannelId))
    /\ channels' = (nextChannelId :> [weClosed |-> FALSE, peerChannel |-> m.sender])
                   @@ channels
    /\ channelUpdates' = Append(channelUpdates, Update(nextChannelId, "Open"))
    /\ UNCHANGED <<sent, taken, connStatus, hostClosed>>

\* validate_channel: DATA, CLOSE and REQUEST name a channel we do not have.
RecvUnknownChannel(m) ==
    /\ m.type \in {"CHANNEL_DATA", "CHANNEL_CLOSE", "CHANNEL_REQUEST"}
    /\ m.ch \notin DOMAIN channels
    /\ Fail("error")

RecvChannelData(m) ==
    /\ m.type = "CHANNEL_DATA" /\ m.ch \in DOMAIN channels
    /\ channelUpdates' = Append(channelUpdates, Update(m.ch, "Data"))
    /\ UNCHANGED <<packetsToSend, sent, taken, channels, nextChannelId,
                   connStatus, hostClosed>>

\* Mutant: the peer's CLOSE is answered even when we closed first.
RecvChannelCloseAlwaysReply(m) ==
    /\ m.type = "CHANNEL_CLOSE" /\ m.ch \in DOMAIN channels
    /\ packetsToSend' = Append(packetsToSend,
                               Out("CHANNEL_CLOSE", channels[m.ch].peerChannel, m.ch))
    /\ channels' = [k \in DOMAIN channels \ {m.ch} |-> channels[k]]
    /\ channelUpdates' = Append(channelUpdates, Update(m.ch, "Closed"))
    /\ UNCHANGED <<sent, taken, nextChannelId, connStatus, hostClosed>>

\* Mutant: the channel stays in the table after the peer's CLOSE.
RecvChannelCloseKeep(m) ==
    /\ m.type = "CHANNEL_CLOSE" /\ m.ch \in DOMAIN channels
    /\ packetsToSend' =
          IF channels[m.ch].weClosed THEN packetsToSend
          ELSE Append(packetsToSend,
                      Out("CHANNEL_CLOSE", channels[m.ch].peerChannel, m.ch))
    /\ channelUpdates' = Append(channelUpdates, Update(m.ch, "Closed"))
    /\ UNCHANGED <<sent, taken, channels, nextChannelId, connStatus, hostClosed>>

\* RFC 4254 5.3: answer with our CLOSE unless we sent one; the channel is
\* removed and the host told.
RecvChannelClose(m) ==
    /\ m.type = "CHANNEL_CLOSE" /\ m.ch \in DOMAIN channels
    /\ packetsToSend' =
          IF channels[m.ch].weClosed THEN packetsToSend
          ELSE Append(packetsToSend,
                      Out("CHANNEL_CLOSE", channels[m.ch].peerChannel, m.ch))
    /\ channels' = [k \in DOMAIN channels \ {m.ch} |-> channels[k]]
    /\ channelUpdates' = Append(channelUpdates, Update(m.ch, "Closed"))
    /\ UNCHANGED <<sent, taken, nextChannelId, connStatus, hostClosed>>

\* pty-req, shell and exec go to the host; signal is ignored; any other
\* request is refused with CHANNEL_FAILURE, want_reply or not.
RecvChannelRequest(m) ==
    /\ m.type = "CHANNEL_REQUEST" /\ m.ch \in DOMAIN channels
    /\ CASE m.req \in RequestKinds ->
              /\ channelUpdates' = Append(channelUpdates, Update(m.ch, "Request"))
              /\ UNCHANGED packetsToSend
         [] m.req = "signal" -> UNCHANGED <<packetsToSend, channelUpdates>>
         [] OTHER ->
              /\ packetsToSend' = Append(packetsToSend,
                     Out("CHANNEL_FAILURE", channels[m.ch].peerChannel, m.ch))
              /\ UNCHANGED channelUpdates
    /\ UNCHANGED <<sent, taken, channels, nextChannelId, connStatus, hostClosed>>

\* The catch-all arm: todo!().
RecvUnhandled(m) ==
    /\ m.type \notin {"GLOBAL_REQUEST", "CHANNEL_OPEN", "CHANNEL_DATA",
                      "CHANNEL_CLOSE", "CHANNEL_REQUEST"}
    /\ Fail("panic")

\* recv_packet leaves the host's count alone.
RecvPacket(m) ==
    /\ connStatus = "ok"
    /\ UNCHANGED hostOps
    /\ \/ RecvGlobalRequest(m)
       \/ RecvChannelOpenUnknownType(m) \/ RecvChannelOpenOverflow(m)
       \/ RecvChannelOpen(m)
       \/ RecvUnknownChannel(m)
       \/ RecvChannelData(m) \/ RecvChannelClose(m) \/ RecvChannelRequest(m)
       \/ RecvUnhandled(m)

-----------------------------------------------------------------------------
(* The host side                                                           *)

\* packets_to_send: the caller drains the queue.
PacketsToSend ==
    /\ connStatus = "ok" /\ packetsToSend # <<>>
    /\ sent' = sent \o packetsToSend
    /\ packetsToSend' = <<>>
    /\ UNCHANGED <<channelUpdates, taken, channels, nextChannelId, connStatus,
                   hostClosed, hostOps>>

\* next_channel_update
NextChannelUpdate ==
    /\ connStatus = "ok" /\ channelUpdates # <<>>
    /\ taken' = Append(taken, Head(channelUpdates))
    /\ channelUpdates' = Tail(channelUpdates)
    /\ UNCHANGED <<packetsToSend, sent, channels, nextChannelId, connStatus,
                   hostClosed, hostOps>>

\* The channels the host may operate on: seen opened, not seen closed, not
\* closed by the host.
HostChannels ==
    {u.number : u \in {taken[i] : i \in {j \in DOMAIN taken : taken[j].kind = "Open"}}}
    \ ({taken[i].number : i \in {j \in DOMAIN taken : taken[j].kind = "Closed"}}
       \cup hostClosed)

OpPacket == [Success |-> "CHANNEL_SUCCESS", Failure |-> "CHANNEL_FAILURE",
             Data |-> "CHANNEL_DATA", Close |-> "CHANNEL_CLOSE"]

\* do_operation: the channel's entry must still exist (expect).
DoOperation(n, kind) ==
    /\ connStatus = "ok"
    /\ hostOps' = hostOps + 1
    /\ IF n \notin DOMAIN channels
       THEN Fail("panic")
       ELSE /\ packetsToSend' = Append(packetsToSend,
                  Out(OpPacket[kind], channels[n].peerChannel, n))
            /\ channels' = IF kind = "Close"
                           THEN [channels EXCEPT ![n].weClosed = TRUE]
                           ELSE channels
            /\ hostClosed' = IF kind = "Close" THEN hostClosed \cup {n}
                             ELSE hostClosed
            /\ UNCHANGED <<sent, channelUpdates, taken, nextChannelId, connStatus>>

HostOperates ==
    /\ hostOps < MaxHostOps
    /\ \E n \in HostChannels, kind \in DOMAIN OpPacket : DoOperation(n, kind)

ConnNext ==
    \/ \E m \in PeerMsgs : RecvPacket(m)
    \/ PacketsToSend \/ NextChannelUpdate \/ HostOperates

ConnSpec == ConnInit /\ [][ConnNext]_connVars

-----------------------------------------------------------------------------
(* Properties                                                              *)

Emitted == taken \o channelUpdates
Written == sent \o packetsToSend

ClosesFor(k) == {i \in DOMAIN Written : Written[i].type = "CHANNEL_CLOSE"
                                         /\ Written[i].our = k}
KindsFor(k) == [i \in 1..Len(SelectSeq(Emitted, LAMBDA u : u.number = k)) |->
                   SelectSeq(Emitted, LAMBDA u : u.number = k)[i].kind]

\* Closing is a handshake of exactly one CHANNEL_CLOSE each way: we never
\* send two for a channel, whichever side closes first and however the
\* host's Close and the peer's CLOSE interleave (the we_closed flag of
\* do_operation and recv_packet), and a channel the peer closed, which
\* recv_packet removes, has had our CLOSE.
CloseOncePerChannel ==
    \A k \in 0..ChannelIdMax :
        /\ Cardinality(ClosesFor(k)) <= 1
        /\ k < nextChannelId /\ k \notin DOMAIN channels => Cardinality(ClosesFor(k)) = 1

\* The updates of each channel, those taken and those queued, are its
\* Open, then data and requests, then at most one Closed, after which
\* nothing: a channel number is never reused and nothing arrives for a
\* channel after the peer closed it.
UpdatesFollowLifecycle ==
    \A k \in 0..ChannelIdMax :
        LET ks == KindsFor(k)
        IN ks # <<>> =>
             /\ ks[1] = "Open"
             /\ \A i \in 2..Len(ks) : ks[i] # "Open"
             /\ \A i \in 1..Len(ks) : ks[i] = "Closed" => i = Len(ks)

================================================================================
