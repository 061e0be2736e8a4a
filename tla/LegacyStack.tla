------------------------------ MODULE LegacyStack ------------------------------
(***************************************************************************)
(* The legacy crates together: the packets the ssh-transport framer        *)
(* (LegacyFramer) takes out of the peer's bytes are read with              *)
(* Packet::from_raw and handed, one next_packet at a time, to the          *)
(* ssh-connection ServerChannelsState (LegacyConnection), whose types take *)
(* ssh_transport::packet::Packet.  The caller that joins them is not in    *)
(* the repository; it is taken to be the loop the two APIs imply: read,    *)
(* recv_bytes, then next_packet and recv_packet for each packet, drain     *)
(* packets_to_send, and hand updates to the host, stopping at the first    *)
(* error.                                                                  *)
(*                                                                         *)
(* The peer writes connection messages with to_bytes; a payload decodes to *)
(* the message whose bytes it holds (FramesExactly checks that those are   *)
(* one whole packet of the peer).                                          *)
(***************************************************************************)
EXTENDS Naturals, Sequences

CONSTANTS NumPackets, PeerMsgs, RawLens, MaxRead, ChannelIdMax, MaxHostOps

VARIABLES
    peer, wire, rd, nextPacket, packets, nextRecvSeqNr, delivered, status,
    packetsToSend, sent, channelUpdates, taken, channels, nextChannelId,
    connStatus, hostClosed, hostOps

framerVars == <<peer, wire, rd, nextPacket, packets, nextRecvSeqNr, delivered,
                status>>
connVars == <<packetsToSend, sent, channelUpdates, taken, channels,
              nextChannelId, connStatus, hostClosed, hostOps>>

Framer == INSTANCE LegacyFramer WITH Payloads <- PeerMsgs
Conn == INSTANCE LegacyConnection

Init == Framer!Init /\ Conn!ConnInit

\* Packet::from_raw of what follows packet_length.
Decode(raw) ==
    LET pad == IF Len(raw) >= 5 THEN raw[5].v ELSE 0
        r   == Framer!FromRaw(Len(raw) - 4, pad)
    IN IF r.ok THEN [ok |-> TRUE, msg |-> peer[raw[1].pkt].payload]
       ELSE [ok |-> FALSE]

\* A read handed to recv_bytes, once the packets of the last one are
\* handled, while the connection stands.
Read == connStatus = "ok" /\ packets = <<>> /\ Framer!Read /\ UNCHANGED connVars

\* next_packet, from_raw and recv_packet: a packet that does not decode
\* ends the connection.
Deliver ==
    /\ connStatus = "ok"
    /\ Framer!NextPacket
    /\ LET d == Decode(Head(packets).raw)
       IN IF d.ok THEN Conn!RecvPacket(d.msg)
          ELSE Conn!Fail("error") /\ UNCHANGED hostOps

HostSide ==
    /\ \/ Conn!PacketsToSend \/ Conn!NextChannelUpdate \/ Conn!HostOperates
    /\ UNCHANGED framerVars

\* The connection has ended, or the peer's bytes are all read and handled.
Done ==
    /\ connStatus # "ok" \/ (rd = Len(wire) /\ packets = <<>>)
    /\ UNCHANGED <<framerVars, connVars>>

Next == Read \/ Deliver \/ HostSide \/ Done

Spec == Init /\ [][Next]_<<framerVars, connVars>>

-----------------------------------------------------------------------------
(* Properties of the components, checked in the composition               *)

\* However the peer's bytes are split into reads, the framer frames
\* exactly the peer's packets, in order, with their sequence numbers.
FramesExactly == Framer!FramesExactly

\* Every packet the peer's to_bytes wrote is RFC 4253 6 framed and
\* from_raw reads back its payload length.
PacketEncodingFollowsRfc == Framer!PacketEncodingFollowsRfc

\* We send at most one CHANNEL_CLOSE per channel, and exactly one for a
\* channel the peer closed, however the host's Close and the peer's CLOSE
\* interleave (recv_packet's we_closed check).
CloseOncePerChannel == Conn!CloseOncePerChannel

\* Each channel's updates are Open, then data and requests, then at most
\* one Closed, after which nothing (recv_packet's removal of the channel).
UpdatesFollowLifecycle == Conn!UpdatesFollowLifecycle

================================================================================
