---------------------------- MODULE LegacyFramer ----------------------------
(***************************************************************************)
(* The packet framer of the ssh-transport crate (src/ssh-transport/src/    *)
(* packet.rs): PacketTransport::recv_bytes feeds every read to a           *)
(* PacketParser, which collects the 4-byte length and then that many      *)
(* bytes, across any number of reads; each whole packet is queued with the *)
(* receive sequence number it was decrypted under, and a fresh parser      *)
(* takes the rest of the read.  Also Packet::to_bytes and from_raw, the    *)
(* padding rule of both directions, as operators over lengths: the peer   *)
(* writes its packets with the same to_bytes, and what is framed is read  *)
(* back with from_raw.                                                     *)
(*                                                                         *)
(* The peer's bytes are fixed at Init: NumPackets packets, each written   *)
(* by to_bytes or of a packet_length from RawLens, each byte a record      *)
(* naming its packet and position and carrying its value, so that a       *)
(* mis-framed packet shows.                                                *)
(* The decryptor (keys.rs, not in this repository) is the initial          *)
(* Plaintext one: the length is decoded as sent and the raw packet is      *)
(* handed on as framed.                                                    *)
(***************************************************************************)
EXTENDS Naturals, FiniteSets, Sequences, SequencesExt

CONSTANTS
    NumPackets,   \* packets the peer sends
    Payloads,     \* payloads the peer's to_bytes writes: records, len their length
    RawLens,      \* packet_length values of packets written otherwise
    MaxRead       \* most bytes one read returns

ASSUME NumPackets \in Nat /\ RawLens \subseteq Nat /\ MaxRead \in Nat \ {0}
       /\ \A p \in Payloads : p.len \in Nat

\* The value of every byte that is not part of a length (any will do; the
\* one chosen keeps a mis-framed length within TLC's integers).
BodyValue == 42

Smaller(a, b) == IF a <= b THEN a ELSE b
Take(s, n) == SubSeq(s, 1, n)
Drop(s, n) == SubSeq(s, n + 1, Len(s))

(* Packet::to_bytes and Packet::from_raw, by lengths                       *)

\* Mutant: only the padding to a multiple of 8, without the 8 extra bytes.
ToBytesMinPadding(n) ==
    LET minFull == n + 4 + 1
        minPad  == (((minFull + 7) \div 8) * 8 - minFull) % 256
    IN [len |-> n + minPad + 1, pad |-> minPad]

\* to_bytes: pad to a multiple of 8 and add 8 ("at least four bytes");
\* the u8 casts are kept (% 256).  Returns packet_length and padding_length.
ToBytes(n) ==
    LET minFull == n + 4 + 1
        minPad  == (((minFull + 7) \div 8) * 8 - minFull) % 256
        pad     == (minPad + 8) % 256
    IN [len |-> n + pad + 1, pad |-> pad]

\* from_raw, given the length of what follows packet_length and the
\* padding_length byte: the payload length, or an error.
FromRaw(restLen, pad) ==
    CASE restLen = 0               -> [ok |-> FALSE]
      [] restLen - 1 < pad         -> [ok |-> FALSE]
      [] (restLen + 4) % 8 # 0     -> [ok |-> FALSE]
      [] OTHER -> [ok |-> TRUE, payload |-> restLen - 1 - pad]

\* What the peer may send: a packet its to_bytes wrote for a payload in
\* Payloads, or, from a peer not bound to follow the RFC, any packet_length
\* in RawLens (its payload is then NoPayload).
NoPayload == [len |-> 0, type |-> "NONE"]
Sent ==
    {[len |-> ToBytes(p.len).len, pad |-> ToBytes(p.len).pad, payload |-> p] :
        p \in Payloads}
    \cup {[len |-> L, pad |-> BodyValue, payload |-> NoPayload] : L \in RawLens}

\* The bytes of packet p: packet_length as u32 big endian, padding_length,
\* then the rest.
PacketBytes(p, e) ==
    [i \in 1..(4 + e.len) |->
        [pkt |-> p, pos |-> i,
         v |-> CASE i <= 4 -> (e.len \div (256 ^ (4 - i))) % 256
                 [] i = 5  -> e.pad
                 [] OTHER  -> BodyValue]]

VARIABLES
    peer,           \* the peer's packets, fixed at Init
    wire,           \* the peer's bytes, fixed at Init
    rd,             \* how many of them have been read
    nextPacket,     \* PacketParser: packet_length (NoLen for None), raw_data
    packets,        \* PacketTransport::packets
    nextRecvSeqNr,  \* PacketTransport::next_recv_seq_nr
    delivered,      \* packets taken by next_packet, in order
    status          \* "ok", or "panic" once an assert! has failed

vars == <<peer, wire, rd, nextPacket, packets, nextRecvSeqNr, delivered, status>>

NoLen == -1

\* PacketParser::new
NewParser == [packetLength |-> NoLen, rawData |-> <<>>]

\* u32::from_be_bytes of the length bytes (decrypt_len of Plaintext keeps
\* them as they are).
FromBeBytes(b) == ((b[1].v * 256 + b[2].v) * 256 + b[3].v) * 256 + b[4].v

\* Mutant: one byte too many is asked for the body.
RecvBytesInnerOverTake(ps, bs) ==
    LET hdr  == IF ps.packetLength = NoLen
                THEN Smaller(Len(bs), 4 - Len(ps.rawData)) ELSE 0
        raw1 == ps.rawData \o Take(bs, hdr)
        len  == IF ps.packetLength = NoLen THEN FromBeBytes(raw1)
                ELSE ps.packetLength
        rest == Drop(bs, hdr)
        body == Smaller(Len(rest), len - (Len(raw1) - 4) + 1)
        raw2 == raw1 \o Take(rest, body)
    IN CASE ps.packetLength # NoLen /\ Len(ps.rawData) < 4 -> [r |-> "panic"]
         [] Len(raw1) < 4 -> [r |-> "none", ps |-> [ps EXCEPT !.rawData = raw1]]
         [] Len(raw2) - 4 = len ->
               [r |-> "some", consumed |-> hdr + body, raw |-> raw2,
                ps |-> [packetLength |-> len, rawData |-> <<>>]]
         [] OTHER -> [r |-> "none", ps |-> [packetLength |-> len, rawData |-> raw2]]

\* PacketParser::recv_bytes_inner: complete the length from the read, then
\* take up to packet_length bytes; Some(consumed, raw) once all are there.
RecvBytesInner(ps, bs) ==
    LET hdr  == IF ps.packetLength = NoLen
                THEN Smaller(Len(bs), 4 - Len(ps.rawData)) ELSE 0
        raw1 == ps.rawData \o Take(bs, hdr)
        len  == IF ps.packetLength = NoLen THEN FromBeBytes(raw1)
                ELSE ps.packetLength
        rest == Drop(bs, hdr)
        body == Smaller(Len(rest), len - (Len(raw1) - 4))
        raw2 == raw1 \o Take(rest, body)
    IN CASE ps.packetLength # NoLen /\ Len(ps.rawData) < 4 -> [r |-> "panic"]
         [] Len(raw1) < 4 -> [r |-> "none", ps |-> [ps EXCEPT !.rawData = raw1]]
         [] Len(raw2) - 4 = len ->
               [r |-> "some", consumed |-> hdr + body, raw |-> raw2,
                ps |-> [packetLength |-> len, rawData |-> <<>>]]
         [] OTHER -> [r |-> "none", ps |-> [packetLength |-> len, rawData |-> raw2]]

\* PacketTransport::recv_bytes and recv_bytes_step over one read t (a
\* record of the parser, the queue, the sequence number and the status):
\* each whole packet is queued with the current sequence number, which is
\* then incremented, and a new parser takes the rest of the read.
RECURSIVE RecvBytes(_, _)
RecvBytes(t, bs) ==
    LET i == RecvBytesInner(t.nextPacket, bs)
    IN CASE i.r = "panic" -> [t EXCEPT !.status = "panic"]
         [] i.r = "none"  -> [t EXCEPT !.nextPacket = i.ps]
         [] OTHER ->
              LET t2 == [t EXCEPT !.packets = Append(@, [raw |-> i.raw,
                                                         seq |-> t.seqNr]),
                                  !.seqNr = @ + 1,
                                  !.nextPacket = NewParser]
              IN IF i.consumed = Len(bs) THEN t2
                 ELSE RecvBytes(t2, Drop(bs, i.consumed))

Init ==
    /\ peer \in [1..NumPackets -> Sent]
    /\ wire = FlattenSeq([p \in 1..NumPackets |-> PacketBytes(p, peer[p])])
    /\ rd = 0
    /\ nextPacket = NewParser
    /\ packets = <<>>
    /\ nextRecvSeqNr = 0
    /\ delivered = <<>>
    /\ status = "ok"

\* A read of 1..MaxRead bytes handed to recv_bytes.
Read ==
    /\ status = "ok"
    /\ \E k \in 1..Smaller(MaxRead, Len(wire) - rd) :
          LET t == RecvBytes([nextPacket |-> nextPacket, packets |-> packets,
                              seqNr |-> nextRecvSeqNr, status |-> status],
                             SubSeq(wire, rd + 1, rd + k))
          IN /\ rd' = rd + k
             /\ nextPacket' = t.nextPacket /\ packets' = t.packets
             /\ nextRecvSeqNr' = t.seqNr /\ status' = t.status
    /\ UNCHANGED <<peer, wire, delivered>>

\* PacketTransport::next_packet
NextPacket ==
    /\ packets # <<>>
    /\ delivered' = Append(delivered, Head(packets))
    /\ packets' = Tail(packets)
    /\ UNCHANGED <<peer, wire, rd, nextPacket, nextRecvSeqNr, status>>

\* Every byte has been read and every packet taken, or a panic.
Drained ==
    /\ (rd = Len(wire) /\ packets = <<>>) \/ status # "ok"
    /\ UNCHANGED vars

Next == Read \/ NextPacket \/ Drained

Spec == Init /\ [][Next]_vars

-----------------------------------------------------------------------------
(* Properties                                                              *)

\* The end of packet k in the peer's bytes.
RECURSIVE EndOf(_)
EndOf(k) == IF k = 0 THEN 0 ELSE EndOf(k - 1) + 4 + peer[k].len

\* The peer's packets whose last byte has been read.
Whole == {k \in 1..NumPackets : EndOf(k) <= rd}

\* However the peer's bytes are split into reads (a length split across
\* reads, several packets in one read, a packet of length 0), recv_bytes
\* and PacketParser frame exactly the packets read so far: those taken and
\* those queued are the peer's packets in order, byte for byte, each
\* decrypted under the sequence number of its position; the parser holds
\* exactly the bytes read of the next one; nothing panics.
FramesExactly ==
    LET n == Cardinality(Whole)
    IN /\ status = "ok"
       /\ delivered \o packets =
            [k \in 1..n |-> [raw |-> SubSeq(wire, EndOf(k - 1) + 1, EndOf(k)),
                             seq |-> k - 1]]
       /\ nextRecvSeqNr = n
       /\ nextPacket.rawData = SubSeq(wire, EndOf(n) + 1, rd)

\* RFC 4253 section 6: packet_length, padding_length, payload and padding
\* together are a multiple of 8, the padding is 4 to 255 bytes, and the
\* receiver takes packet_length - padding_length - 1 bytes of payload.
RfcFrame(n, pad) == (4 + 1 + n + pad) % 8 = 0 /\ pad \in 4..255

\* Every packet the peer's to_bytes wrote, once framed and taken, is
\* framed as the RFC requires, and from_raw (given what follows
\* packet_length) reads back the payload length it was written with.
PacketEncodingFollowsRfc ==
    \A i \in DOMAIN delivered :
        LET raw == delivered[i].raw
            e   == peer[raw[1].pkt]
        IN e.payload # NoPayload =>
              /\ RfcFrame(e.payload.len, raw[5].v)
              /\ FromRaw(Len(raw) - 4, raw[5].v) = [ok |-> TRUE, payload |-> e.payload.len]

=============================================================================
