# TLA+ models of the cluelessh SSH server

This directory holds TLA+ models of the SSH server in `src/`, the TLC
configurations that check them, and `PROJECT.json`. `PROJECT.json` lists every
component, run, mutant, source mapping, finding and hazard. Each module is
translated from the Rust source. Every definition that models code names its
source lines in `PROJECT.json` under "map".

## 1. The system

| Part | Source | State it keeps | Operations |
|---|---|---|---|
| Channel multiplexer | `src/lib/cluelessh-connection/src/lib.rs` (`ChannelsState`) | channel table (AwaitingConfirmation / Open records with both windows, both max packet sizes, refill step, `we_closed`, per-stream send queues), `next_channel_id`, `packets_to_send`, `channel_updates` | `recv_packet` (one arm per message type), `create_channel`, `do_operation` (Success, Failure, Data, ExtendedData, Request, Eof, Close), `packets_to_send`, `next_channel_update` |
| Transport state machine | `src/lib/cluelessh-transport/src/server.rs` (`ServerConnection`) | `ServerState` (ProtoExchange → KeyExchangeInit → DhKeyInit → WaitingForKeyExchange → NewKeys → ServiceRequest → Open), packet transport, plaintext packet queue | `recv_bytes`, `is_waiting_on_key_exchange`, `do_key_exchange`, `next_msg_to_send`, `send_plaintext_packet` |
| Negotiation and key schedule | `src/lib/cluelessh-transport/src/crypto.rs` | none (pure) | `AlgorithmNegotiation::find`, `SupportedAlgorithms::secure`, `Session::from_keys`, `derive_key`, `key_exchange_hash` |
| Session driver | `src/lib/cluelessh-tokio/src/server.rs` | driver channel table (Pending / Ready), `signature_in_progress`, operation queue (15), channel-op queue (15), per-channel update queues (10) | `progress` (spawn key exchange and auth callbacks, forward channel updates, `select!` over socket, channel ops, callback results), `send_off_data`, `open_channel` |
| Legacy packet framer | `src/ssh-transport/src/packet.rs` | decryptor, in-flight `PacketParser` (length, raw bytes), packet queue, receive sequence number | superseded: no live crate uses it; its framing modelled in LegacyFramer |
| Legacy multiplexer | `src/ssh-connection/src/lib.rs` (`ServerChannelsState`) | as the multiplexer, without windows | superseded: no live crate uses it; modelled in LegacyConnection, fed by the legacy framer in LegacyStack |

The parts interact as follows. The driver reads socket bytes into the transport. Once the transport is Open, its packets go to the authentication layer and then to the multiplexer. That layer, `cluelessh-protocol`, is not in this repository. The driver runs the host-key signature as a spawned task and feeds the result back through `do_key_exchange`. It moves channel updates to per-channel queues, and host operations into `do_operation`. Inside one connection everything is single-threaded: each call into a state machine runs to completion. Concurrency comes from the order in which the driver's `select!` picks socket reads, host operations and callback results.

What is hard to test, and listed with its line in "hazards":
- a peer and a host acting on one channel in any interleaving, with crossing closes;
- flow control on both sides at exact window and packet-size boundaries;
- u32 overflow of the refill rule;
- the order of bytes across window grants and across streams;
- a packet following NEWKEYS in the same read;
- bounded driver queues that can block each other.

## 2. Modules

### ChannelMux (`ChannelMux.tla`, `MC_ChannelMux.tla`)

ChannelMux models the channel multiplexer of cluelessh-connection.

**Actors.** There are two actors.
- The peer: each `Recv*` action is one arm of `recv_packet`.
- The host: `CreateChannel` and one action per `do_operation` kind.

Each call is a single atomic action, because the connection task runs every call to completion.

**State.**
- `channels` is the `channels` HashMap, with record fields named after the Rust fields.
- `nextChannelId` is `next_channel_id`.
- `wire` is the log of everything pushed onto `packets_to_send`. The driver drains that queue in FIFO order, so the log is what reaches the socket.
- `updates` is the log of `channel_updates`.
- `status` records whether a call returned an error (the connection ends) or panicked.

**Abstractions.**
- Data is abstracted to byte identities: the k-th byte the host submits on a stream is the number k. This makes reordering, loss and duplication visible.
- `send_data` is the operator `SendData`, which uses `Chunks` and the loop `SendChunks`.
- The WINDOW_ADJUST drain is `DrainDefault` plus `DrainExt`. `DrainExt` iterates the extended queues in every order, because the source iterates a HashMap.
- u32 arithmetic is scaled: `UINT_MAX` stands for 2^32-1, and `RefillThreshold` for the hard-coded 1000.
- The refill's unchecked `+=` is a nondeterministic choice between a wrap (release build) and a panic (debug build).

**Ghost variables** used by the properties:
- `submitted` and `granted` are histories.
- `hostEof` restricts the host to never send Data after its own Eof, as a correct host would.
- `pendingReplies` holds, per channel, the session requests that wanted a reply and that the host has still to answer. The host answers them in order.
- `wantedReplies` is a history: the channel of every request the peer sent with want_reply. A request's id is its position in this log, and every CHANNEL_SUCCESS/FAILURE we send carries the id of the request it answers (`re`, 0 for none).

**Bounds.** `steps` counts peer packets plus host calls up to `MaxSteps`. `Done` is the stutter step that is taken once the connection has ended or the bound is reached, so TLC's deadlock check stays on for every other state.

### TransportServer (`TransportServer.tla`, `MC_TransportServer.tla`)

TransportServer models cluelessh-transport's `ServerConnection`, together with the key-exchange part of the tokio driver's `progress`.

**State.**
- `srv` holds the server: `state` (the `ServerState` arm), whether EXT_INFO may still come, the outbound queue `out`, the count of plaintext packets handed up once Open, `status`, `lost` (bytes dropped with the ident parser), and `seen`. `seen` is a history: the client messages handed to a state arm, in order.
- `pc` is the driver's position: the top of `progress`, or blocked in `select!`.
- `signatureInProgress` is `signature_in_progress`; `tasks` counts spawned signature tasks; `ops` is the operations queue carrying their results.
- `c2s` and `s2c` are the byte streams, each with a read position.

**Actions.**
- `DriverTop` spawns the signature task when `is_waiting_on_key_exchange` says so and none is running, then `send_off_data`.
- `DriverRead` reads 1..`MaxSegment` items and runs `recv_bytes` over them: `ProtoExchange` and then `HandlePackets`, one `ServerState` arm per packet.
- `DriverEof` is the read of 0 bytes.
- `DriverKexResult` is the operations arm: `do_key_exchange`, or the error.
- `KexTaskDone` is the spawned task finishing.

**Client.** The client is the environment, an RFC 4253 client.
- Init chooses its variant: whether it pipelines its KEXINIT behind the identification line, which KEXINIT it sends, whether it sends EXT_INFO, and which service it requests.
- It may also send IGNORE, an early auth request, a rogue message or close.

**Abstractions.**
- Bytes are items: the identification line is two items (`IDENT_HEAD`, `IDENT_TAIL`) and each packet is one item.
- Cryptography is left to KexCrypto.

**Refinement.** `SshHandshake.tla` is the abstract handshake, written from spec 4.E. Its state:
- `phase`: where the handshake stands;
- `sent`: the server's messages;
- `heard`: the client messages handled;
- `extOk`: whether a client EXT_INFO would still be accepted;
- `live`: whether the connection has not ended.

In each phase the expected client message is answered with the next server message. DISCONNECT ends the connection. IGNORE and DEBUG are skipped. Anything else is fatal, except once Open, where every other message goes to the layers above. One read can carry several packets, so a `HandleBatch` step handles up to `MaxBatch` messages, through the recursive `Run`. `Sign` sends ECDH_REPLY, and `End` ends the connection without a message.

`TransportServer` maps onto it as follows:
- `phase` is `PhaseOf[srv.state]`;
- `sent` is the bytes written plus the bytes still queued (`s2c \o srv.out`);
- `heard` is `srv.seen`;
- `extOk` is `may_send_extensions`;
- `live` is whether `progress` still runs.

The driver's flush is a stutter of the abstract spec. `HandshakeRefinement` (that is, `Handshake!Spec`) is checked as a temporal property.

### KexCrypto (`KexCrypto.tla`, `MC_KexCrypto.tla`)

KexCrypto models the pure functions of `crypto.rs` as operators: `Find` (`AlgorithmNegotiation::find`, with the recursive `FirstCommon`), `DeriveKey`, `EncodeMpintForHash`, and `NewSession`, `Rekey` and `FromKeys`.
- Each is compared with a reference definition written from RFC 4253 §7.1–7.2 (`RfcChoice`, `RfcKey`, `RfcTunnel`) for every input in a small domain.
- The variable `input` ranges over that domain in Init and never changes.
- SHA-256 is an injective uninterpreted function.
- Byte counts are scaled: a digest is 2 items. The chacha key is 4 (two digests) and its IV is 0; the GCM key is 2 and its IV is 1 (less than a digest). This keeps the round-up-and-truncate cases of `derive_key`.
- `KeyExchangeHash` is `key_exchange_hash`, and `DoKeyExchange` is the free function `do_key_exchange` of `server.rs`. Both are compared with `RfcExchangeHash`, the H of RFC 4253 §8 and RFC 5656 §4. Its mpint reference (`RfcMpint`) follows RFC 4251 §5. The identification lines given end in CR LF: the server's own line does, and the code's comment expects the client's to.
- `fixup_mpint` is in cluelessh-format, which is not in this repository. Its model follows spec §4.A (marked spec_modelled).

### SessionDriver (`SessionDriver.tla`, `MC_SessionDriver.tla`)

SessionDriver models the channel part of the tokio driver.

**Driver actions.**
- `OpenChannel` is `open_channel`, callable only between `progress` calls.
- `DriverTop` and then `ForwardUpdate` are one step per update of the `while let` loop. Within it:
  - `ForwardOpen` and `ForwardOpenFailed` resolve a Pending entry, or are the "open twice" / "unknown channel" errors.
  - `ForwardOther` is the error on a Pending channel, or the awaited `updates_send.send`. That send is enabled only while the channel's queue has room.
- `ForwardDone` is `send_off_data`.
- `DriverRead` and `DriverChannelOp` are the socket and `channel_ops` arms of `select!`.

**Peer and multiplexer.** Each peer packet makes the multiplexer emit one update (`PeerMoves`), for a peer that follows RFC 4254. ChannelMux checks the emission itself.

**Early EOF.** With `PeerEarlyEof`, the peer may send CHANNEL_EOF on a channel we opened before it confirms. The multiplexer passes it on (`lib.rs:386` checks only that the number is known).

**Refinement.** `ChannelUpdateStream.tla` is the abstract promise of spec 5: each channel is a FIFO from the multiplexer to its handler, with fairness on delivery, until the connection ends. When the connection ends, updates not yet in the channel's own queue may be lost.

The refinement mapping:
- a channel's `inflight` is its bounded queue followed, while the driver runs, by the updates of that channel still pending in the multiplexer;
- `received` is the handler's log;
- `live` is whether the driver runs.

`ForwardUpdate` moves an update from the pending part to the queue, which is an abstract stutter. `StreamRefinement` (`Stream!Spec`) covers order, loss, duplication and eventual delivery. It replaces the earlier `UpdatesInOrder` and `EventuallyDelivered`.

**Handlers.** Each channel's handler is the environment, host code holding the `Channel`. It receives updates, and sends operations with an awaited send on the shared 15-slot queue.

**Scaling.** Queue capacities are scaled from 10 and 15 to 1 and 1. The mutual wait needs only a full queue on each side, whatever the capacities.

### LegacyFramer (`LegacyFramer.tla`)

LegacyFramer models the framing algorithm of `ssh-transport/src/packet.rs`. The live server does not use it, but the repository keeps it.

**State.**
- `peer` and `wire` hold the peer's packets and their bytes. Both are fixed at Init. Each byte is a record of its packet, its position and its value.
- `rd` counts the bytes read so far.
- `nextPacket` is the `PacketParser`: `packetLength`, which is `NoLen` for `None`, and `rawData`.
- `packets` and `nextRecvSeqNr` are the transport's queue and its sequence number. Each queued packet carries the sequence number it was decrypted under.
- `delivered` records what `next_packet` has returned.

**Actions.**
- `Read` hands 1..`MaxRead` bytes to `recv_bytes`. The recursive `RecvBytes` is the `while let` loop over `recv_bytes_step`. `RecvBytesInner` is `recv_bytes_inner`: it completes the big-endian length (`FromBeBytes`), then takes the body.
- `NextPacket` is `next_packet`.

**Encoding.** `ToBytes` and `FromRaw` are `to_bytes` and `from_raw`, taken over lengths.
- The peer writes each packet either with the same `to_bytes`, for a payload in `Payloads` (a record whose `len` is its length), or with any `packet_length` in `RawLens`. A peer is not bound to follow the RFC.
- The padding_length byte is the fifth byte of the packet.

**Abstraction.** The decryptor is the initial `Plaintext` one, which passes the framed bytes on. `keys.rs` and `set_key`'s decryptors are not in this repository.

### LegacyConnection (`LegacyConnection.tla`)

LegacyConnection models `ServerChannelsState` of the legacy `ssh-connection` crate.

**State.** The state is the code's:
- `packetsToSend`, `channelUpdates` and `nextChannelId`;
- `channels`, a function from our number to `[weClosed, peerChannel]`.

Four more variables are not fields of the struct:
- `sent` holds the packets the caller has drained;
- `taken` holds the updates the host has taken;
- `connStatus` says whether `recv_packet` has returned Err or the code has panicked;
- `hostClosed` and `hostOps` record what the host has done.

**Actions.** `RecvPacket(m)` has one action per arm of `recv_packet`:
- global request;
- open of an unknown type;
- open with the counter at its maximum, where `checked_add` fails;
- open;
- a message naming an unknown channel (`validate_channel`);
- data;
- close;
- request;
- the `todo!()` arm.

`PacketsToSend`, `NextChannelUpdate` and `DoOperation` are the host calls. `DoOperation` panics, through its `expect`, when the channel is gone. Every outbound packet carries a ghost `our`: the channel it is about.

**Host.** The host is the environment. It operates on the channels it has taken an Open update for and no Closed update, and it closes each channel at most once. It learns of the peer's close only from the Closed update. So an operation made after the peer's CLOSE and before the host takes the update reaches the panic.

**Abstraction.** Messages are well formed: the payload parser's errors and the field contents are left out.

### LegacyStack (`LegacyStack.tla`, `MC_LegacyStack.tla`)

LegacyStack composes the legacy crates, with `Framer == INSTANCE LegacyFramer` and `Conn == INSTANCE LegacyConnection`. `ssh-connection` takes `ssh_transport::packet::Packet`s, but the caller that joins the two crates is not in the repository. It is modelled as the loop their APIs imply:
- `Read` hands a read to `recv_bytes` once the previous read's packets are handled.
- `Deliver` is `next_packet`, then `from_raw` (`Decode`), then `recv_packet`. A packet that does not decode ends the connection.
- `HostSide` is the host's calls.

The peer writes RFC 4254 messages with `to_bytes`. A payload decodes to the message whose bytes it holds. `FramesExactly` checks that those bytes are exactly one packet of the peer.

## 3. Runs

| Run | Expect | States, time | What it shows |
|---|---|---|---|
| mux_flow | pass | 3.9M, 1 min 40 s | Both data paths of one channel. Peer windows are 1 or 7 (UINT_MAX is 7), max packets 2 or 7, grants 1 or 2. The host writes 1 or 3 bytes on three streams (the default and two extended codes, whose queues the WINDOW_ADJUST drain takes in either HashMap order), and the peer sends 1 or 6 bytes, which drives the refill rule, including the overflowing refill in both build outcomes. The bytes on the wire plus the bytes queued are exactly the bytes submitted, in order (`OutboundStreamOrder`). We never exceed the peer's window or max packet (`OutboundFlowControl`). The bytes we accept never exceed the window we advertised (`InboundWithinAdvertised`). At most one CLOSE is sent per channel (`AtMostOneClose`), and a Closed channel never reappears (`ClosedIsTerminal`). |
| mux_lifecycle | pass | 2.9M, 1 min | Two channel numbers, opened by host or peer, failed or confirmed, closed from either side, with requests, replies, data and counter exhaustion. All the multiplexer properties hold together. |
| mux_eof_overtakes | violation | 4.7K | Finding: data queued for the window leaves after our CHANNEL_EOF/CLOSE (`lib.rs:667`). |
| mux_adjust_overflow | violation | 65 | Finding: the refill advertises more than 2^32-1 (`lib.rs:375`). |
| mux_zero_max_packet | violation | 71 | Finding: a peer that opens a channel with max packet 0 makes the host's next Data call panic in `chunks(0)` (`lib.rs:691`). The channel counter limit is set above the step bound, so the `create_channel` panic cannot be the violation found. |
| mux_unwanted_reply | violation | 61 | Finding: an unknown CHANNEL_REQUEST with want_reply false is answered with CHANNEL_FAILURE. The peer pairs that reply with its next request that wants one (`RepliesAnswerWantReply`, `lib.rs:519`). |
| ts_safety | pass | 99K, 3 s | Every client variant (including a request for another service), signature success or failure, a rogue message and a close. A client that does not pipeline its KEXINIT behind the identification line always reaches Open unless the connection ends (`HandshakeSettles`). The transport implements the handshake of spec 4.E (`HandshakeRefinement`): it never repeats, skips or reorders a message, answers only the expected message, and never opens on another service or a second EXT_INFO. `do_key_exchange` never hits its `unreachable!` (`NoPanic`). At most one signature task runs (`TypeOK`). |
| ts_pipelined_ident | violation | 249 | Finding: a KEXINIT read together with the identification line is dropped, and both sides then wait forever (`server.rs:129`). |
| kex_crypto | pass | 2.1K, 1 s | `find` picks the RFC 4253 §7.1 algorithm on both sides. `derive_key` yields the §7.2 key of every length 0..5. The server's and a client's sessions agree on every direction's keys, before and after a rekey. The hash `do_key_exchange` signs is the RFC's H of the same transcript, with the CR LF cut from each line (`ExchangeHashFollowsRfc`). |
| driver_channels | pass | 12.7K, 2 s | A host-opened and a peer-opened channel. The peer sends up to 2 data packets, EOF and CLOSE, including an EOF before confirmation. The per-channel update streams implement `ChannelUpdateStream` (`StreamRefinement`): nothing is lost, duplicated or reordered across Pending→Ready and waits on a full queue, and everything is eventually delivered. No update reaches a handler before its channel is confirmed: the driver's "channel not ready yet" check stops the early EOF that the multiplexer lets through (`UpdatesOnlyAfterConfirmation`). |
| legacy_stack | pass | 827K, 1 min 55 s | Three peer packets are split into reads of 1 to 9 bytes. Each packet is one of nine connection messages written by `to_bytes`, or has a packet_length of 0 or 3, which does not decode. Channel numbers 0 and 1 exist, and the second OPEN overflows the counter. The host makes up to two operations. The framer queues exactly the peer's packets, in order, with their sequence numbers (`FramesExactly`). Every `to_bytes` packet has 4 to 255 bytes of padding to a multiple of 8, and `from_raw` reads it back (`PacketEncodingFollowsRfc`). We send exactly one CHANNEL_CLOSE for a channel the peer closed, and never two, whether the host's Close or the peer's CLOSE comes first (`CloseOncePerChannel`). Each channel's updates are Open, then data and requests, then Closed last, and numbers are never reused (`UpdatesFollowLifecycle`). |
| driver_mutual_wait | violation | 457 | Finding: a handler that sends two operations before reading its updates leaves the driver waiting on its full update queue and the handler waiting on the full operations queue (`tokio server.rs:316`). |

Each property of a pass run has a mutant in `PROJECT.json`: a plausible bug in the mapped code that TLC catches under the run's own configuration.

**Why the bounds are enough.** Each violation is first reached within 2 to 12 steps. The bounds make every boundary reachable:
- the multiplexer: a chunk larger than the window, a grant that releases part of a queue, a drain across the default and two extended streams in either order, a refill at the threshold and one past u32. A peer request the host still has to answer, followed by an unknown request, shows the two actors' replies out of order;
- the transport: segments of up to 3 items. A segment can split the identification line, which is two items, and can join it with the packets that follow. A packet is one item and is never split;
- the driver: a queue of capacity 1 is full after one update;
- the legacy stack: reads of up to 9 bytes split a 4-byte length, end inside a body, and carry a whole 3-byte packet plus part of the next. A zero-length packet is whole as soon as its length is read. Three packets are enough for an OPEN followed by both orders of a host Close and a peer CLOSE, and for a peer CLOSE that overtakes a host operation. The 2-byte lengths of `to_bytes` packets over 255 bytes are not exercised in this run: with them the run took over 5 minutes.

## 4. Fairness

**LegacyStack** is checked for safety only. The legacy caller loop is not in the repository, so there is no scheduling to justify fairness.

**ChannelMux** is checked for safety only. No multiplexer call waits, and nothing is promised without a further peer packet or host call.

**TransportServer** assumes weak fairness of:
- the driver's top of loop, its socket read and its operations arm;
- the spawned task;
- the client's start and receive.

This is justified because `progress` is called in a loop, and tokio's `select!` keeps polling a ready arm. A spawned task runs to completion. A conforming client reads what it is sent. The client's optional messages get no fairness. Under these assumptions `HandshakeSettles` (in ts_safety) checks termination. The pipelined client is excluded because of the ts_pipelined_ident finding.

**SessionDriver** assumes weak fairness of the driver's steps and of each handler's receive and send. tokio wakes a task awaiting an mpsc send when room frees. The peer and the host's choices to open or write get no fairness.

## 5. Divergences without a run

These were found while modelling. They are recorded as hazards and not checked by a run:
- `lib.rs:318`: a WINDOW_ADJUST of 0 with queued default data reaches `send_data`'s non-empty assertion.
- `lib.rs:548`: inbound CHANNEL_EXTENDED_DATA (and any other packet type without an arm) hits `todo!()`.
- `lib.rs:390`: EOF, SUCCESS and FAILURE on a channel still awaiting confirmation are passed on. The driver then ends the connection with "channel not ready yet" (`tokio server.rs:312`).
- `server.rs:230`: a client that sets `first_kex_packet_follows` is disconnected, even when its guess is right. Spec 4.E does not say otherwise, and `SshHandshake` treats the guessed packet as fatal like the code. RFC 4253 §7 would have the server accept a right guess.
- `server.rs:388`: in Open a client's rekey KEXINIT is handed to the layers above. Spec §3 says rekeying loops back through KeyExchangeInit, but the server never rekeys. `SshHandshake` models Open as the code does.
- `tokio server.rs:175`: `signature_in_progress` is never cleared, so a second key exchange would never get its signature. This stays latent while rekeying is not implemented.
- `crypto.rs:524`: `key_exchange_hash` removes two bytes from each identification line. Spec 4.E says the reader already strips the CRLF. The ident parser is not in this repository, so which one is right cannot be checked here.
- `ssh-transport/src/packet.rs:45`: the legacy framer decrypts a packet that follows NEWKEYS in the same read with the old keys. The decryptors are not in this repository, so LegacyFramer keeps the Plaintext decryptor.
- `ssh-connection/src/lib.rs:249`: the legacy channel layer answers unknown requests even without want_reply, and never answers a signal request that wants a reply.
- `ssh-connection/src/lib.rs:280`: in the legacy channel layer, a host operation made after the peer's CLOSE, before the host has taken the Closed update, panics on `expect`. legacy_stack reaches this panic, but no property forbids it.
- `ssh-transport/src/packet.rs:325`: the legacy framer has no cap on the packet length. It frames any length correctly, but spec 4.B caps the length at 35,000.

## 6. Not modelled

- Of `ssh-transport`: `set_key` and the decryptors (`keys.rs` is not in this repository), and the byte-level message parsers and writers (`packet.rs` lines 114-272).
- The ciphers, MACs and signature schemes. The hash is an uninterpreted injective function.
- The authentication subprotocol, the packet transport of cluelessh-transport, and cluelessh-format: none of them is in this repository. The driver's auth callbacks are therefore not modelled. The driver's part of auth (`server.rs` lines 188-237 and 336-346) spawns one task per request and routes each result back. Whether two results can be applied out of order depends on how the absent state machine matches a result to its request, so a model built from the spec alone could not decide the hazard listed at line 199.
- The driver's table growth (closed channels are never removed): it needs unbounded connections to matter.
- Logging and payload formatting.
- ChannelMux has no abstract spec. Its outbound properties state the stream contract directly. The two refinements are at the driver (`ChannelUpdateStream`) and the transport (`SshHandshake`).
- Rekeying: the code does not implement it (see section 5).
