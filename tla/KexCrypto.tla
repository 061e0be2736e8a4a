------------------------------ MODULE KexCrypto ------------------------------
(***************************************************************************)
(* The pure functions of cluelessh-transport's crypto.rs that both ends of *)
(* a connection must compute alike: algorithm negotiation                  *)
(* (AlgorithmNegotiation::find), the key schedule (derive_key,             *)
(* Session::new, Session::from_keys, Session::rekey) and the mpint         *)
(* encoding of the shared secret fed to the hash.                          *)
(*                                                                         *)
(* Each is checked against the rule of RFC 4253 it implements, over every  *)
(* small input: the variable input ranges over all of them and nothing     *)
(* changes it.                                                             *)
(*                                                                         *)
(* SHA-256 is an uninterpreted injective function: byte j of the digest of *)
(* a message m is <<"sha256", m, j>>.  Byte counts are scaled: Sha2Len     *)
(* stands for the 32-byte digest and the algorithm sizes keep their ratio  *)
(* to it where they can.                                                   *)
(***************************************************************************)
EXTENDS Naturals, Sequences, SequencesExt, FiniteSetsExt

CONSTANTS
    Names,        \* algorithm names
    MaxList,      \* longest name-list
    Secrets,      \* shared secrets K, as big-endian byte sequences
    Idents,       \* identification lines, as received or sent
    Blobs,        \* KEXINIT payloads, host keys and ECDH points
    Hashes,       \* exchange hashes H (model values)
    Sha2Len,      \* digest length
    MaxKeySize,   \* largest derived key length checked
    EncAlgs       \* encryption algorithm -> [key |-> key_size, iv |-> iv_size]

ASSUME /\ MaxList \in Nat /\ Sha2Len \in Nat \ {0} /\ MaxKeySize \in Nat
       /\ \A a \in DOMAIN EncAlgs : EncAlgs[a].key \in Nat /\ EncAlgs[a].iv \in Nat

NoAlgorithm == "NoCommonAlgorithm"

\* The key letters of RFC 4253 7.2.
Letters == {"A", "B", "C", "D"}

VARIABLE input

-----------------------------------------------------------------------------
(* AlgorithmNegotiation::find                                             *)

\* The loop over client_algs: the first one any of server_algs equals, taken
\* out of supported by position.
RECURSIVE FirstCommon(_, _, _)
FirstCommon(clientAlgs, serverAlgs, supported) ==
    IF clientAlgs = <<>> THEN NoAlgorithm
    ELSE LET alg == Head(clientAlgs)
         IN IF alg \in ToSet(serverAlgs) /\ alg \in ToSet(supported)
            THEN alg
            ELSE FirstCommon(Tail(clientAlgs), serverAlgs, supported)

\* Mutant: each side lets its own list lead.
FindOwnFirst(supported, thisIsClient, peerSupports) ==
    FirstCommon(supported, peerSupports, supported)

\* find(this_is_client, peer_supports): the client's list leads.
Find(supported, thisIsClient, peerSupports) ==
    IF thisIsClient THEN FirstCommon(supported, peerSupports, supported)
                    ELSE FirstCommon(peerSupports, supported, supported)

-----------------------------------------------------------------------------
(* derive_key and the mpint encoding of K                                  *)

Sha256(msg) == [j \in 1..Sha2Len |-> <<"sha256", msg, j>>]

\* cluelessh_format::fixup_mpint, as spec 4.A and 10 describe it: a zero
\* byte is put in front when the high bit is set.
FixupMpint(key) == <<key, key # <<>> /\ Head(key) >= 128>>

\* encode_mpint_for_hash: u32 length, the pad byte if any, the magnitude.
EncodeMpintForHash(key) ==
    LET fixed == FixupMpint(key)
        pad   == IF fixed[2] THEN <<0>> ELSE <<>>
    IN <<<<"u32", Len(fixed[1]) + Len(pad)>>>> \o pad \o fixed[1]

\* Mutant: later digests are taken over the previous digest only.
DeriveKeyPrevBlock(k, h, letter, sessionId, keySize) ==
    LET padded == ((keySize + Sha2Len - 1) \div Sha2Len) * Sha2Len
        RECURSIVE Output(_)
        Output(i) ==
            IF i = 0 THEN <<>>
            ELSE LET prev == Output(i - 1)
                     tail == IF i = 1 THEN <<letter, sessionId>>
                             ELSE SubSeq(prev, Len(prev) - Sha2Len + 1, Len(prev))
                 IN prev \o Sha256(EncodeMpintForHash(k) \o <<h>> \o tail)
    IN SubSeq(Output(padded \div Sha2Len), 1, keySize)

\* derive_key: padded_key_size/sha2len digests, the first over
\* K || H || letter || session_id, each later one over K || H || all the
\* output so far; then truncated to key_size.
DeriveKey(k, h, letter, sessionId, keySize) ==
    LET padded == ((keySize + Sha2Len - 1) \div Sha2Len) * Sha2Len
        RECURSIVE Output(_)
        Output(i) ==
            IF i = 0 THEN <<>>
            ELSE LET prev == Output(i - 1)
                     tail == IF i = 1 THEN <<letter, sessionId>> ELSE prev
                 IN prev \o Sha256(EncodeMpintForHash(k) \o <<h>> \o tail)
    IN SubSeq(Output(padded \div Sha2Len), 1, keySize)

-----------------------------------------------------------------------------
(* key_exchange_hash                                                       *)

\* hash_string: the u32 length, then the bytes.
HashString(bytes) == <<<<"u32", Len(bytes)>>>> \o bytes

\* Mutant: one byte too few is cut from each identification line.
KeyExchangeHashStripOne(clientIdent, serverIdent, iC, iS, kS, qC, qS, k) ==
    Sha256(HashString(SubSeq(clientIdent, 1, Len(clientIdent) - 1))
           \o HashString(SubSeq(serverIdent, 1, Len(serverIdent) - 1))
           \o HashString(iC) \o HashString(iS)
           \o HashString(kS)
           \o HashString(qC) \o HashString(qS)
           \o EncodeMpintForHash(k))

\* key_exchange_hash(client_ident, server_ident, client_kexinit,
\* server_kexinit, server_hostkey, eph_client_public_key,
\* eph_server_public_key, shared_secret): V_C and V_S with their last two
\* bytes cut (the CR LF the comment expects), I_C, I_S, K_S, Q_C and Q_S
\* as strings (RFC 5656 4: ECDH points are strings), K as an mpint.  A line shorter than two
\* bytes would panic the slice; the lines given here end in CR LF.
KeyExchangeHash(clientIdent, serverIdent, iC, iS, kS, qC, qS, k) ==
    Sha256(HashString(SubSeq(clientIdent, 1, Len(clientIdent) - 2))
           \o HashString(SubSeq(serverIdent, 1, Len(serverIdent) - 2))
           \o HashString(iC) \o HashString(iS)
           \o HashString(kS)
           \o HashString(qC) \o HashString(qS)
           \o EncodeMpintForHash(k))

\* The free function do_key_exchange, given the parameters
\* is_waiting_on_key_exchange hands out, the server's ephemeral public key
\* qs its rng gives and the shared secret k of the exchange: the response
\* carries H, signed with the host key.
DoKeyExchange(msg, qs, k) ==
    LET h == KeyExchangeHash(msg.clientIdent, msg.serverIdent, msg.clientKexinit,
                             msg.serverKexinit, msg.hostkey, msg.ephClient, qs, k)
    IN [hash |-> h, ephServer |-> qs, sharedSecret |-> k,
        signature |-> <<"sign", msg.hostkey, h>>]

-----------------------------------------------------------------------------
(* Session::from_keys, Session::new, Session::rekey                       *)

\* A Tunnel: the algorithm and its state, key || IV.
Tunnel(alg, k, h, keyLetter, ivLetter, sessionId) ==
    [algorithm |-> alg,
     state |-> DeriveKey(k, h, keyLetter, sessionId, EncAlgs[alg].key)
               \o DeriveKey(k, h, ivLetter, sessionId, EncAlgs[alg].iv)]

FromKeys(sessionId, h, k, algC2s, algS2c, isServer) ==
    LET c2s == Tunnel(algC2s, k, h, "C", "A", sessionId)
        s2c == Tunnel(algS2c, k, h, "D", "B", sessionId)
    IN [sessionId |-> sessionId,
        fromPeer  |-> IF isServer THEN c2s ELSE s2c,
        toPeer    |-> IF isServer THEN s2c ELSE c2s]

\* Session::new: the first exchange hash becomes the session id.
NewSession(h, k, algC2s, algS2c, isServer) ==
    FromKeys(h, h, k, algC2s, algS2c, isServer)

\* Mutant: rekey starts a fresh session.
RekeyFresh(session, h, k, algC2s, algS2c, isServer) ==
    FromKeys(h, h, k, algC2s, algS2c, isServer)

\* rekey: new H and K, the session id kept.
Rekey(session, h, k, algC2s, algS2c, isServer) ==
    FromKeys(session.sessionId, h, k, algC2s, algS2c, isServer)

-----------------------------------------------------------------------------

NameLists == SeqOf(Names, MaxList)

\* Every input checked: a pair of name-lists, a key derivation, or a session
\* set up once or rekeyed, on either side.
Inputs ==
    [kind : {"negotiation"}, ours : NameLists, peer : NameLists]
    \cup [kind : {"derive"}, k : Secrets, h : Hashes, letter : Letters,
          sessionId : Hashes, size : 0..MaxKeySize]
    \cup [kind : {"session"}, k : Secrets, first : Hashes, h : Hashes,
          rekeyed : BOOLEAN, c2s : DOMAIN EncAlgs, s2c : DOMAIN EncAlgs]
    \cup [kind : {"exchange"}, clientIdent : Idents, serverIdent : Idents,
          clientKexinit : Blobs, serverKexinit : Blobs, hostkey : Blobs,
          ephClient : Blobs, ephServer : Blobs, k : Secrets]

Init == input \in Inputs
Next == UNCHANGED input
Spec == Init /\ [][Next]_input

-----------------------------------------------------------------------------
(* Reference definitions (RFC 4253) and properties                        *)

\* 7.1: the first algorithm on the client's list that is also on the
\* server's list.
RfcChoice(clientList, serverList) ==
    LET common == {i \in 1..Len(clientList) : clientList[i] \in ToSet(serverList)}
    IN IF common = {} THEN NoAlgorithm ELSE clientList[Min(common)]

\* 7.2: K1 = HASH(K || H || X || session_id), K(n+1) = HASH(K || H || K1 ||
\* ... || Kn), extended until long enough and cut to the length needed.
RfcKey(k, h, letter, sessionId, size) ==
    LET RECURSIVE Extend(_)
        Extend(key) == IF Len(key) >= size THEN SubSeq(key, 1, size)
                       ELSE Extend(key \o Sha256(EncodeMpintForHash(k) \o <<h>> \o key))
    IN Extend(Sha256(EncodeMpintForHash(k) \o <<h, letter, sessionId>>))

\* The session as both ends must hold it: c2s keyed by C (key) and A (IV),
\* s2c by D and B, all derived with the session id, which is the first
\* exchange hash.
RfcTunnel(alg, k, h, keyLetter, ivLetter, sessionId) ==
    [algorithm |-> alg,
     state |-> RfcKey(k, h, keyLetter, sessionId, EncAlgs[alg].key)
               \o RfcKey(k, h, ivLetter, sessionId, EncAlgs[alg].iv)]

\* find, called by the server with this_is_client false and by a client
\* with this_is_client true, picks the RFC 4253 7.1 algorithm for every
\* pair of lists, so both ends of a connection agree on it.
FindFollowsRfc ==
    input.kind = "negotiation" =>
        /\ Find(input.ours, FALSE, input.peer) = RfcChoice(input.peer, input.ours)
        /\ Find(input.ours, TRUE, input.peer) = RfcChoice(input.ours, input.peer)

\* derive_key's precomputed digest count, its first and later digest inputs
\* and its truncation produce exactly the RFC 4253 7.2 key of every length.
DeriveKeyFollowsRfc ==
    input.kind = "derive" =>
        DeriveKey(input.k, input.h, input.letter, input.sessionId, input.size)
            = RfcKey(input.k, input.h, input.letter, input.sessionId, input.size)

\* Session::new and Session::rekey give each side the RFC's keys for its
\* direction: what the server decrypts with is what a client (is_server
\* false) encrypts with, and after a rekey the session id is still the
\* first exchange hash.
SessionKeysFollowRfc ==
    input.kind = "session" =>
        LET sid == IF input.rekeyed THEN input.first ELSE input.h
            c2s == RfcTunnel(input.c2s, input.k, input.h, "C", "A", sid)
            s2c == RfcTunnel(input.s2c, input.k, input.h, "D", "B", sid)
            Made(isServer) ==
                IF input.rekeyed
                THEN Rekey(NewSession(input.first, input.k, input.c2s, input.s2c,
                                      isServer),
                           input.h, input.k, input.c2s, input.s2c, isServer)
                ELSE NewSession(input.h, input.k, input.c2s, input.s2c, isServer)
        IN /\ Made(TRUE).fromPeer = c2s /\ Made(TRUE).toPeer = s2c
           /\ Made(FALSE).fromPeer = s2c /\ Made(FALSE).toPeer = c2s
           /\ Made(TRUE).sessionId = sid

CR == 13
LF == 10

\* RFC 4251 5: an mpint is a string of the two's complement magnitude,
\* with a zero byte in front when the high bit is set.
RfcMpint(k) ==
    LET mag == IF k # <<>> /\ Head(k) >= 128 THEN <<0>> \o k ELSE k
    IN <<<<"u32", Len(mag)>>>> \o mag

\* An identification line without its CR LF (RFC 4253 4.2 and 8: V_C and
\* V_S exclude them).
RfcLine(line) ==
    IF Len(line) >= 2 /\ SubSeq(line, Len(line) - 1, Len(line)) = <<CR, LF>>
    THEN SubSeq(line, 1, Len(line) - 2) ELSE line

\* RFC 4253 8 and RFC 5656 4: H = HASH(string V_C || string V_S ||
\* string I_C || string I_S || string K_S || string Q_C || string Q_S ||
\* mpint K).
RfcExchangeHash(x) ==
    Sha256(HashString(RfcLine(x.clientIdent)) \o HashString(RfcLine(x.serverIdent))
           \o HashString(x.clientKexinit) \o HashString(x.serverKexinit)
           \o HashString(x.hostkey) \o HashString(x.ephClient)
           \o HashString(x.ephServer) \o RfcMpint(x.k))

\* The exchange hash do_key_exchange computes, and signs, is the H a
\* conforming client computes from the same lines, KEXINITs, host key,
\* points and secret: the CR LF cut from each identification line, the
\* fields in the RFC's order, each framed, K as an mpint.  Otherwise the
\* client's host-key signature check fails on every connection.
ExchangeHashFollowsRfc ==
    input.kind = "exchange" =>
        LET r == DoKeyExchange(input, input.ephServer, input.k)
        IN /\ r.hash = RfcExchangeHash(input)
           /\ r.signature = <<"sign", input.hostkey, RfcExchangeHash(input)>>

=============================================================================
