----------------------------- MODULE SshHandshake -----------------------------
(***************************************************************************)
(* The server side of the transport handshake as spec 4.E states it, over  *)
(* messages: the client's identification line, a KEXINIT with an algorithm *)
(* in common, ECDH_INIT, NEWKEYS, at most one EXT_INFO, and a service      *)
(* request for ssh-userauth, each answered in turn by the server's ident,  *)
(* KEXINIT, ECDH_REPLY (once the host-key signature is made), NEWKEYS and  *)
(* SERVICE_ACCEPT.  DISCONNECT ends the connection and IGNORE and DEBUG    *)
(* are skipped in any phase; any other message is fatal, except once open, *)
(* when every other message belongs to the layers above.  The connection   *)
(* may also end without a message (the socket closes, the signature        *)
(* fails).                                                                 *)
(*                                                                         *)
(* The server may take several client messages in one step, as one read   *)
(* may carry several packets: a step extends heard by up to MaxBatch       *)
(* messages and handles them in order.                                    *)
(***************************************************************************)
EXTENDS Naturals, Sequences, SequencesExt

CONSTANTS MaxBatch

VARIABLES
    phase,  \* where the handshake stands
    sent,   \* the server's messages, in the order it queued them
    heard,  \* the client's messages the server has handled, in order
    extOk,  \* a client EXT_INFO would still be accepted
    live    \* the connection has not ended

vars == <<phase, sent, heard, extOk, live>>

\* The client message that moves each phase on, and the server's answer.
\* After NEWKEYS the client may send one EXT_INFO (RFC 8308 2.4: the server
\* offers ext-info-s, spec 4.E) before its service request.
Expected == [ident |-> "IDENT", kexinit |-> "KEXINIT", ecdh |-> "ECDH_INIT",
             newkeys |-> "NEWKEYS", service |-> "SERVICE_REQUEST"]
Answer   == [ident |-> <<"IDENT">>, kexinit |-> <<"KEXINIT">>, ecdh |-> <<>>,
             newkeys |-> <<"NEWKEYS">>, service |-> <<"SERVICE_ACCEPT">>]
Following == [ident |-> "kexinit", kexinit |-> "ecdh", ecdh |-> "sign",
              newkeys |-> "service", service |-> "open"]

Ended(r) == [r EXCEPT !.live = FALSE]

\* The states a message m can lead the handshake r to.
Handle(r, m) ==
    CASE m = "DISCONNECT" -> {Ended(r)}
      [] m \in {"IGNORE", "DEBUG"} \/ r.phase = "open" -> {r}
      [] r.phase \in DOMAIN Expected /\ m = Expected[r.phase] ->
            {[r EXCEPT !.phase = Following[r.phase],
                       !.sent = @ \o Answer[r.phase],
                       !.extOk = (r.phase = "newkeys") \/ @]}
      [] r.phase = "service" /\ m = "EXT_INFO" /\ r.extOk ->
            {[r EXCEPT !.extOk = FALSE]}
      [] OTHER -> {Ended(r)}

\* The messages ms handled one after the other; nothing is handled once
\* the connection has ended.
RECURSIVE Run(_, _)
Run(r, ms) ==
    IF ms = <<>> THEN {r}
    ELSE IF ~r.live THEN {}
    ELSE UNION {Run(r2, Tail(ms)) : r2 \in Handle(r, Head(ms))}

Now == [phase |-> phase, sent |-> sent, extOk |-> extOk, live |-> live]

Init ==
    /\ phase = "ident" /\ sent = <<>> /\ heard = <<>>
    /\ extOk = FALSE /\ live = TRUE

\* The server handles the messages that extend heard (the new heard is
\* given: this step is meant to be checked against an implementation).
HandleBatch ==
    /\ live
    /\ IsPrefix(heard, heard') /\ heard' # heard
    /\ Len(heard') - Len(heard) <= MaxBatch
    /\ [phase |-> phase', sent |-> sent', extOk |-> extOk', live |-> live']
          \in Run(Now, SubSeq(heard', Len(heard) + 1, Len(heard')))

\* The host-key signature is ready: ECDH_REPLY goes out.
Sign ==
    /\ live /\ phase = "sign"
    /\ phase' = "newkeys" /\ sent' = Append(sent, "ECDH_REPLY")
    /\ UNCHANGED <<heard, extOk, live>>

End ==
    /\ live /\ live' = FALSE
    /\ UNCHANGED <<phase, sent, heard, extOk>>

Next == HandleBatch \/ Sign \/ End

Spec == Init /\ [][Next]_vars

=============================================================================
