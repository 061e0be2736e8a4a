------------------------- MODULE ChannelUpdateStream -------------------------
(***************************************************************************)
(* What the session driver promises a channel's host code (spec 5,         *)
(* "per channel, exposes an updates stream"; "within one channel, data     *)
(* delivered to the host strictly preserves the peer's send order"): each  *)
(* channel is a FIFO from the multiplexer to the channel's handler that    *)
(* loses, duplicates and reorders nothing and eventually hands over every  *)
(* update, until the connection ends.  When it ends, updates not yet       *)
(* handed to the channel's own queue may be lost; those already handed     *)
(* over are still received.                                                *)
(***************************************************************************)
EXTENDS Sequences, SequencesExt

CONSTANTS Chans, Kinds

VARIABLES
    inflight,  \* per channel: updates emitted and not yet received
    received,  \* per channel: updates the handler has received
    live       \* the connection is still being driven

vars == <<inflight, received, live>>

Init ==
    /\ inflight = [c \in Chans |-> <<>>]
    /\ received = [c \in Chans |-> <<>>]
    /\ live = TRUE

Emit(c, k) ==
    /\ live
    /\ inflight' = [inflight EXCEPT ![c] = Append(@, k)]
    /\ UNCHANGED <<received, live>>

Receive(c) ==
    /\ inflight[c] # <<>>
    /\ received' = [received EXCEPT ![c] = Append(@, Head(inflight[c]))]
    /\ inflight' = [inflight EXCEPT ![c] = Tail(@)]
    /\ UNCHANGED live

\* The connection ends; each channel keeps a prefix of what was in flight.
End ==
    /\ live /\ live' = FALSE
    /\ \A c \in Chans : IsPrefix(inflight'[c], inflight[c])
    /\ UNCHANGED received

Next ==
    \/ \E c \in Chans, k \in Kinds : Emit(c, k)
    \/ \E c \in Chans : Receive(c)
    \/ End

Spec == Init /\ [][Next]_vars /\ \A c \in Chans : WF_vars(Receive(c))

=============================================================================
