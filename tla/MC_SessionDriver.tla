-------------------------- MODULE MC_SessionDriver --------------------------
(* Two channels: c1 opened by the host with open_channel, c2 by the peer.  *)
EXTENDS SessionDriver

CONSTANTS c1, c2

MC_Chans == {c1, c2}
MC_HostOpened == {c1}

\* Operations each handler sends: the host's c1 writes, c2 only reads.
MC_OneOutput == [c \in MC_Chans |-> IF c = c1 THEN 1 ELSE 0]
MC_TwoOutputs == [c \in MC_Chans |-> IF c = c1 THEN 2 ELSE 0]
=============================================================================
