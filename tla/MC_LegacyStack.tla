---------------------------- MODULE MC_LegacyStack ----------------------------
(* Model-checking instance of LegacyStack.  The peer's messages carry the  *)
(* payload lengths of RFC 4254 with short names and data.  A message for   *)
(* channel 0 before it is opened is the unknown-channel case.             *)
EXTENDS LegacyStack

MC_PeerMsgs ==
    {[type |-> "CHANNEL_OPEN", chType |-> "session", sender |-> 7, len |-> 24],
     [type |-> "CHANNEL_OPEN", chType |-> "x11", sender |-> 7, len |-> 20],
     [type |-> "CHANNEL_DATA", ch |-> 0, len |-> 10],
     [type |-> "CHANNEL_REQUEST", ch |-> 0, req |-> "signal", wantReply |-> FALSE,
      len |-> 20],
     [type |-> "CHANNEL_CLOSE", ch |-> 0, len |-> 5],
     [type |-> "CHANNEL_REQUEST", ch |-> 0, req |-> "shell", wantReply |-> TRUE,
      len |-> 15],
     [type |-> "CHANNEL_REQUEST", ch |-> 0, req |-> "env", wantReply |-> TRUE,
      len |-> 21],
     [type |-> "CHANNEL_EOF", ch |-> 0, len |-> 5],
     [type |-> "GLOBAL_REQUEST", len |-> 27]}
================================================================================
