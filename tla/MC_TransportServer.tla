------------------------- MODULE MC_TransportServer -------------------------
(* Model-checking instance of TransportServer: the constants are given in  *)
(* the MC_TransportServer_*.cfg files.                                     *)
EXTENDS TransportServer

\* Out-of-protocol packets a misbehaving client may inject: one for every
\* error arm of recv_bytes_inner, and DISCONNECT.
MC_RogueMsgs ==
    {"KEXINIT", "ECDH_INIT", "NEWKEYS", "EXT_INFO", "SERVICE_OTHER",
     "DISCONNECT"}
=============================================================================
