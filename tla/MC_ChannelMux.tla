--------------------------- MODULE MC_ChannelMux ---------------------------
(* Model-checking instance of ChannelMux: one or two extended data codes, *)
(* channel numbers below a small counter limit, windows scaled to 3 bits. *)
EXTENDS ChannelMux

CONSTANTS e1, e2, none

MC_ExtCodes == {e1}

\* Two extended data codes, so the WINDOW_ADJUST drain meets both HashMap
\* iteration orders of queued_data_extended.
MC_TwoExtCodes == {e1, e2}
====
