--------------------------- MODULE MCBroadcastAgent ---------------------------
(* Small instances of BroadcastAgent.                                      *)
EXTENDS BroadcastAgent, TLC

CONSTANTS c1, c2

MCOneAdmin == {c1}
=============================================================================
