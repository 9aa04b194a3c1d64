--------------------------- MODULE MCGatewayTurns ---------------------------
(* TLC instances of GatewayTurns: two turns, two threads, two segments.     *)
EXTENDS GatewayTurns

CONSTANTS t1, t2, side

TwoTurns == {t1, t2}
TwoThreads == {DefaultThid, side}
Usual ==
  {{}, {"silent"}, {"silent", "mute"}, {"overlap", "timeout"}, {"late", "quick", "mute"},
   {"drop"}, {"leave", "mute"}}
=============================================================================
