---------------------------- MODULE MCGatewayLink ----------------------------
(* TLC instances of GatewayLink: one session. *)
EXTENDS GatewayLink

CONSTANTS s1, events

OneSession == {s1}
=============================================================================
