---------------------------- MODULE MCLiquidAuth ----------------------------
(* TLC instances of LiquidAuth: its constants are switches, set in the cfgs. *)
EXTENDS LiquidAuth
=============================================================================
