------------------------------ MODULE MCStorage ------------------------------
(* The TLC instance of Storage: two connections, one agent key.             *)
EXTENDS Storage

CONSTANTS c1, c2, k1

MCConns == {c1, c2}
MCAgents == {k1}
=============================================================================
