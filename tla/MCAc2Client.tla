---------------------------- MODULE MCAc2Client ----------------------------
(* The TLC instance of Ac2Client: two calls and two ids.                    *)
EXTENDS Ac2Client

CONSTANTS c1, c2, i1, i2

MCCalls == {c1, c2}
MCIds == {i1, i2}
=============================================================================
