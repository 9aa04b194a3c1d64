--------------------------- MODULE MCGatewayCards ---------------------------
(* TLC instance of GatewayCards: a tool that tells deltas, one that tells     *)
(* snapshots of an output that repeats itself, a spawn and a yield.          *)
EXTENDS GatewayCards

CONSTANTS bash, yes, spawn, yield, side

TwoTools == {bash, yes}
TwoTexts == [c \in TwoTools |-> IF c = bash THEN <<1, 2, 1>> ELSE <<1, 1, 2>>]
OneDelta == {bash}
OneSpawn == {spawn}
OneYield == {yield}
OneCall == {{bash}, {yes}, {spawn}, {yield}}
TwoThreads == {DefaultThid, side}
=============================================================================
