------------------------------ MODULE MCBroker ------------------------------
(* TLC instances of Broker: two handles, one or two wallets. *)
EXTENDS Broker

CONSTANTS h1, h2, w1, w2

TwoHandles == {h1, h2}
OneWallet == {w1}
TwoWallets == {w1, w2}
NoTeardown == {}
CancelOrStop == {"cancel", "stop"}
=============================================================================
