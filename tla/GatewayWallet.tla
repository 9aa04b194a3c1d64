---------------------------- MODULE GatewayWallet ----------------------------
(***************************************************************************)
(* The module state of the gateway adapter (runtime/gateway/adapter.ts)    *)
(* that its turns (GatewayTurns) and its cards (GatewayCards) both read:   *)
(* which run has the slot, which thread the wallet looks at, and whether   *)
(* there is a wallet.                                                      *)
(***************************************************************************)
CONSTANTS
  Threads,           \* conversations of the wallet, one gateway session each
  DefaultThid        \* DEFAULT_THID

ASSUME ThreadsAssumption == DefaultThid \in Threads

VARIABLES
  activeRun,         \* the slot: the run whose events are looked at
  activeThid,        \* the thread the wallet looks at
  walletUp           \* whether a wallet is connected
=============================================================================
