---------------------------- MODULE PairingHandle ----------------------------
(***************************************************************************)
(* One pairing handle as a provider and its caller see it                  *)
(* (Ac2PairingHandle, packages/ac2-sdk/src/signaling/index.ts).            *)
(*                                                                         *)
(* The provider owes: connect() opens a channel only while it is           *)
(* outstanding and only on a handle that is not disposed of; whoever ends  *)
(* the channel, the caller learns it; what is disposed of stays so.  The   *)
(* caller owes: one connect() at a time, and none while a channel is open. *)
(* LiquidAuth is the provider, Broker the caller.                          *)
(***************************************************************************)
CONSTANTS
  Calls,               \* names of connect() calls
  MayCrash             \* TRUE: the process may end and be started again

VARIABLES
  signaling,           \* "none" (no handle yet), "alive", "lost", "disposed"
  waiting,             \* the connect() calls without an answer
  channel              \* "open" for provider and caller, or "closed" for both

vars == <<signaling, waiting, channel>>

Init == signaling = "none" /\ waiting = {} /\ channel = "closed"

Stands == signaling \in {"alive", "lost"}

\* The outstanding connect() may be rejected along with it.
MayReject == waiting' \in {waiting, {}}

\* startPairing() resolves to a new handle; its caller may call connect() at once.
Begins ==
  /\ signaling \in {"none", "disposed"}
  /\ waiting = {} /\ channel = "closed"
  /\ signaling' = "alive"
  /\ waiting' \in {{}} \cup {{c} : c \in Calls}
  /\ UNCHANGED channel

\* isSignalingAlive() turns false, and true again.
Loses ==
  /\ signaling = "alive"
  /\ signaling' = "lost"
  /\ MayReject
  /\ UNCHANGED channel

Returns ==
  /\ signaling = "lost"
  /\ signaling' = "alive"
  /\ UNCHANGED <<waiting, channel>>

\* connect(): the first one, or a re-arming on the same handle.
Connects(c) ==
  /\ signaling # "none"
  /\ waiting = {} /\ channel = "closed"
  /\ waiting' = {c}
  /\ UNCHANGED <<signaling, channel>>

Resolves ==
  /\ Stands
  /\ waiting # {}
  /\ waiting' = {}
  /\ channel' = "open"
  /\ UNCHANGED signaling

Rejects ==
  /\ waiting # {}
  /\ waiting' = {}
  /\ UNCHANGED <<signaling, channel>>

\* close() of the channel by its user, or its end by provider, peer or transport.
Closes ==
  /\ channel = "open"
  /\ channel' = "closed"
  /\ UNCHANGED <<signaling, waiting>>

\* dispose() takes the peer session with it; a second one changes nothing.
Disposes ==
  /\ Stands
  /\ signaling' = "disposed"
  /\ channel' = "closed"
  /\ MayReject

\* The process is gone, and its handles with it.
Ends == MayCrash /\ signaling' = "none" /\ waiting' = {} /\ channel' = "closed"

Next ==
  \/ Begins \/ Loses \/ Returns \/ Resolves \/ Rejects \/ Closes \/ Disposes \/ Ends
  \/ \E c \in Calls : Connects(c)

Spec == Init /\ [][Next]_vars
=============================================================================
