-------------------------- MODULE LiquidAuthProofs --------------------------
(***************************************************************************)
(* A negotiation has its connection and its socket, a live session its     *)
(* channel, a disposed handle nothing; and a healthy link stays.  None of  *)
(* the four invariants is inductive alone: each judge must know that no    *)
(* session is live while connect() is under way, and none under way while  *)
(* one is.                                                                 *)
(***************************************************************************)
EXTENDS LiquidAuth, TLAPS

\* connect() runs alone: no session, no interval and no closing at its side, not
\* before the handle is there; and it waits for the socket only while that is down.
NegotiatesAlone ==
  /\ Negotiating => /\ ~connected /\ ~beat /\ session = "none"
                    /\ closed => phase = "disposed"
  /\ phase \in {"starting", "failed"} => pc = "idle" /\ session = "none"
  /\ pc = "wait" => sock # "up"

\* Signaling is stable only on a socket that is up and past every recount.
StableIsSettled ==
  /\ stable \/ grace => sock = "up"
  /\ recount => ~stable
  /\ phase = "starting" => sock # "up"

Inv ==
  /\ TypeOK
  /\ ArmedOnLiveSocket /\ PeerClientStands
  /\ EndIsReported /\ DisposedLeavesNothing
  /\ NegotiatesAlone
  /\ StableIsSettled

LEMMA Initially == Init => Inv
  BY DEF Init, Inv, TypeOK, Armed, ArmedOnLiveSocket, PeerClientStands, EndIsReported,
         DisposedLeavesNothing, NegotiatesAlone, Negotiating, StableIsSettled

\* No step leaves the types.
LEMMA StepTypes == TypeOK /\ [Next]_vars => TypeOK'
<1> SUFFICES ASSUME TypeOK, [Next]_vars PROVE TypeOK'
  OBVIOUS
<1> USE DEF TypeOK, Armed, sigVars, flagVars, peerVars, walletVars
<1>1. CASE SocketUp
  BY <1>1 DEF SocketUp, Negotiate
<1>2. CASE GraceElapses \/ WakeKick \/ StartFails
  BY <1>2 DEF GraceElapses, WakeKick, StartFails
<1>3. ASSUME NEW b \in BOOLEAN, SocketDrops(b) PROVE TypeOK'
  BY <1>3 DEF SocketDrops, FullTeardown, TeardownPeer, MarkUnstable
<1>4. ASSUME NEW b \in BOOLEAN, Recount(b) PROVE TypeOK'
  <2>1. CASE Close
    BY <1>4, <2>1 DEF Recount, Close, TeardownPeer
  <2>2. CASE UNCHANGED <<closed, connected, peerClient, ctl, hb, beat, silence, session>>
    <3>1. recount' \in BOOLEAN /\ mate' \in BOOLEAN /\ ignored' \in BOOLEAN
      BY <1>4, <2>2 DEF Recount, TellIfUp, Told, Close, TeardownPeer, Keep
    <3> QED BY <1>4, <2>2, <3>1 DEF Recount
  <2>3. Close \/ UNCHANGED <<closed, connected, peerClient, ctl, hb, beat, silence, session>>
    BY <1>4 DEF Recount, TellIfUp, Told, Keep
  <2> QED BY <2>1, <2>2, <2>3
<1>5. CASE Connect
  BY <1>5 DEF Connect, Negotiate
<1>6. CASE WalletLinks \/ DataChannel
  BY <1>6 DEF WalletLinks, DataChannel
<1>7. CASE Offer
  BY <1>7 DEF Offer, ShouldTeardownOnOffer, Close, TeardownPeer, Keep
<1>8. CASE PauseOver \/ ControlOpens
  BY <1>8 DEF PauseOver, ControlOpens, GoLive
<1>9. CASE OpenFails \/ WaitFails
  BY <1>9 DEF OpenFails, WaitFails, FullTeardown, TeardownPeer
<1>10. CASE ControlCloses \/ Quiet \/ Heard
  BY <1>10 DEF ControlCloses, Quiet, Heard
<1>11. CASE HeartbeatCloses \/ CallerCloses
  BY <1>11 DEF HeartbeatCloses, CallerCloses, Close, TeardownPeer
<1>12. CASE Dispose
  BY <1>12 DEF Dispose, FullTeardown, TeardownPeer
<1>13. CASE WalletLeaves \/ WalletReturns
  BY <1>13 DEF WalletLeaves, WalletReturns, TellIfUp, Told, ShouldTeardownOnPresence,
               Close, TeardownPeer, Keep
<1>14. CASE PathDies
  <2>1. mate' \in BOOLEAN
    BY <1>14 DEF PathDies
  <2> QED
    BY <1>14, <2>1 DEF PathDies
<1>15. CASE UNCHANGED vars
  BY <1>15 DEF vars
<1> QED
  BY <1>1, <1>2, <1>3, <1>4, <1>5, <1>6, <1>7, <1>8, <1>9, <1>10, <1>11, <1>12,
     <1>13, <1>14, <1>15 DEF Next

\* No step leaves the rest.
LEMMA Inductive == Inv /\ [Next]_vars => Inv'
<1> DEFINE Rest == /\ ArmedOnLiveSocket /\ PeerClientStands
                   /\ EndIsReported /\ DisposedLeavesNothing
                   /\ NegotiatesAlone /\ StableIsSettled
<1> SUFFICES ASSUME Inv, [Next]_vars PROVE Rest'
  BY StepTypes DEF Inv
<1> USE DEF Inv, TypeOK, Armed, ArmedOnLiveSocket, PeerClientStands, EndIsReported,
            DisposedLeavesNothing, NegotiatesAlone, Negotiating, StableIsSettled,
            sigVars, flagVars, peerVars, walletVars
<1>1. CASE SocketUp
  BY <1>1 DEF SocketUp, Negotiate
<1>2. CASE GraceElapses \/ WakeKick \/ StartFails
  BY <1>2 DEF GraceElapses, WakeKick, StartFails
<1>3. ASSUME NEW b \in BOOLEAN, SocketDrops(b) PROVE Rest'
  BY <1>3 DEF SocketDrops, FullTeardown, TeardownPeer, MarkUnstable
<1>4. ASSUME NEW b \in BOOLEAN, Recount(b) PROVE Rest'
  BY <1>4 DEF Recount, TellIfUp, Told, ShouldTeardownOnPresence, Close, TeardownPeer, Keep
<1>5. CASE Connect
  BY <1>5 DEF Connect, Negotiate
<1>6. CASE WalletLinks \/ DataChannel
  BY <1>6 DEF WalletLinks, DataChannel
<1>7. CASE Offer
  BY <1>7 DEF Offer, ShouldTeardownOnOffer, Close, TeardownPeer, Keep
<1>8. CASE PauseOver \/ ControlOpens
  BY <1>8 DEF PauseOver, ControlOpens, GoLive
<1>9. CASE OpenFails \/ WaitFails
  BY <1>9 DEF OpenFails, WaitFails, FullTeardown, TeardownPeer
<1>10. CASE ControlCloses \/ Quiet \/ Heard
  BY <1>10 DEF ControlCloses, Quiet, Heard
<1>11. CASE HeartbeatCloses \/ CallerCloses
  BY <1>11 DEF HeartbeatCloses, CallerCloses, Close, TeardownPeer
<1>12. CASE Dispose
  BY <1>12 DEF Dispose, FullTeardown, TeardownPeer
<1>13. CASE WalletLeaves \/ WalletReturns
  BY <1>13 DEF WalletLeaves, WalletReturns, TellIfUp, Told, ShouldTeardownOnPresence,
               Close, TeardownPeer, Keep
<1>14. CASE PathDies
  BY <1>14 DEF PathDies
<1>15. CASE UNCHANGED vars
  BY <1>15 DEF vars
<1> QED
  BY <1>1, <1>2, <1>3, <1>4, <1>5, <1>6, <1>7, <1>8, <1>9, <1>10, <1>11, <1>12,
     <1>13, <1>14, <1>15 DEF Next

\* The type invariant.
THEOREM TypeCorrect == Spec => []TypeOK
<1>1. Inv => TypeOK
  BY DEF Inv
<1> QED
  BY <1>1, Initially, Inductive, PTL DEF Spec

\* In every order of drops, departures and offers, connect() waits for a wallet
\* only on a socket that is up, and with the peer connection the handshake will
\* use (liquid-auth.ts 425-440, 691-702).
THEOREM NeverDeaf == Spec => []NeverDeafOrBare
<1>1. Inv => NeverDeafOrBare
  BY DEF Inv, NeverDeafOrBare
<1> QED
  BY <1>1, Initially, Inductive, PTL DEF Spec

\* Whichever of the judges, the transport or the caller ends a session, the
\* caller does not go on with a dead one (1641-1652).
THEOREM EveryEndIsTold == Spec => []EndIsReported
<1>1. Inv => EndIsReported
  BY DEF Inv
<1> QED
  BY <1>1, Initially, Inductive, PTL DEF Spec

\* dispose() leaves nothing behind, whatever connect() was waiting for (1694-1700).
THEOREM DisposalIsFinal == Spec => []DisposedLeavesNothing
<1>1. Inv => DisposedLeavesNothing
  BY DEF Inv
<1> QED
  BY <1>1, Initially, Inductive, PTL DEF Spec

-----------------------------------------------------------------------------
\* A step that ends a live session while signaling is up and the wallet's end
\* lives is presence told of a departure, the heartbeat past its hard limit, or
\* the caller's dispose().
LEMMA Ending ==
  ASSUME Inv, Next, session = "live", session' = "ended", mate, sock = "up"
  PROVE  wallet' = "away" \/ silence = "hard" \/ phase' = "disposed"
<1>1. ~SocketUp /\ ~GraceElapses /\ ~WakeKick /\ ~StartFails
  BY DEF SocketUp, GraceElapses, WakeKick, StartFails
<1>2. ASSUME NEW b \in BOOLEAN, SocketDrops(b) PROVE FALSE
  BY <1>2 DEF SocketDrops
<1>3. ASSUME NEW b \in BOOLEAN, Recount(b) PROVE FALSE
  BY <1>3 DEF Recount, TellIfUp, Told, ShouldTeardownOnPresence, Inv, StableIsSettled,
              EndIsReported, TypeOK
<1>4. ~Connect /\ ~WalletLinks /\ ~DataChannel /\ ~PauseOver /\ ~ControlOpens
  BY DEF Connect, WalletLinks, DataChannel, PauseOver, ControlOpens, GoLive
<1>5. ~Offer /\ ~OpenFails /\ ~WaitFails /\ ~ControlCloses
  BY DEF Offer, OpenFails, WaitFails, ControlCloses, Keep, peerVars
<1>6. ~Quiet /\ ~Heard /\ ~CallerCloses /\ ~PathDies
  BY DEF Quiet, Heard, CallerCloses, PathDies
<1>7. ASSUME HeartbeatCloses PROVE silence = "hard"
  BY <1>7 DEF HeartbeatCloses, ShouldCloseOnHeartbeat
<1>8. ASSUME WalletLeaves PROVE wallet' = "away"
  BY <1>8 DEF WalletLeaves
<1>9. ~WalletReturns
  BY DEF WalletReturns, TellIfUp, Told, ShouldTeardownOnPresence, Keep, peerVars
<1>10. ASSUME Dispose PROVE phase' = "disposed"
  BY <1>10 DEF Dispose
<1> QED
  BY <1>1, <1>2, <1>3, <1>4, <1>5, <1>6, <1>7, <1>8, <1>9, <1>10 DEF Next

\* A healthy link survives blips, recounts and silences below the hard limit
\* (549-559, 728-751).
THEOREM HealthyLinksStay == Spec => HealthyLinkStays
<1>1. Inv /\ [Next]_vars =>
        [session = "live" /\ session' = "ended" /\ mate /\ sock = "up"
           => wallet' = "away" \/ silence = "hard" \/ phase' = "disposed"]_vars
  BY Ending DEF vars
<1> QED
  BY <1>1, Initially, Inductive, PTL DEF Spec, HealthyLinkStays

-----------------------------------------------------------------------------
(* The provider keeps the contract of a pairing handle (PairingHandle):    *)
(* every step is one the contract allows, or shows its caller nothing.     *)

\* What the invariants say in the contract's terms.
View ==
  /\ phase \in {"starting", "failed"} => SignalingSeen = "none"
  /\ phase = "disposed" => SignalingSeen = "disposed"
  /\ phase = "ready" => SignalingSeen = IF sock = "up" THEN "alive" ELSE "lost"
  /\ ChannelSeen = IF session = "live" THEN "open" ELSE "closed"
  /\ session = "live" => phase = "ready" /\ pc = "idle"
  /\ phase \in {"starting", "failed", "ready", "disposed"}

LEMMA Seen ==
  ASSUME Inv, Inv'
  PROVE  View /\ View'
<1>1. View
  BY DEF View, Inv, TypeOK, SignalingSeen, ChannelSeen, NegotiatesAlone, Negotiating,
         DisposedLeavesNothing, EndIsReported
<1>2. View'
  BY DEF View, Inv, TypeOK, SignalingSeen, ChannelSeen, NegotiatesAlone, Negotiating,
         DisposedLeavesNothing, EndIsReported
<1> QED
  BY <1>1, <1>2

\* What a step does to phase, socket, connect() and session tells what the caller
\* sees of it.
LEMMA Quietly ==
  ASSUME Inv, Inv', Negotiating' = Negotiating, (session' = "live") <=> (session = "live"),
         SignalingSeen' = SignalingSeen
  PROVE  UNCHANGED Handle!vars
  BY Seen DEF View, Handle!vars

LEMMA EndsAtMost ==
  ASSUME Inv, Inv', Negotiating' = Negotiating, session' = "live" => session = "live",
         UNCHANGED <<phase, sock>>
  PROVE  [Handle!Closes]_(Handle!vars)
<1>1. SignalingSeen' = SignalingSeen
  BY DEF SignalingSeen
<1> QED
  BY <1>1, Quietly, Seen DEF View, Handle!Closes

\* A judge or the caller ends the session; connect() does not notice.
LEMMA ClosingSteps ==
  ASSUME Inv, Inv',
         \/ Offer \/ HeartbeatCloses \/ ControlCloses \/ CallerCloses
         \/ WalletLeaves \/ WalletReturns \/ \E b \in BOOLEAN : Recount(b)
  PROVE  [Handle!Closes]_(Handle!vars)
<1>1. UNCHANGED <<phase, sock>>
  BY DEF Offer, HeartbeatCloses, ControlCloses, CallerCloses, WalletLeaves, WalletReturns,
         Recount, sigVars
<1>2. Negotiating' = Negotiating
  BY DEF Negotiating, Offer, HeartbeatCloses, ControlCloses, CallerCloses, WalletLeaves,
         WalletReturns, Recount
<1>3. session' = "live" => session = "live"
  BY DEF Offer, HeartbeatCloses, ControlCloses, CallerCloses, WalletLeaves, WalletReturns,
         Recount, TellIfUp, Told, Close, Keep
<1> QED
  BY <1>1, <1>2, <1>3, EndsAtMost

LEMMA QuietSteps ==
  ASSUME Inv, Inv',
         \/ GraceElapses \/ WakeKick \/ StartFails \/ WalletLinks \/ DataChannel
         \/ Quiet \/ Heard \/ PathDies \/ UNCHANGED vars
  PROVE  UNCHANGED Handle!vars
<1>1. Negotiating' = Negotiating /\ session' = session
  BY DEF Negotiating, GraceElapses, WakeKick, StartFails, WalletLinks, DataChannel, Quiet,
         Heard, PathDies, vars
<1>2. SignalingSeen' = SignalingSeen
  BY DEF SignalingSeen, GraceElapses, WakeKick, StartFails, WalletLinks, DataChannel, Quiet,
         Heard, PathDies, vars, sigVars
<1> QED
  BY <1>1, <1>2, Quietly

\* The socket comes and goes.
LEMMA SocketSteps ==
  ASSUME Inv, Inv', SocketUp \/ \E b \in BOOLEAN : SocketDrops(b)
  PROVE  [Handle!Next]_(Handle!vars)
<1>1. session' = session
  BY DEF SocketUp, SocketDrops, FullTeardown, TeardownPeer, peerVars
<1>2. CASE SocketUp
  <2>1. Negotiating' = Negotiating /\ sock = "down" /\ sock' = "up"
    BY <1>2 DEF SocketUp, Negotiate, Negotiating
  <2>2. phase # "disposed"
    BY <2>1 DEF Inv, DisposedLeavesNothing
  <2>3. CASE phase = "starting"
    <3>1. phase' = "ready" /\ ~Negotiating /\ session # "live"
      BY <1>1, <1>2, <2>3 DEF SocketUp, Inv, NegotiatesAlone, Negotiating
    <3>2. Handle!Begins
      BY <1>1, <2>1, <2>3, <3>1, Seen DEF View, Handle!Begins
    <3> QED
      BY <3>2 DEF Handle!Next
  <2>4. CASE phase = "failed"
    BY <1>1, <1>2, <2>1, <2>4, Quietly DEF SocketUp, SignalingSeen
  <2>5. CASE phase = "ready"
    <3>1. Handle!Returns
      BY <1>1, <1>2, <2>1, <2>5, Seen DEF View, SocketUp, Handle!Returns
    <3> QED
      BY <3>1 DEF Handle!Next
  <2> QED
    BY <2>2, <2>3, <2>4, <2>5 DEF Inv, TypeOK
<1>3. ASSUME NEW b \in BOOLEAN, SocketDrops(b)
      PROVE  [Handle!Next]_(Handle!vars)
  <2>1. sock = "up" /\ sock' # "up" /\ phase' = phase
    BY <1>3 DEF SocketDrops, FullTeardown
  <2>2. Negotiating' => Negotiating
    BY <1>3 DEF SocketDrops, Negotiating, Armed
  <2>3. CASE phase = "ready"
    <3>1. Handle!Loses
      BY <1>1, <2>1, <2>2, <2>3, Seen DEF View, Handle!Loses, Handle!MayReject
    <3> QED
      BY <3>1 DEF Handle!Next
  <2>4. CASE phase \in {"starting", "failed"}
    <3>1. ~Negotiating
      BY <2>4 DEF Inv, NegotiatesAlone, Negotiating
    <3> QED
      BY <1>1, <2>1, <2>2, <2>4, <3>1, Quietly DEF SignalingSeen, Negotiating
  <2> QED
    BY <2>1, <2>3, <2>4 DEF Inv, TypeOK, DisposedLeavesNothing
<1> QED
  BY <1>2, <1>3

\* connect() is called, resolves or rejects.
LEMMA ConnectSteps ==
  ASSUME Inv, Inv', Connect \/ PauseOver \/ ControlOpens \/ OpenFails \/ WaitFails
  PROVE  [Handle!Next]_(Handle!vars)
<1>1. phase' = phase /\ (sock' = "up" <=> sock = "up")
  BY DEF Connect, PauseOver, ControlOpens, OpenFails, WaitFails, FullTeardown, sigVars,
         Inv, NegotiatesAlone
<1>2. SignalingSeen' = SignalingSeen
  BY <1>1, Seen DEF View
<1>3. CASE Connect
  <2>1. /\ phase \in {"ready", "disposed"} /\ ~Negotiating /\ session = "none"
        /\ Negotiating' /\ session' = session
    BY <1>3 DEF Connect, Negotiate, Negotiating
  <2>2. Handle!Connects("connect")
    BY <1>2, <2>1, Seen DEF View, Handle!Connects
  <2> QED
    BY <2>2 DEF Handle!Next
<1>4. CASE GoLive /\ Negotiating /\ (PauseOver \/ ControlOpens)
  <2>1. Negotiating /\ ctl # "none" /\ ~Negotiating' /\ session' = "live"
    BY <1>4 DEF GoLive, PauseOver, ControlOpens, Negotiating, Inv, NegotiatesAlone
  <2>2. phase = "ready" /\ session # "live"
    BY <2>1 DEF Inv, TypeOK, DisposedLeavesNothing, NegotiatesAlone, Negotiating
  <2>3. Handle!Resolves
    BY <1>2, <2>1, <2>2, Seen DEF View, Handle!Resolves, Handle!Stands
  <2> QED
    BY <2>3 DEF Handle!Next
<1>5. CASE session' = session /\ Negotiating' = Negotiating
  BY <1>2, <1>5, Quietly
<1>6. CASE session' = session /\ Negotiating /\ ~Negotiating'
  <2>1. Handle!Rejects
    BY <1>2, <1>6, Seen DEF View, Handle!Rejects
  <2> QED
    BY <2>1 DEF Handle!Next
<1> QED
  BY <1>3, <1>4, <1>5, <1>6 DEF PauseOver, ControlOpens, OpenFails, WaitFails, Negotiating

LEMMA DisposeStep ==
  ASSUME Inv, Inv', Dispose
  PROVE  [Handle!Next]_(Handle!vars)
<1>1. /\ phase \in {"ready", "disposed"} /\ phase' = "disposed" /\ session' # "live"
      /\ Negotiating' => Negotiating
  BY DEF Dispose, Negotiating
<1>2. CASE phase = "ready"
  <2>1. Handle!Disposes
    BY <1>1, <1>2, Seen DEF View, Handle!Disposes, Handle!Stands, Handle!MayReject
  <2> QED
    BY <2>1 DEF Handle!Next
<1>3. CASE phase = "disposed"
  <2>1. pc \notin Armed /\ session # "live"
    BY <1>3 DEF Inv, ArmedOnLiveSocket, DisposedLeavesNothing
  <2>2. Negotiating' = Negotiating
    BY <2>1 DEF Dispose, Negotiating
  <2> QED
    BY <1>1, <1>3, <2>1, <2>2, Quietly DEF SignalingSeen
<1> QED
  BY <1>1, <1>2, <1>3

\* The provider keeps the contract of a pairing handle, in every order of drops,
\* offers, departures, close() and dispose(): connect() goes live only as an
\* answer and on a handle that stands, every end is told, and nothing comes back
\* after dispose() (signaling/index.ts 114-153).
THEOREM ProviderKeepsHandle == Spec => KeepsHandle
<1>1. Init => Handle!Init
  BY DEF Init, Handle!Init, SignalingSeen, ChannelSeen, Negotiating
<1>2. Inv /\ Inv' /\ [Next]_vars => [Handle!Next]_(Handle!vars)
  <2> SUFFICES ASSUME Inv, Inv', [Next]_vars PROVE [Handle!Next]_(Handle!vars)
    OBVIOUS
  <2>1. Handle!Closes => Handle!Next
    BY DEF Handle!Next
  <2> QED
    BY <2>1, ClosingSteps, QuietSteps, SocketSteps, ConnectSteps, DisposeStep DEF Next
<1> QED
  BY <1>1, <1>2, Initially, Inductive, PTL DEF Spec, KeepsHandle, Handle!Spec
=============================================================================
