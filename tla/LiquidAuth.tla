----------------------------- MODULE LiquidAuth -----------------------------
(***************************************************************************)
(* One pairing handle of the Liquid Auth provider (packages/ac2-sdk/src/   *)
(* providers/liquid-auth.ts): its signaling socket, which outlives the     *)
(* sessions on it, and the peer connection that connect() negotiates over  *)
(* it.  Three judges decide that a wallet left: presence, its own offers,  *)
(* and the heartbeat.                                                      *)
(*                                                                         *)
(* The caller keeps to PairingHandle: it calls connect() again when a      *)
(* session is over, one at a time, and dispose() whenever it likes.        *)
(***************************************************************************)
EXTENDS Naturals

CONSTANTS
  MayStrand,         \* TRUE: a wallet may lose the peer connection it offered
                     \* before a data channel of it has come
  MayRecount         \* TRUE: the server may count the room anew when our
                     \* socket comes back, for less than the grace

ASSUME SwitchAssumption == MayStrand \in BOOLEAN /\ MayRecount \in BOOLEAN

VARIABLES
  phase,             \* "starting", "failed", "ready" or "disposed"
  sock,              \* "down": socket.io (re)connects; "dead": the server ended
                     \* it; "off": we did
  stable, grace,     \* signalingStable, and its timer
  wake,              \* wakeCheckTimer runs
  peerLinked, closed, connected,
  bound,             \* close is the function of some connect()
  pc,                \* the await connect() is at; negotiating unless "idle"
  peerClient,        \* the SignalClient has a peer connection
  ctl, hb,           \* controlChannel, heartbeatChannel
  beat,              \* the heartbeat interval runs
  silence,           \* since lastInboundAt: "short", past the "soft" or "hard" limit
  ignored,           \* a presence drop was passed over, for instability alone
  session,           \* the caller's channel: "none", "live", or told it "ended"
  wallet,            \* "here" (in the room of the requestId) or "away"
  mate,              \* the wallet's end of the latest peer connection lives
  recount            \* the server has not counted the wallet again yet

sigVars == <<sock, stable, grace, wake>>
flagVars == <<peerLinked, closed, connected, bound>>
peerVars == <<peerClient, ctl, hb, beat, silence, ignored>>
walletVars == <<wallet, mate, recount>>
vars == <<phase, sigVars, flagVars, pc, peerVars, session, walletVars>>

Armed == {"link", "offer", "answer"}

TypeOK ==
  /\ phase \in {"starting", "failed", "ready", "disposed"}
  /\ sock \in {"down", "up", "dead", "off"}
  /\ pc \in {"idle", "wait", "link", "offer", "answer", "pause", "opening"}
  /\ ctl \in {"none", "connecting", "open", "closed"}
  /\ hb \in {"none", "open"}
  /\ silence \in {"short", "soft", "hard"}
  /\ session \in {"none", "live", "ended"}
  /\ wallet \in {"here", "away"}
  /\ {stable, grace, wake, peerLinked, closed, connected, bound, peerClient,
      beat, ignored, mate, recount} \subseteq BOOLEAN

\* startPairing has built its socket, which connects by itself.
Init ==
  /\ phase = "starting"
  /\ sock = "down" /\ stable = FALSE /\ grace = FALSE /\ wake = TRUE
  /\ peerLinked = FALSE /\ closed = FALSE /\ connected = FALSE /\ bound = FALSE
  /\ pc = "idle" /\ session = "none"
  /\ peerClient = FALSE /\ ctl = "none" /\ hb = "none"
  /\ beat = FALSE /\ silence = "short" /\ ignored = FALSE
  /\ wallet \in {"here", "away"} /\ mate = FALSE /\ recount = FALSE

-----------------------------------------------------------------------------
(* Tearing down. *)

\* The channels and the peer connection go, and with it the wallet's end of it.
TeardownPeer ==
  /\ peerClient' = FALSE
  /\ ctl' = "none" /\ hb' = "none"
  /\ beat' = FALSE /\ silence' = "short"
  /\ ignored' = FALSE
  /\ mate' = FALSE

\* Mutant: the wake timer goes on, and connects a socket that was given up.
FullTeardown_KeepsTimer ==
  /\ TeardownPeer
  /\ sock' = "off"
  /\ stable' = FALSE /\ grace' = FALSE
  /\ UNCHANGED wake

\* Nothing of this socket runs on.
FullTeardown ==
  /\ TeardownPeer
  /\ sock' = "off"
  /\ stable' = FALSE /\ grace' = FALSE
  /\ wake' = FALSE

\* Mutant: the peer goes, the consumer is not told.
Close_Silently ==
  /\ closed' = TRUE /\ connected' = FALSE
  /\ TeardownPeer
  /\ UNCHANGED session

\* close(), while it is not closed yet: the peer goes and the consumer is told.
Close ==
  /\ closed' = TRUE /\ connected' = FALSE
  /\ TeardownPeer
  /\ session' = IF session = "live" THEN "ended" ELSE session

Keep == UNCHANGED <<closed, connected, peerVars, session>>

-----------------------------------------------------------------------------
(* Who decides that the wallet left. *)
Negotiating == pc # "idle"

ShouldTeardownOnPresence(count) ==
  /\ peerLinked /\ ~closed
  /\ count <= 1
  /\ ~(Negotiating /\ ~connected)
  /\ ~(connected /\ ~stable)

ShouldCloseOnHeartbeat == silence = "hard" \/ (silence = "soft" /\ sock # "up")

\* Mutant: an offer on a link that counts as live is somebody else's business.
ShouldTeardownOnOffer_Never == FALSE

ShouldTeardownOnOffer == ~closed /\ ~Negotiating /\ connected

\* The presence handler, for an event after which the wallet's end is m.
Told(count, m) ==
  IF ShouldTeardownOnPresence(count) /\ bound THEN Close
  ELSE /\ mate' = m
       /\ ignored' = (count <= 1 /\ (ignored \/ (peerLinked /\ connected /\ ~closed /\ ~stable)))
       /\ UNCHANGED <<closed, connected, peerClient, ctl, hb, beat, silence, session>>

\* It reaches us if our socket is up.
TellIfUp(count, m) == IF sock = "up" THEN Told(count, m) ELSE Keep /\ mate' = m

-----------------------------------------------------------------------------
(* startPairing and the signaling socket. *)

\* Mutant: a socket that is down already is not noticed.
Negotiate_Trusting == pc' = "link" /\ peerClient' = TRUE

\* peer() is called and guarded; on a socket that is down the guard trips at
\* once, the peer is torn down, and connect() waits for the socket.
Negotiate ==
  IF sock' = "up" THEN pc' = "link" /\ peerClient' = TRUE
  ELSE pc' = "wait" /\ peerClient' = FALSE

\* awaitSignalConnect resolves, or socket.io brought the socket back: after the
\* grace it counts as stable, and a waiting connect() negotiates again.
SocketUp ==
  /\ sock = "down"
  /\ sock' = "up"
  /\ recount' \in IF MayRecount /\ wallet = "here" THEN BOOLEAN ELSE {FALSE}
  /\ phase' = IF phase = "starting" THEN "ready" ELSE phase
  /\ grace' = TRUE
  /\ IF pc = "wait" THEN Negotiate ELSE UNCHANGED <<pc, peerClient>>
  /\ UNCHANGED <<stable, wake, flagVars, ctl, hb, beat, silence, ignored,
                 session, wallet, mate>>

\* Mutant: the timer of an earlier connect goes on over the drop.
MarkUnstable_KeepsTimer == stable' = FALSE /\ UNCHANGED grace

MarkUnstable == stable' = FALSE /\ grace' = FALSE

\* The socket drops; `terminal` if socket.io will not reconnect.  The guard of a
\* negotiation under way trips: the peer goes, or everything does.
SocketDrops(terminal) ==
  /\ sock = "up"
  /\ recount' = FALSE
  /\ \/ /\ pc \in Armed /\ terminal
        /\ FullTeardown
        /\ pc' = "idle"
     \/ /\ pc \in Armed /\ ~terminal
        /\ sock' = "down" /\ MarkUnstable
        /\ TeardownPeer
        /\ pc' = "wait"
        /\ UNCHANGED wake
     \/ /\ pc \notin Armed
        /\ sock' = (IF terminal THEN "dead" ELSE "down")
        /\ MarkUnstable
        /\ UNCHANGED <<wake, pc, peerVars, mate>>
  /\ UNCHANGED <<phase, flagVars, session, wallet>>

\* A recount is over before the timer of the connect that began it fires.
GraceElapses ==
  /\ grace /\ ~recount
  /\ grace' = FALSE /\ stable' = TRUE
  /\ UNCHANGED <<phase, sock, wake, flagVars, pc, peerVars, session, walletVars>>

\* The clock jumped while the socket was not connected: connect it now.
WakeKick ==
  /\ wake
  /\ sock \in {"dead", "off"}
  /\ sock' = "down"
  /\ UNCHANGED <<phase, stable, grace, wake, flagVars, pc, peerVars, session, walletVars>>

\* No first connect within the deadline, or aborted: startPairing rejects.
StartFails ==
  /\ phase = "starting"
  /\ phase' = "failed"
  /\ sock' = "off"
  /\ UNCHANGED <<stable, grace, wake, flagVars, pc, peerVars, session, walletVars>>

-----------------------------------------------------------------------------
(* connect(). *)
Connect ==
  /\ phase \in {"ready", "disposed"}
  /\ ~Negotiating /\ session = "none"
  /\ closed' = FALSE /\ connected' = FALSE
  /\ sock' = sock /\ Negotiate
  /\ ctl' = "none" /\ hb' = "none" /\ beat' = FALSE
  /\ silence' = "short" /\ ignored' = FALSE /\ mate' = FALSE
  /\ UNCHANGED <<phase, stable, grace, wake, peerLinked, bound, session,
                 wallet, recount>>

\* The wallet's ack of link(), and its link-message.
WalletLinks ==
  /\ pc = "link" /\ sock = "up"
  /\ wallet = "here"
  /\ peerLinked' = TRUE
  /\ pc' = "offer"
  /\ UNCHANGED <<phase, sigVars, closed, connected, bound, peerVars, session, walletVars>>

\* A wallet without a peer connection offers one.  The one-shot listener of the
\* negotiation takes the offer; else it may prove that the peer restarted.
Offer ==
  /\ wallet = "here" /\ ~mate
  /\ sock = "up"
  /\ \/ /\ pc = "offer"
        /\ pc' = "answer"
        /\ mate' = TRUE
        /\ Keep
     \/ /\ ShouldTeardownOnOffer
        /\ Close
        /\ UNCHANGED pc
  /\ UNCHANGED <<phase, sigVars, peerLinked, bound, wallet, recount>>

\* The answered peer connection comes up, and peer() resolves.
DataChannel ==
  /\ pc = "answer" /\ mate
  /\ ctl' \in {"connecting", "open"}
  /\ hb' \in {"none", "open"}
  /\ pc' = "pause"
  /\ UNCHANGED <<phase, sigVars, flagVars, peerClient, beat, silence, ignored,
                 session, walletVars>>

\* The control channel is open: connect() resolves.
GoLive ==
  /\ pc' = "idle"
  /\ connected' = TRUE /\ bound' = TRUE
  /\ beat' = TRUE /\ silence' = "short"
  /\ session' = "live"

\* The 500 ms are over; a channel torn down meanwhile is undefined, and throws.
PauseOver ==
  /\ pc = "pause"
  /\ \/ /\ ctl = "open"
        /\ GoLive
     \/ /\ ctl # "open"
        /\ pc' = IF ctl = "none" THEN "idle" ELSE "opening"
        /\ UNCHANGED <<connected, bound, beat, silence, session>>
  /\ UNCHANGED <<phase, sigVars, peerLinked, closed, peerClient, ctl, hb, ignored, walletVars>>

ControlOpens ==
  /\ ctl = "connecting" /\ mate
  /\ ctl' = "open"
  /\ IF pc = "opening" THEN GoLive
     ELSE UNCHANGED <<pc, connected, bound, beat, silence, session>>
  /\ UNCHANGED <<phase, sigVars, peerLinked, closed, peerClient, hb, ignored, walletVars>>

\* The channel did not open within 10 s, or errs: connect() rejects.
OpenFails ==
  /\ pc = "opening"
  /\ pc' = "idle"
  /\ UNCHANGED <<phase, sigVars, flagVars, peerVars, session, walletVars>>

\* The socket stayed down for 45 s.
WaitFails ==
  /\ pc = "wait"
  /\ FullTeardown
  /\ pc' = "idle"
  /\ UNCHANGED <<phase, flagVars, session, wallet, recount>>

-----------------------------------------------------------------------------
(* The life of a session. *)

\* The transport notices that the other end is gone.
ControlCloses ==
  /\ ctl \in {"connecting", "open"} /\ ~mate
  /\ ctl' = "closed"
  /\ session' = IF session = "live" THEN "ended" ELSE session
  /\ UNCHANGED <<phase, sigVars, flagVars, pc, peerClient, hb, beat, silence,
                 ignored, walletVars>>

Quiet ==
  /\ beat /\ hb = "open" /\ silence # "hard"
  /\ silence' = IF silence = "short" THEN "soft" ELSE "hard"
  /\ UNCHANGED <<phase, sigVars, flagVars, pc, peerClient, ctl, hb, beat, ignored,
                 session, walletVars>>

Heard ==
  /\ beat /\ hb = "open" /\ mate
  /\ silence # "short"
  /\ silence' = "short"
  /\ UNCHANGED <<phase, sigVars, flagVars, pc, peerClient, ctl, hb, beat, ignored,
                 session, walletVars>>

\* A tick of the interval that finds the peer silent for too long.
HeartbeatCloses ==
  /\ beat /\ hb = "open" /\ ~closed
  /\ ShouldCloseOnHeartbeat
  /\ Close
  /\ UNCHANGED <<phase, sigVars, peerLinked, bound, pc, wallet, recount>>

\* The caller closes its channel: it is done with it, or was told it ended.
CallerCloses ==
  /\ session # "none"
  /\ session' = "none"
  /\ IF closed THEN UNCHANGED <<closed, connected, peerVars, mate>>
     ELSE closed' = TRUE /\ connected' = FALSE /\ TeardownPeer
  /\ UNCHANGED <<phase, sigVars, peerLinked, bound, pc, wallet, recount>>

\* dispose(): a negotiation under way hears the disconnect, the user of a live
\* channel its close.
Dispose ==
  /\ phase \in {"ready", "disposed"}
  /\ phase' = "disposed"
  /\ closed' = TRUE /\ connected' = FALSE
  /\ FullTeardown
  /\ pc' = IF pc \in Armed THEN "idle" ELSE pc
  /\ session' = IF session = "live" THEN "ended" ELSE session
  /\ UNCHANGED <<peerLinked, bound, wallet, recount>>

-----------------------------------------------------------------------------
(* The wallet. *)
MayVanish == MayStrand \/ pc # "answer"

WalletLeaves ==
  /\ wallet = "here" /\ MayVanish
  /\ wallet' = "away"
  /\ recount' = FALSE
  /\ TellIfUp(1, FALSE)
  /\ UNCHANGED <<phase, sigVars, peerLinked, bound, pc>>

WalletReturns ==
  /\ wallet = "away"
  /\ wallet' = "here"
  /\ TellIfUp(2, mate)
  /\ UNCHANGED <<phase, sigVars, peerLinked, bound, pc, recount>>

\* Its data path dies while its socket stays in the room.
PathDies ==
  /\ wallet = "here" /\ mate /\ MayVanish
  /\ mate' = FALSE
  /\ UNCHANGED <<phase, sigVars, flagVars, pc, peerVars, session, wallet, recount>>

\* The server tells a count that misses the wallet, then the right one.
Recount(done) ==
  /\ recount
  /\ recount' = ~done
  /\ TellIfUp(IF done THEN 2 ELSE 1, mate)
  /\ UNCHANGED <<phase, sigVars, peerLinked, bound, pc, wallet>>

Next ==
  \/ SocketUp \/ GraceElapses \/ WakeKick \/ StartFails
  \/ \E b \in BOOLEAN : SocketDrops(b) \/ Recount(b)
  \/ Connect \/ WalletLinks \/ Offer \/ DataChannel \/ PauseOver
  \/ ControlOpens \/ OpenFails \/ WaitFails \/ ControlCloses
  \/ Quiet \/ Heard \/ HeartbeatCloses \/ CallerCloses \/ Dispose
  \/ WalletLeaves \/ WalletReturns \/ PathDies

\* Timers fire; the caller goes on once told; a wallet in the room keeps trying.
\* Nothing is assumed of the network.
Fairness ==
  /\ WF_vars(PauseOver) /\ WF_vars(OpenFails) /\ WF_vars(WaitFails)
  /\ WF_vars(~mate /\ Quiet) /\ WF_vars(HeartbeatCloses)
  /\ WF_vars(phase = "ready" /\ Connect) /\ WF_vars(session = "ended" /\ CallerCloses)
  /\ WF_vars(WalletLinks) /\ WF_vars(Offer)

Spec == Init /\ [][Next]_vars /\ Fairness

-----------------------------------------------------------------------------
\* connect() never waits for a wallet on a socket on which none can answer: a
\* drop, or a socket found down, is always followed by a wait for the socket
\* (425-440, 1494-1526).
ArmedOnLiveSocket == pc \in Armed => sock = "up"

\* No judge takes the peer connection from under a negotiation that waits for
\* the wallet: the handshake would crash when it comes (691-702, 1313-1318).
PeerClientStands == pc \in Armed => peerClient

\* Both together: a wallet that answers is heard, and its link can be completed.
NeverDeafOrBare == ArmedOnLiveSocket /\ PeerClientStands

\* Whoever ended it, a caller whose session is over is told: a live session has
\* its channel, and has it watched (1641-1652).
EndIsReported == session = "live" => ctl = "open" /\ connected /\ ~closed /\ beat

\* dispose() in the middle of whatever connect() awaits leaves nothing running:
\* no socket, no timer, no channel, and connect() does not go live (1694-1700).
DisposedLeavesNothing ==
  phase = "disposed" =>
    /\ sock = "off" /\ ~wake /\ ~grace /\ ~beat
    /\ ctl = "none" /\ ~connected /\ session # "live"

\* A wallet that is there and whose path works is not dropped for a blip of our
\* own signaling, a recount, or a silence shorter than the hard limit (549-559,
\* 728-751).
HealthyLinkStays ==
  [][session = "live" /\ session' = "ended" /\ mate /\ sock = "up"
     => wallet' = "away" \/ silence = "hard" \/ phase' = "disposed"]_vars

\* A wallet that stays in the room and keeps offering is answered, whatever
\* happened before: no "Reconnecting..." for ever (766-790).
OfferAnswered ==
  <>[](sock = "up" /\ wallet = "here") => []<>(mate \/ phase # "ready")

\* A peer whose heartbeat channel was up and that is gone without a trace is
\* closed in the end, even if presence still counts it (138-155).
DepartureNoticed == connected /\ ~mate /\ hb = "open" ~> ~connected

\* connect() of a disposed handle ends: the broker's loop relies on it
\* (ac2-cli/src/daemon/broker.ts 631-639).
DisposeEndsConnect == phase = "disposed" ~> pc = "idle"

\* The handle as its caller sees it.  A live session of a peer that is gone is a
\* state the contract does not know.
SignalingSeen ==
  CASE phase \in {"starting", "failed"} -> "none"
    [] phase = "disposed" -> "disposed"
    [] phase = "ready" -> IF sock = "up" THEN "alive" ELSE "lost"

ChannelSeen ==
  IF session # "live" THEN "closed" ELSE IF EndIsReported THEN "open" ELSE "untold"

Handle == INSTANCE PairingHandle WITH
  Calls <- {"connect"}, MayCrash <- FALSE,
  signaling <- SignalingSeen,
  waiting <- IF Negotiating THEN {"connect"} ELSE {},
  channel <- ChannelSeen

\* The provider keeps the contract of a pairing handle: in whatever order drops,
\* offers, departures, close() and dispose() come, connect() goes live only as an
\* answer to its caller and on a handle that stands, every end is told, and after
\* dispose() nothing comes back (signaling/index.ts 114-153; 1438-1443, 1694-1700).
KeepsHandle == Handle!Spec

\* A departure told during the grace is acted on as soon as it is over (558).
DepartureActedOn == ignored => ~stable
=============================================================================
