---------------------------- MODULE GatewayLink ----------------------------
(***************************************************************************)
(* The gateway adapter's connection (packages/ac2-cli/src/runtime/gateway/ *)
(* adapter.ts: connect, scheduleReconnect, the subscriptions and the run   *)
(* slot) with the RPC client's handshake (client.ts) over a WebSocket      *)
(* (connection.ts).  Connections are numbered in the order connect() makes *)
(* them; the code never refers to an old one, but its callbacks live on.   *)
(*                                                                         *)
(* An event handler and the promise callbacks it makes runnable are one    *)
(* step.  Time is abstract: reconnectAttempt, which only selects a delay,  *)
(* is left out.                                                            *)
(***************************************************************************)
EXTENDS Naturals

CONSTANTS
  MaxConnections,   \* bound: connections made
  SessionKeys,      \* sessions whose messages are subscribed to
  SessionEvents     \* the registry of sessions.subscribe

ASSUME MaxConnectionsAssumption == MaxConnections \in Nat \ {0}
ASSUME SessionEventsAssumption == SessionEvents \notin SessionKeys

VARIABLES
  signed,           \* a device identity is configured
  promptClose,      \* an open socket the adapter closes reports it before the
                    \* reconnect delay is over; FALSE: a half-open one need not
  started,          \* start() has got to its connect()
  stopped,
  made,             \* connections made so far
  link,             \* per connection: its socket, its client and what the
                    \* gateway holds of it
  client,           \* the connection of the current client, or None
  reconnectTimer,   \* armed or not
  subscribed,       \* sessionEventsSubscribed and subscribedSessionKeys
  activeRun,        \* the turn's run is in the slot events are matched with
  turn,             \* where handleInbound is, if a turn is under way
  walletLeft        \* history: onDisconnected came after the run was published

envVars == <<signed, promptClose>>
runVars == <<activeRun, turn, walletLeft>>
vars == <<envVars, started, stopped, made, link, client, reconnectTimer,
          subscribed, runVars>>

None == 0
Connections == 1..MaxConnections
Topics == SessionKeys \cup {SessionEvents}
Live == {"connecting", "open"}
Closing == {"failing", "closing"}

Turns == [at : {"none"}, on : {None}, key : {SessionEvents}] \cup
         [at : {"subscribing", "calling", "waiting"}, on : Connections,
          key : SessionKeys]
NoTurn == [at |-> "none", on |-> None, key |-> SessionEvents]

\* asked is history; registered is what the gateway keeps per connection.
Links == [ws : {"unused", "connecting", "open", "failing", "closing", "closed"},
          ready : {"pending", "ok", "failed"},
          connectSent : BOOLEAN, challengeTimer : BOOLEAN,
          signing : Nat, frames : Nat,
          asking : SUBSET Topics, asked : SUBSET Topics,
          registered : SUBSET Topics]

TypeOK ==
  /\ signed \in BOOLEAN /\ promptClose \in BOOLEAN
  /\ started \in BOOLEAN /\ stopped \in BOOLEAN
  /\ made \in 0..MaxConnections
  /\ link \in [Connections -> Links]
  /\ client \in {None} \cup Connections
  /\ reconnectTimer \in BOOLEAN
  /\ subscribed \subseteq Topics
  /\ activeRun \in BOOLEAN /\ walletLeft \in BOOLEAN
  /\ turn \in Turns

Fresh == [ws |-> "connecting", ready |-> "pending", connectSent |-> FALSE,
          challengeTimer |-> FALSE, signing |-> 0, frames |-> 0,
          asking |-> {}, asked |-> {}, registered |-> {}]
Unused == [Fresh EXCEPT !.ws = "unused"]

Init ==
  /\ signed \in BOOLEAN /\ promptClose \in BOOLEAN
  /\ started = FALSE /\ stopped = FALSE
  /\ made = 0 /\ link = [c \in Connections |-> Unused]
  /\ client = None /\ reconnectTimer = FALSE
  /\ subscribed = {}
  /\ activeRun = FALSE /\ turn = NoTurn /\ walletLeft = FALSE

-----------------------------------------------------------------------------
(* The client's handshake: operators on one connection. *)

\* The end of sendConnect; it sends nothing once the handshake is decided.
Transmit(k) ==
  IF k.ready = "pending" THEN [k EXCEPT !.frames = @ + 1] ELSE k

\* Mutant: connectSent is only set once the signature is there.
SendConnect_MarksLate(k, withSignature) ==
  LET marked == [k EXCEPT !.connectSent = ~withSignature, !.challengeTimer = FALSE]
  IN  IF k.connectSent THEN k
      ELSE IF withSignature THEN [marked EXCEPT !.signing = @ + 1]
                            ELSE Transmit(marked)

\* sendConnect up to its await.
SendConnect(k, withSignature) ==
  LET marked == [k EXCEPT !.connectSent = TRUE, !.challengeTimer = FALSE]
  IN  IF k.connectSent THEN k
      ELSE IF withSignature THEN [marked EXCEPT !.signing = @ + 1]
                            ELSE Transmit(marked)

SettleReadyErr(k) == IF k.ready = "pending" THEN [k EXCEPT !.ready = "failed"] ELSE k

\* WebSocket.close(): the event comes later, at once if it was connecting.
CloseSocket(k) ==
  CASE k.ws = "connecting" -> [k EXCEPT !.ws = "failing"]
    [] k.ws = "open" -> [k EXCEPT !.ws = "closing"]
    [] OTHER -> k

\* request() of a subscription: send throws unless the socket is open.
Ask(k, topic) ==
  IF k.ws = "open"
  THEN [k EXCEPT !.asking = @ \cup {topic}, !.asked = @ \cup {topic}]
  ELSE k

\* One of them is over, and the gateway has added to its registry.
Answered(k, topic, added) ==
  [k EXCEPT !.asking = @ \ {topic}, !.registered = @ \cup added]

\* The pending requests are rejected, the gateway forgets the connection.
Dead(k) == [SettleReadyErr(k) EXCEPT !.ws = "closed", !.challengeTimer = FALSE,
                                     !.asking = {}, !.registered = {}]

-----------------------------------------------------------------------------
ScheduleReconnect == reconnectTimer' = (reconnectTimer \/ ~stopped)

\* connect(), from start() or the timer.
Connect ==
  /\ made < MaxConnections
  /\ made' = made + 1
  /\ link' = [link EXCEPT ![made + 1] = Fresh]
  /\ client' = made + 1

\* start(): its keystore reads are over; neither of them can fail it.
Start ==
  /\ ~started
  /\ started' = TRUE
  /\ IF stopped THEN UNCHANGED <<made, link, client>> ELSE Connect
  /\ UNCHANGED <<envVars, stopped, reconnectTimer, subscribed, runVars>>

ReconnectTimerFires ==
  /\ reconnectTimer
  /\ \A c \in Connections : link[c].ws # "failing"
  /\ promptClose => \A c \in Connections : link[c].ws # "closing"
  /\ reconnectTimer' = FALSE
  /\ Connect
  /\ UNCHANGED <<envVars, started, stopped, subscribed, runVars>>

Stop ==
  /\ ~stopped
  /\ stopped' = TRUE
  /\ reconnectTimer' = FALSE
  /\ client' = None
  /\ link' = [c \in Connections |->
                IF c = client THEN CloseSocket(link[c]) ELSE link[c]]
  /\ UNCHANGED <<envVars, started, made, subscribed, runVars>>

-----------------------------------------------------------------------------
(* Events of a connection. *)

OnLink(c, k) ==
  /\ link' = [link EXCEPT ![c] = k]
  /\ UNCHANGED <<envVars, started, stopped, made, client, reconnectTimer,
                 subscribed, runVars>>

Opens(c) ==
  /\ link[c].ws = "connecting"
  /\ LET k == [link[c] EXCEPT !.ws = "open"]
     IN  OnLink(c, IF signed THEN [k EXCEPT !.challengeTimer = TRUE]
                             ELSE SendConnect(k, FALSE))

\* The gateway may leave the nonce out, or challenge twice.
Challenge(c) ==
  /\ link[c].ws = "open"
  /\ \E nonce \in BOOLEAN : OnLink(c, SendConnect(link[c], signed /\ nonce))

ChallengeTimerFires(c) ==
  /\ link[c].challengeTimer
  /\ OnLink(c, SendConnect([link[c] EXCEPT !.challengeTimer = FALSE], FALSE))

\* The keystore signed, or refused to: either way the request goes out.
SignatureDone(c) ==
  /\ link[c].signing > 0
  /\ OnLink(c, Transmit([link[c] EXCEPT !.signing = @ - 1, !.connectSent = TRUE]))

\* completeHandshake with the scopes it needs, and ready.then: the current
\* client, which need not be this one, subscribes to the session events.
HelloOk(c) ==
  /\ link[c].ws = "open" /\ link[c].frames > 0 /\ link[c].ready = "pending"
  /\ LET l == [link EXCEPT ![c].ready = "ok"]
     IN  link' = IF SessionEvents \in subscribed \/ client = None THEN l
                 ELSE [l EXCEPT ![client] = Ask(@, SessionEvents)]
  /\ UNCHANGED <<envVars, started, stopped, made, client, reconnectTimer,
                 subscribed, runVars>>

\* Mutant: only a close makes the adapter try again.
HandshakeFails_WaitsForClose(c) ==
  /\ link[c].ready = "pending"
  /\ link' = [link EXCEPT ![c].ready = "failed"]
  /\ UNCHANGED <<envVars, started, stopped, made, client, reconnectTimer,
                 subscribed, runVars>>

\* Mutant: the retry is left to the close callback.
HandshakeFails_LeavesRetry(c) ==
  /\ link[c].ready = "pending"
  /\ LET k == [link[c] EXCEPT !.ready = "failed"]
     IN  link' = [link EXCEPT ![c] = IF client = c THEN CloseSocket(k) ELSE k]
  /\ client' = IF client = c THEN None ELSE client
  /\ UNCHANGED <<envVars, started, stopped, made, reconnectTimer, subscribed,
                 runVars>>

\* ready rejects while the socket is up, and ready.catch.
HandshakeFails(c) ==
  /\ link[c].ready = "pending"
  /\ LET k == [link[c] EXCEPT !.ready = "failed"]
     IN  link' = [link EXCEPT ![c] = IF client = c THEN CloseSocket(k) ELSE k]
  /\ IF client = c THEN client' = None /\ ScheduleReconnect
                   ELSE UNCHANGED <<client, reconnectTimer>>
  /\ UNCHANGED <<envVars, started, stopped, made, subscribed, runVars>>

\* connectTimer.
ConnectTimeout(c) == link[c].ws # "unused" /\ HandshakeFails(c)

\* A refusal, missing scopes, or a frame of another type.
Refused(c) == link[c].ws = "open" /\ HandshakeFails(c)

\* Mutant: the subscriptions outlive the connection.
Closes_KeepsFlags(c) ==
  /\ link[c].ws \in Live \cup Closing
  /\ link' = [link EXCEPT ![c] = Dead(@)]
  /\ client' = IF client = c THEN None ELSE client
  /\ activeRun' = FALSE
  /\ turn' = IF turn.on = c /\ turn.at # "subscribing" THEN NoTurn ELSE turn
  /\ ScheduleReconnect
  /\ UNCHANGED <<envVars, started, stopped, made, subscribed, walletLeft>>

\* close or error: the client's callback, then the adapter's.  A request of
\* the turn on this connection is rejected, which ends the turn.
Closes(c) ==
  /\ link[c].ws \in Live \cup Closing
  /\ link' = [link EXCEPT ![c] = Dead(@)]
  /\ client' = IF client = c THEN None ELSE client
  /\ subscribed' = {}
  /\ activeRun' = FALSE
  /\ turn' = IF turn.on = c /\ turn.at # "subscribing" THEN NoTurn ELSE turn
  /\ ScheduleReconnect
  /\ UNCHANGED <<envVars, started, stopped, made, walletLeft>>

-----------------------------------------------------------------------------
(* Subscriptions and the turn. *)

\* The gateway registered the connection and says so.
Subscribed(c, topic) ==
  /\ link[c].ws = "open" /\ link[c].ready = "ok"
  /\ topic \in link[c].asking
  /\ link' = [link EXCEPT ![c] = Answered(@, topic, {topic})]
  /\ subscribed' = subscribed \cup {topic}
  /\ UNCHANGED <<envVars, started, stopped, made, client, reconnectTimer,
                 runVars>>

\* It refuses, or the request times out, whether it registered or not.
SubscribeFails(c, topic) ==
  /\ topic \in link[c].asking
  /\ \E extra \in SUBSET {topic} :
       /\ extra # {} => link[c].ws = "open" /\ link[c].ready = "ok"
       /\ OnLink(c, Answered(link[c], topic, extra))

UpAndReady == client # None /\ link[client].ready = "ok"

\* onConversation, up to ensureSubscribed.
Hydrate(key) ==
  /\ UpAndReady /\ key \notin subscribed
  /\ OnLink(client, Ask(link[client], key))

\* handleInbound with a client that is ready, up to ensureSubscribed.
StartTurn(key) ==
  /\ turn = NoTurn /\ UpAndReady
  /\ turn' = [at |-> "subscribing", on |-> client, key |-> key]
  /\ link' = IF key \in subscribed THEN link
             ELSE [link EXCEPT ![client] = Ask(@, key)]
  /\ UNCHANGED <<envVars, started, stopped, made, client, reconnectTimer,
                 subscribed, activeRun, walletLeft>>

\* The `agent` request, whether or not the subscription succeeded; without a
\* client, or on one that is not open, it throws and the turn ends.
CallAgent ==
  /\ turn.at = "subscribing" /\ turn.key \notin link[turn.on].asking
  /\ turn' = IF client # None /\ link[client].ws = "open"
             THEN [turn EXCEPT !.at = "calling", !.on = client] ELSE NoTurn
  /\ UNCHANGED <<envVars, started, stopped, made, link, client, reconnectTimer,
                 subscribed, activeRun, walletLeft>>

AgentAnswers ==
  /\ turn.at = "calling"
  /\ link[turn.on].ws = "open" /\ link[turn.on].ready = "ok"
  /\ turn' = [turn EXCEPT !.at = "waiting"]
  /\ activeRun' = TRUE /\ walletLeft' = FALSE
  /\ UNCHANGED <<envVars, started, stopped, made, link, client, reconnectTimer,
                 subscribed>>

\* agent or agent.wait answers, refuses or times out.
TurnEnds ==
  /\ turn.at \in {"calling", "waiting"}
  /\ turn' = NoTurn
  /\ activeRun' = FALSE
  /\ UNCHANGED <<envVars, started, stopped, made, link, client, reconnectTimer,
                 subscribed, walletLeft>>

\* onDisconnected.
WalletDisconnects ==
  /\ activeRun' = FALSE /\ walletLeft' = TRUE
  /\ subscribed' = subscribed \cap {SessionEvents}
  /\ UNCHANGED <<envVars, started, stopped, made, link, client, reconnectTimer,
                 turn>>

-----------------------------------------------------------------------------
Handshake(c) ==
  \/ Opens(c) \/ Challenge(c) \/ ChallengeTimerFires(c) \/ SignatureDone(c)
  \/ HelloOk(c) \/ ConnectTimeout(c) \/ Refused(c) \/ Closes(c)

Next ==
  \/ Start \/ ReconnectTimerFires \/ Stop
  \/ \E c \in Connections :
       \/ Handshake(c)
       \/ \E topic \in Topics : Subscribed(c, topic) \/ SubscribeFails(c, topic)
  \/ \E key \in SessionKeys : Hydrate(key) \/ StartTurn(key)
  \/ CallAgent \/ AgentAnswers \/ TurnEnds \/ WalletDisconnects

\* Timers fire, the keystore answers, a socket being closed gets closed.
Fairness ==
  /\ WF_vars(Start) /\ WF_vars(ReconnectTimerFires)
  /\ \A c \in Connections :
       /\ WF_vars(ConnectTimeout(c))
       /\ WF_vars(link[c].ws \in Closing /\ Closes(c))

Spec == Init /\ [][Next]_vars /\ Fairness

-----------------------------------------------------------------------------
(* A started adapter that is not stopped has a client whose handshake can   *)
(* still succeed, or a retry armed (adapter.ts 1259-1283): a rejected       *)
(* handshake on a socket that stays open must not park it for ever.         *)
NeverStranded ==
  started /\ ~stopped =>
    \/ reconnectTimer
    \/ client # None /\ link[client].ready # "failed"
       /\ link[client].ws \in Live

\* One connect request per connection (client.ts 258-260), whatever the order
\* of the challenge, its timer and the signature.
HandshakeOnce == \A c \in Connections : link[c].frames <= 1

\* Nothing is sent on a connection whose handshake is already decided
\* (client.ts 306-308), even when the signature comes later.
QuietAfterVerdict ==
  [][\A c \in Connections :
       link[c].ready # "pending" => link'[c].frames = link[c].frames]_vars

\* A socket that is up is the current client's: none is left behind with
\* its callbacks, not even after stop.
SocketIsClients ==
  promptClose => \A c \in Connections : link[c].ws \in Live => client = c

\* What the adapter believes to be subscribed "on the current connection"
\* (adapter.ts 817-819) is: after a reconnect nothing is skipped.
FlagsDescribeLink ==
  client # None => subscribed \subseteq link[client].registered
FlagsDescribePromptLink == promptClose => FlagsDescribeLink

\* Every connection that completes its handshake asks for the session events
\* (adapter.ts 1318-1319): a flag left from the one before would silence it.
EventsAskedFor ==
  promptClose /\ UpAndReady => SessionEvents \in link[client].asked

\* While agent.wait is pending and the wallet stayed, its run is in the slot
\* that events are matched with.
RunIsTracked ==
  promptClose /\ turn.at = "waiting" /\ ~walletLeft => activeRun

\* As long as sockets report their close before the next connection is made,
\* nothing of an old connection is mistaken for the current one's, and nothing
\* of the current one is lost (adapter.ts 1285-1293).
PromptLinkIsClean ==
  SocketIsClients /\ FlagsDescribePromptLink /\ EventsAskedFor /\ RunIsTracked

\* A connection that failed or died is followed by another, for as long as
\* the adapter runs (and connections are left to make).
Recovers ==
  \A c \in Connections :
    link[c].ready = "failed" ~> client > c \/ stopped \/ made = MaxConnections
=============================================================================
