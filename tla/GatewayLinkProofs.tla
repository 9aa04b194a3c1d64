-------------------------- MODULE GatewayLinkProofs --------------------------
(***************************************************************************)
(* Theorems about GatewayLink, for any number of connections and sessions. *)
(***************************************************************************)
EXTENDS GatewayLink, TLAPS

-----------------------------------------------------------------------------
(* The operators on one connection keep to their type. *)

LEMMA FreshTypes == Fresh \in Links /\ Unused \in Links
  BY DEF Fresh, Unused, Links, Topics

LEMMA TransmitType ==
  ASSUME NEW k \in Links
  PROVE  Transmit(k) \in Links
  BY DEF Transmit, Links

LEMMA SendConnectType ==
  ASSUME NEW k \in Links, NEW w \in BOOLEAN
  PROVE  SendConnect(k, w) \in Links
<1> DEFINE marked == [k EXCEPT !.connectSent = TRUE, !.challengeTimer = FALSE]
<1>1. marked \in Links
  BY DEF Links
<1>2. \A j \in Links : [j EXCEPT !.signing = @ + 1] \in Links
  BY DEF Links
<1>3. Transmit(marked) \in Links
  BY <1>1, TransmitType
<1>4. CASE k.connectSent
  BY <1>4 DEF SendConnect
<1>5. CASE ~k.connectSent /\ w
  BY <1>1, <1>2, <1>5 DEF SendConnect
<1>6. CASE ~k.connectSent /\ ~w
  BY <1>3, <1>6 DEF SendConnect
<1> QED
  BY <1>4, <1>5, <1>6

LEMMA CloseSocketType ==
  ASSUME NEW k \in Links
  PROVE  CloseSocket(k) \in Links
  BY DEF CloseSocket, Links

LEMMA AskType ==
  ASSUME NEW k \in Links, NEW t \in Topics
  PROVE  Ask(k, t) \in Links
  BY DEF Ask, Links

LEMMA AnsweredType ==
  ASSUME NEW k \in Links, NEW t \in Topics, NEW e \in SUBSET {t}
  PROVE  Answered(k, t, e) \in Links
  BY DEF Answered, Links

LEMMA DeadType ==
  ASSUME NEW k \in Links
  PROVE  Dead(k) \in Links
  BY DEF Dead, SettleReadyErr, Links

LEMMA OnLinkType ==
  ASSUME TypeOK, NEW c \in Connections, NEW k \in Links, OnLink(c, k)
  PROVE  TypeOK'
  BY DEF TypeOK, OnLink, envVars, runVars

LEMMA ConnectType ==
  ASSUME TypeOK, Connect
  PROVE  /\ made' \in 0..MaxConnections
         /\ link' \in [Connections -> Links]
         /\ client' \in {None} \cup Connections
  BY FreshTypes, MaxConnectionsAssumption DEF TypeOK, Connect, Connections

-----------------------------------------------------------------------------
LEMMA TypeInit == Init => TypeOK
<1> SUFFICES ASSUME Init PROVE TypeOK
  OBVIOUS
<1>1. turn \in Turns
  BY DEF Init, Turns, NoTurn
<1>2. link \in [Connections -> Links]
  BY FreshTypes DEF Init
<1>3. made \in 0..MaxConnections
  BY MaxConnectionsAssumption DEF Init
<1>4. client \in {None} \cup Connections /\ subscribed \subseteq Topics
  BY DEF Init
<1>5. /\ signed \in BOOLEAN /\ promptClose \in BOOLEAN
      /\ started \in BOOLEAN /\ stopped \in BOOLEAN
      /\ reconnectTimer \in BOOLEAN
      /\ activeRun \in BOOLEAN /\ walletLeft \in BOOLEAN
  BY DEF Init
<1> QED
  BY <1>1, <1>2, <1>3, <1>4, <1>5 DEF TypeOK

LEMMA TypeStep == TypeOK /\ [Next]_vars => TypeOK'
<1> SUFFICES ASSUME TypeOK, [Next]_vars PROVE TypeOK'
  OBVIOUS
<1>0. link \in [Connections -> Links]
  BY DEF TypeOK
<1>1. CASE UNCHANGED vars
  BY <1>1 DEF TypeOK, vars, envVars, runVars
<1>2. CASE Start
  BY <1>2, ConnectType DEF TypeOK, Start, envVars, runVars
<1>3. CASE ReconnectTimerFires
  BY <1>3, ConnectType DEF TypeOK, ReconnectTimerFires, envVars, runVars
<1>4. CASE Stop
  BY <1>4, CloseSocketType DEF TypeOK, Stop, envVars, runVars, None
<1>5. ASSUME NEW c \in Connections, Opens(c) PROVE TypeOK'
  <2> DEFINE k == [link[c] EXCEPT !.ws = "open"]
  <2>1. k \in Links /\ [k EXCEPT !.challengeTimer = TRUE] \in Links
    BY <1>0 DEF Links
  <2>2. SendConnect(k, FALSE) \in Links
    BY <2>1, SendConnectType
  <2> QED
    BY <1>5, <2>1, <2>2, OnLinkType DEF Opens
<1>6. ASSUME NEW c \in Connections, Challenge(c) PROVE TypeOK'
  <2>1. PICK n \in BOOLEAN : OnLink(c, SendConnect(link[c], signed /\ n))
    BY <1>6 DEF Challenge
  <2>2. (signed /\ n) \in BOOLEAN
    BY DEF TypeOK
  <2> QED
    BY <1>0, <2>1, <2>2, SendConnectType, OnLinkType
<1>7. ASSUME NEW c \in Connections, ChallengeTimerFires(c) PROVE TypeOK'
  <2>1. [link[c] EXCEPT !.challengeTimer = FALSE] \in Links
    BY <1>0 DEF Links
  <2> QED
    BY <1>7, <2>1, SendConnectType, OnLinkType DEF ChallengeTimerFires
<1>8. ASSUME NEW c \in Connections, SignatureDone(c) PROVE TypeOK'
  <2>1. \A k \in Links, n \in Nat :
          [k EXCEPT !.signing = n, !.connectSent = TRUE] \in Links
    BY DEF Links
  <2>2. link[c].signing \in Nat /\ link[c].signing > 0
    BY <1>0, <1>8 DEF Links, SignatureDone
  <2>3. link[c].signing - 1 \in Nat
    BY <2>2
  <2>4. [link[c] EXCEPT !.signing = @ - 1, !.connectSent = TRUE] \in Links
    BY <1>0, <2>1, <2>3
  <2> QED
    BY <1>8, <2>4, TransmitType, OnLinkType DEF SignatureDone
<1>9. ASSUME NEW c \in Connections, HelloOk(c) PROVE TypeOK'
  <2> DEFINE l == [link EXCEPT ![c].ready = "ok"]
  <2>1. l \in [Connections -> Links]
    BY <1>0 DEF Links
  <2>2. client # None => [l EXCEPT ![client] = Ask(@, SessionEvents)]
                           \in [Connections -> Links]
    BY <2>1, AskType DEF TypeOK, Topics
  <2>3. link' \in [Connections -> Links]
    BY <1>9, <2>1, <2>2 DEF HelloOk
  <2> QED
    BY <1>9, <2>3 DEF TypeOK, HelloOk, envVars, runVars
<1>10. ASSUME NEW c \in Connections, HandshakeFails(c) PROVE TypeOK'
  <2>1. [link[c] EXCEPT !.ready = "failed"] \in Links
    BY <1>0 DEF Links
  <2>2. link' \in [Connections -> Links]
    BY <1>0, <1>10, <2>1, CloseSocketType DEF HandshakeFails
  <2> QED
    BY <1>10, <2>2
    DEF TypeOK, HandshakeFails, ScheduleReconnect, envVars, runVars
<1>11. ASSUME NEW c \in Connections, Closes(c) PROVE TypeOK'
  <2>1. link' \in [Connections -> Links]
    BY <1>0, <1>11, DeadType DEF Closes
  <2> QED
    BY <1>11, <2>1
    DEF TypeOK, Closes, ScheduleReconnect, envVars, runVars, Turns, NoTurn
<1>12. ASSUME NEW c \in Connections, NEW t \in Topics, Subscribed(c, t)
       PROVE  TypeOK'
  <2>1. Answered(link[c], t, {t}) \in Links
    BY <1>0, AnsweredType
  <2>2. link' \in [Connections -> Links]
    BY <1>0, <1>12, <2>1 DEF Subscribed
  <2> QED
    BY <1>12, <2>2 DEF TypeOK, Subscribed, envVars, runVars
<1>13. ASSUME NEW c \in Connections, NEW t \in Topics, SubscribeFails(c, t)
       PROVE  TypeOK'
  <2>1. PICK e \in SUBSET {t} : OnLink(c, Answered(link[c], t, e))
    BY <1>13 DEF SubscribeFails
  <2> QED
    BY <1>0, <2>1, AnsweredType, OnLinkType
<1>14. ASSUME NEW key \in SessionKeys, Hydrate(key) PROVE TypeOK'
  <2>1. client \in Connections /\ key \in Topics
    BY <1>14 DEF TypeOK, Hydrate, UpAndReady, Topics
  <2> QED
    BY <1>0, <1>14, <2>1, AskType, OnLinkType DEF Hydrate
<1>15. ASSUME NEW key \in SessionKeys, StartTurn(key) PROVE TypeOK'
  <2>1. client \in Connections /\ key \in Topics
    BY <1>15 DEF TypeOK, StartTurn, UpAndReady, Topics
  <2>2. link' \in [Connections -> Links]
    BY <1>0, <1>15, <2>1, AskType DEF StartTurn
  <2>3. turn' \in Turns
    BY <1>15, <2>1 DEF StartTurn, Turns
  <2> QED
    BY <1>15, <2>2, <2>3 DEF TypeOK, StartTurn, envVars
<1>16. CASE CallAgent
  <2>1. turn' \in Turns
    BY <1>16 DEF TypeOK, CallAgent, Turns, NoTurn
  <2> QED
    BY <1>16, <2>1 DEF TypeOK, CallAgent, envVars
<1>17. CASE AgentAnswers
  <2>1. turn' \in Turns
    BY <1>17 DEF TypeOK, AgentAnswers, Turns
  <2> QED
    BY <1>17, <2>1 DEF TypeOK, AgentAnswers, envVars
<1>18. CASE TurnEnds
  BY <1>18 DEF TypeOK, TurnEnds, envVars, Turns, NoTurn
<1>19. CASE WalletDisconnects
  BY <1>19 DEF TypeOK, WalletDisconnects, envVars
<1> QED
  BY <1>1, <1>2, <1>3, <1>4, <1>5, <1>6, <1>7, <1>8, <1>9, <1>10, <1>11,
     <1>12, <1>13, <1>14, <1>15, <1>16, <1>17, <1>18, <1>19
  DEF Next, Handshake, ConnectTimeout, Refused

\* The state keeps to its types.
THEOREM TypeCorrect == Spec => []TypeOK
  BY TypeInit, TypeStep, PTL DEF Spec

-----------------------------------------------------------------------------
(* The inductive invariant behind the safety properties. *)

\* One connect request is sent or about to be; the gateway registers only
\* connections it has greeted.
Sound(k) ==
  /\ k.signing + k.frames <= 1
  /\ k.signing + k.frames > 0 => k.connectSent
  /\ k.ready # "ok" => k.registered = {}
  /\ k.ready = "ok" => k.ws \notin {"unused", "connecting"}
  /\ k.ws = "unused" => k.ready = "pending"

\* Who is the client, and when a retry is armed.
Standing ==
  /\ client # None => link[client].ws \in Live /\ link[client].ready # "failed"
  /\ stopped => client = None /\ ~reconnectTimer
  /\ ~started => made = 0 /\ client = None /\ ~reconnectTimer /\ subscribed = {}
  /\ started /\ ~stopped => reconnectTimer \/ client # None
  /\ \A c \in Connections : c > made => link[c].ws = "unused"

\* With prompt closes there is one connection at a time.
OneAtATime ==
  /\ \A c, d \in Connections :
       link[c].ws \in Live \cup Closing /\ link[d].ws \in Live \cup Closing => c = d
  /\ \A c \in Connections : link[c].ws \in Live => client = c
  /\ reconnectTimer => client = None
  /\ client = None /\ ~stopped => subscribed = {}
  /\ client # None => subscribed \subseteq link[client].registered
  /\ UpAndReady => SessionEvents \in link[client].asked
  /\ turn.at \in {"calling", "waiting"} => link[turn.on].ws \in Live \cup Closing
  /\ turn.at = "waiting" /\ ~walletLeft => activeRun

Inv ==
  /\ TypeOK
  /\ \A c \in Connections : Sound(link[c])
  /\ Standing
  /\ promptClose => OneAtATime

\* What most handlers leave of a connection.
Keeps(k, j) ==
  /\ j.ws = k.ws \/ (k.ws = "connecting" /\ j.ws = "open")
  /\ j.ready = k.ready
  /\ k.asked \subseteq j.asked
  /\ k.registered \subseteq j.registered

LEMMA TransmitSound ==
  ASSUME NEW k \in Links, k.signing + k.frames = 0, k.connectSent, Sound(k)
  PROVE  Sound(Transmit(k)) /\ Keeps(k, Transmit(k))
  BY DEF Transmit, Sound, Keeps, Links

LEMMA SendConnectSound ==
  ASSUME NEW k \in Links, NEW w \in BOOLEAN, Sound(k)
  PROVE  Sound(SendConnect(k, w)) /\ Keeps(k, SendConnect(k, w))
<1> DEFINE marked == [k EXCEPT !.connectSent = TRUE, !.challengeTimer = FALSE]
<1>1. marked \in Links
  BY DEF Links
<1>2. CASE k.connectSent
  BY <1>2 DEF SendConnect, Keeps
<1>3. CASE ~k.connectSent
  <2>1. k.signing + k.frames = 0
    BY <1>3 DEF Sound, Links
  <2>2. /\ marked.signing + marked.frames = 0 /\ marked.connectSent
        /\ Sound(marked) /\ Keeps(k, marked)
    BY <2>1 DEF Sound, Keeps, Links
  <2>3. \A j \in Links : Keeps(marked, j) => Keeps(k, j)
    BY DEF Keeps, Links
  <2>4. CASE w
    <3>1. \A j \in Links :
            /\ Sound(j) /\ j.signing + j.frames = 0 /\ j.connectSent
            => /\ Sound([j EXCEPT !.signing = @ + 1])
               /\ Keeps(j, [j EXCEPT !.signing = @ + 1])
               /\ [j EXCEPT !.signing = @ + 1] \in Links
      BY DEF Sound, Keeps, Links
    <3> QED
      BY <1>1, <1>3, <2>2, <2>3, <2>4, <3>1 DEF SendConnect
  <2>5. CASE ~w
    BY <1>1, <1>3, <2>2, <2>3, <2>5, TransmitSound, TransmitType DEF SendConnect
  <2> QED
    BY <2>4, <2>5
<1> QED
  BY <1>2, <1>3

LEMMA AskSound ==
  ASSUME NEW k \in Links, NEW t \in Topics, Sound(k)
  PROVE  Sound(Ask(k, t)) /\ Keeps(k, Ask(k, t))
  BY DEF Ask, Sound, Keeps, Links

\* A handler that only adds to a connection keeps the invariant.
LEMMA OnLinkKeeps ==
  ASSUME Inv, NEW c \in Connections, NEW k \in Links, OnLink(c, k),
         Sound(k), Keeps(link[c], k)
  PROVE  Inv'
<1>1. TypeOK'
  BY OnLinkType DEF Inv
<1>2. link \in [Connections -> Links] /\ client \in {None} \cup Connections
  BY DEF Inv, TypeOK
<1>3. /\ link' = [link EXCEPT ![c] = k]
      /\ UNCHANGED <<promptClose, started, stopped, made, client, reconnectTimer,
                     subscribed, activeRun, turn, walletLeft>>
  BY DEF OnLink, envVars, runVars
<1>4. \A d \in Connections : Sound(link[d])' /\ Keeps(link[d], link'[d])
  BY <1>2, <1>3 DEF Inv, Keeps
<1>5. Standing'
  BY <1>2, <1>3, <1>4 DEF Inv, Standing, Keeps, Live, Connections, None
<1>6. ASSUME promptClose PROVE OneAtATime'
  <2>1. turn \in Turns /\ OneAtATime
    BY <1>6 DEF Inv, TypeOK
  <2>2. UpAndReady' => SessionEvents \in link'[client].asked
    BY <1>2, <1>3, <1>4, <2>1 DEF OneAtATime, UpAndReady, Keeps
  <2>3. turn.at \in {"calling", "waiting"} => turn.on \in Connections
    BY <2>1 DEF Turns
  <2> QED
    BY <1>2, <1>3, <1>4, <2>1, <2>2, <2>3
    DEF OneAtATime, Keeps, Live, Closing
<1> QED
  BY <1>1, <1>3, <1>4, <1>5, <1>6 DEF Inv

\* A new connection, made while no other is in use.
LEMMA ConnectKeeps ==
  ASSUME Inv, TypeOK', Connect, started', ~stopped, ~reconnectTimer',
         UNCHANGED <<promptClose, stopped, subscribed, activeRun, turn, walletLeft>>,
         promptClose =>
           /\ client = None
           /\ \A c \in Connections : link[c].ws \notin Live \cup Closing
  PROVE  Inv'
<1>1. made + 1 \in Connections /\ made \in Nat /\ made + 1 # None
  BY MaxConnectionsAssumption DEF Connect, Connections, Inv, TypeOK, None
<1>2. /\ link' = [link EXCEPT ![made + 1] = Fresh]
      /\ link \in [Connections -> Links]
      /\ made' = made + 1 /\ client' = made + 1
  BY DEF Connect, Inv, TypeOK
<1>3. /\ Sound(Fresh) /\ Fresh.ws = "connecting" /\ Fresh.ready = "pending"
      /\ Fresh.registered = {}
  BY DEF Sound, Fresh
<1>4. \A c \in Connections : link'[c] = IF c = made + 1 THEN Fresh ELSE link[c]
  BY <1>1, <1>2
<1>5. \A c \in Connections : Sound(link'[c])
  BY <1>3, <1>4 DEF Inv
<1>6. Standing'
  BY <1>1, <1>2, <1>3, <1>4 DEF Inv, Standing, Live, Connections
<1>7. ASSUME promptClose PROVE OneAtATime'
  <2>1. OneAtATime /\ turn \in Turns
    BY <1>7 DEF Inv, TypeOK
  <2>2. subscribed = {}
    BY <1>7, <2>1 DEF OneAtATime
  <2>3. turn.at \notin {"calling", "waiting"}
    BY <1>7, <2>1 DEF OneAtATime, Turns
  <2> QED
    BY <1>1, <1>2, <1>3, <1>4, <1>7, <2>2, <2>3
    DEF OneAtATime, UpAndReady, Live, Closing
<1> QED
  BY <1>5, <1>6, <1>7 DEF Inv

LEMMA InvStep ==
  ASSUME Inv, [Next]_vars
  PROVE  Inv'
<1>0. /\ TypeOK /\ TypeOK'
      /\ link \in [Connections -> Links]
      /\ client \in {None} \cup Connections
      /\ \A c \in Connections : Sound(link[c])
      /\ Standing
  BY TypeStep DEF Inv, TypeOK
<1>1. CASE UNCHANGED vars
  BY <1>0, <1>1
  DEF Inv, vars, envVars, runVars, Standing, OneAtATime, UpAndReady
<1>2. CASE Start
  <2>1. CASE stopped
    BY <1>0, <1>2, <2>1
    DEF Inv, Start, Standing, OneAtATime, UpAndReady, envVars, runVars
  <2>2. CASE ~stopped
    <3>1. made = 0 /\ client = None /\ ~reconnectTimer
      BY <1>0, <1>2 DEF Start, Standing
    <3>2. \A c \in Connections : link[c].ws = "unused"
      BY <1>0, <3>1 DEF Standing, Connections
    <3>3. /\ Connect /\ started' /\ ~reconnectTimer'
          /\ UNCHANGED <<promptClose, stopped, subscribed, activeRun, turn, walletLeft>>
      BY <1>2, <2>2, <3>1 DEF Start, envVars, runVars
    <3> QED
      BY <1>0, <2>2, <3>1, <3>2, <3>3, ConnectKeeps DEF Live, Closing
  <2> QED
    BY <2>1, <2>2
<1>3. CASE ReconnectTimerFires
  <2>1. started /\ ~stopped
    BY <1>0, <1>3 DEF ReconnectTimerFires, Standing
  <2>2. /\ Connect /\ started' /\ ~reconnectTimer'
        /\ UNCHANGED <<promptClose, stopped, subscribed, activeRun, turn, walletLeft>>
    BY <1>3, <2>1 DEF ReconnectTimerFires, envVars, runVars
  <2>3. ASSUME promptClose
        PROVE  /\ client = None
               /\ \A c \in Connections : link[c].ws \notin Live \cup Closing
    <3>1. OneAtATime /\ reconnectTimer
      BY <1>3, <2>3 DEF Inv, ReconnectTimerFires
    <3>2. client = None
      BY <3>1 DEF OneAtATime
    <3>3. \A c \in Connections : link[c].ws \notin Live
      BY <3>1, <3>2 DEF OneAtATime, Connections, None
    <3> QED
      BY <1>3, <2>3, <3>2, <3>3 DEF ReconnectTimerFires, Closing
  <2> QED
    BY <1>0, <2>1, <2>2, <2>3, ConnectKeeps
<1>4. CASE Stop
  <2>1. \A c \in Connections :
          /\ Sound(link'[c])
          /\ link'[c].ready = link[c].ready
          /\ link[c].ws = "unused" => link'[c].ws = "unused"
          /\ link'[c].ws \in Live \cup Closing <=> link[c].ws \in Live \cup Closing
          /\ link'[c].ws \in Live => link[c].ws \in Live /\ c # client
    BY <1>0, <1>4 DEF Stop, CloseSocket, Sound, Links, Live, Closing
  <2>2. Standing'
    BY <1>0, <1>4, <2>1 DEF Stop, Standing
  <2>3. ASSUME promptClose PROVE OneAtATime'
    <3>1. OneAtATime /\ turn \in Turns
      BY <1>0, <2>3 DEF Inv, TypeOK
    <3>2. turn.at \in {"calling", "waiting"} => turn.on \in Connections
      BY <3>1 DEF Turns
    <3> QED
      BY <1>4, <2>1, <3>1, <3>2 DEF Stop, OneAtATime, UpAndReady, runVars
  <2> QED
    BY <1>0, <1>4, <2>1, <2>2, <2>3 DEF Inv, Stop, envVars
<1>5. ASSUME NEW c \in Connections, Opens(c) PROVE Inv'
  <2> DEFINE k == [link[c] EXCEPT !.ws = "open"]
  <2>1. /\ k \in Links /\ Sound(k) /\ Keeps(link[c], k)
        /\ [k EXCEPT !.challengeTimer = TRUE] \in Links
        /\ Sound([k EXCEPT !.challengeTimer = TRUE])
        /\ Keeps(link[c], [k EXCEPT !.challengeTimer = TRUE])
    BY <1>0, <1>5 DEF Opens, Links, Sound, Keeps
  <2>2. /\ SendConnect(k, FALSE) \in Links /\ Sound(SendConnect(k, FALSE))
        /\ Keeps(k, SendConnect(k, FALSE))
    BY <2>1, SendConnectSound, SendConnectType
  <2>3. Keeps(link[c], SendConnect(k, FALSE))
    BY <1>5, <2>1, <2>2 DEF Keeps, Opens, Links
  <2> QED
    BY <1>5, <2>1, <2>2, <2>3, OnLinkKeeps DEF Opens
<1>6. ASSUME NEW c \in Connections, Challenge(c) PROVE Inv'
  <2>1. PICK n \in BOOLEAN : OnLink(c, SendConnect(link[c], signed /\ n))
    BY <1>6 DEF Challenge
  <2>2. (signed /\ n) \in BOOLEAN
    BY <1>0 DEF TypeOK
  <2> QED
    BY <1>0, <2>1, <2>2, SendConnectType, SendConnectSound, OnLinkKeeps
<1>7. ASSUME NEW c \in Connections, ChallengeTimerFires(c) PROVE Inv'
  <2> DEFINE k == [link[c] EXCEPT !.challengeTimer = FALSE]
  <2>1. k \in Links /\ Sound(k) /\ Keeps(link[c], k) /\ k.ws = link[c].ws
    BY <1>0 DEF Links, Sound, Keeps
  <2>2. /\ SendConnect(k, FALSE) \in Links /\ Sound(SendConnect(k, FALSE))
        /\ Keeps(k, SendConnect(k, FALSE))
    BY <2>1, SendConnectSound, SendConnectType
  <2>3. Keeps(link[c], SendConnect(k, FALSE))
    BY <2>1, <2>2 DEF Keeps
  <2> QED
    BY <1>7, <2>2, <2>3, OnLinkKeeps DEF ChallengeTimerFires
<1>8. ASSUME NEW c \in Connections, SignatureDone(c) PROVE Inv'
  <2> DEFINE k == [link[c] EXCEPT !.signing = @ - 1, !.connectSent = TRUE]
  <2>1. link[c].signing = 1 /\ link[c].frames = 0
    BY <1>0, <1>8 DEF SignatureDone, Sound, Links
  <2>2. k = [link[c] EXCEPT !.signing = 0, !.connectSent = TRUE]
    BY <2>1
  <2>7. \A j \in Links :
          LET m == [j EXCEPT !.signing = 0, !.connectSent = TRUE]
          IN  /\ m \in Links /\ Keeps(j, m) /\ m.ws = j.ws
              /\ m.signing = 0 /\ m.frames = j.frames /\ m.connectSent
              /\ m.ready = j.ready /\ m.registered = j.registered
    BY DEF Links, Keeps
  <2>3. /\ k \in Links /\ Keeps(link[c], k) /\ k.ws = link[c].ws
        /\ k.signing = 0 /\ k.frames = 0 /\ k.connectSent
        /\ k.ready = link[c].ready /\ k.registered = link[c].registered
    BY <1>0, <2>1, <2>2, <2>7
  <2> HIDE DEF k
  <2>6. Sound(k)
    BY <1>0, <2>3 DEF Sound
  <2>4. /\ Transmit(k) \in Links /\ Sound(Transmit(k)) /\ Keeps(k, Transmit(k))
    BY <2>3, <2>6, TransmitSound, TransmitType
  <2>5. Keeps(link[c], Transmit(k))
    BY <2>3, <2>4 DEF Keeps
  <2> QED
    BY <1>8, <2>4, <2>5, OnLinkKeeps DEF SignatureDone, k
<1>9. ASSUME NEW c \in Connections, HelloOk(c) PROVE Inv'
  <2> DEFINE l == [link EXCEPT ![c].ready = "ok"]
  <2>1. /\ l \in [Connections -> Links]
        /\ \A d \in Connections :
             /\ Sound(l[d])
             /\ l[d].ws = link[d].ws /\ l[d].asked = link[d].asked
             /\ l[d].registered = link[d].registered
             /\ l[d].ready = IF d = c THEN "ok" ELSE link[d].ready
    BY <1>0, <1>9 DEF HelloOk, Links, Sound
  <2> HIDE DEF l
  <2>2. link' = IF SessionEvents \in subscribed \/ client = None THEN l
                ELSE [l EXCEPT ![client] = Ask(@, SessionEvents)]
    BY <1>9 DEF HelloOk, l
  <2>3. SessionEvents \in Topics
    BY DEF Topics
  <2>4. \A d \in Connections : Sound(link'[d]) /\ Keeps(l[d], link'[d])
    BY <1>0, <2>1, <2>2, <2>3, AskSound DEF Keeps
  <2>5. \A d \in Connections : link[d].ws = "open" => link'[d].ws = "open"
    BY <2>1, <2>4 DEF Keeps
  <2>6. UNCHANGED <<promptClose, started, stopped, made, client, reconnectTimer,
                    subscribed, activeRun, turn, walletLeft>>
    BY <1>9 DEF HelloOk, envVars, runVars
  <2>7. Standing'
    BY <1>0, <1>9, <2>1, <2>4, <2>6 DEF Standing, Keeps, Live, HelloOk, Connections
  <2>8. ASSUME promptClose PROVE OneAtATime'
    <3>1. OneAtATime /\ turn \in Turns
      BY <1>0, <2>8 DEF Inv, TypeOK
    <3>2. turn.at \in {"calling", "waiting"} => turn.on \in Connections
      BY <3>1 DEF Turns
    <3>3. client = c /\ client # None
      BY <1>9, <3>1 DEF HelloOk, OneAtATime, Live, Connections, None
    <3>4. link[c].registered = {}
      BY <1>0, <1>9 DEF HelloOk, Sound
    <3>5. SessionEvents \notin subscribed
      BY <3>1, <3>3, <3>4 DEF OneAtATime
    <3>6. l[c].ws = "open"
      BY <1>9, <2>1 DEF HelloOk
    <3>7. SessionEvents \in link'[c].asked
      BY <2>1, <2>2, <3>3, <3>5, <3>6, <1>0 DEF Ask, Links
    <3> QED
      BY <1>0, <2>1, <2>4, <2>6, <3>1, <3>2, <3>3, <3>7
      DEF OneAtATime, UpAndReady, Keeps, Live, Closing
  <2> QED
    BY <1>0, <2>4, <2>6, <2>7, <2>8 DEF Inv
<1>10. ASSUME NEW c \in Connections, link[c].ws # "unused", HandshakeFails(c)
       PROVE  Inv'
  <2>1. \A d \in Connections :
          /\ Sound(link'[d])
          /\ link'[d].registered = link[d].registered
          /\ link[d].ws = "unused" => link'[d].ws = "unused"
          /\ link'[d].ws \in Live \cup Closing <=> link[d].ws \in Live \cup Closing
          /\ link'[d].ws \in Live => link[d].ws \in Live /\ (d = c => client # c)
          /\ d # c => link'[d] = link[d]
    BY <1>0, <1>10 DEF HandshakeFails, CloseSocket, Sound, Links, Live, Closing
  <2>2. /\ UNCHANGED <<promptClose, started, stopped, made, subscribed,
                       activeRun, turn, walletLeft>>
        /\ client' = IF client = c THEN None ELSE client
        /\ client # c => UNCHANGED reconnectTimer
        /\ client = c => reconnectTimer' = (reconnectTimer \/ ~stopped)
    BY <1>10 DEF HandshakeFails, ScheduleReconnect, envVars, runVars
  <2>3. Standing'
    <3>1. CASE client = c
      <4>1. client # None /\ started /\ ~stopped
        BY <1>0, <3>1 DEF Standing, Connections, None
      <4>2. reconnectTimer' /\ client' = None
        BY <2>2, <3>1, <4>1
      <4> QED
        BY <1>0, <2>1, <2>2, <4>1, <4>2 DEF Standing
    <3>2. CASE client # c
      BY <1>0, <2>1, <2>2, <3>2 DEF Standing, Connections, None
    <3> QED
      BY <3>1, <3>2
  <2>4. ASSUME promptClose PROVE OneAtATime'
    <3>1. OneAtATime /\ turn \in Turns
      BY <1>0, <2>4 DEF Inv, TypeOK
    <3>2. turn.at \in {"calling", "waiting"} => turn.on \in Connections
      BY <3>1 DEF Turns
    <3>3. client = c /\ c # None => subscribed = {}
      BY <1>0, <1>10, <3>1 DEF HandshakeFails, OneAtATime, Sound
    <3>4. c # None
      BY DEF Connections, None
    <3> QED
      BY <1>0, <2>1, <2>2, <3>1, <3>2, <3>3, <3>4 DEF OneAtATime, UpAndReady
  <2> QED
    BY <1>0, <2>1, <2>2, <2>3, <2>4 DEF Inv
<1>11. ASSUME NEW c \in Connections, Closes(c) PROVE Inv'
  <2>1. /\ \A d \in Connections : Sound(link'[d]) /\ (d # c => link'[d] = link[d])
        /\ link'[c].ws = "closed"
    BY <1>0, <1>11 DEF Closes, Dead, SettleReadyErr, Sound, Links
  <2>2. /\ UNCHANGED <<promptClose, started, stopped, made, walletLeft>>
        /\ client' = IF client = c THEN None ELSE client
        /\ subscribed' = {} /\ ~activeRun'
        /\ turn' = IF turn.on = c /\ turn.at # "subscribing" THEN NoTurn ELSE turn
        /\ reconnectTimer' = (reconnectTimer \/ ~stopped)
        /\ link[c].ws \in Live \cup Closing
    BY <1>11 DEF Closes, ScheduleReconnect, envVars
  <2>3. started
    BY <1>0, <2>2 DEF Standing, Live, Closing, Connections
  <2>4. Standing'
    BY <1>0, <2>1, <2>2, <2>3 DEF Standing, None, Live, Closing
  <2>5. ASSUME promptClose PROVE OneAtATime'
    <3>1. OneAtATime /\ turn \in Turns
      BY <1>0, <2>5 DEF Inv, TypeOK
    <3>2. turn.at \in {"calling", "waiting"} =>
            turn.on \in Connections /\ turn.on = c
      BY <2>2, <3>1 DEF OneAtATime, Turns
    <3>3. turn'.at \notin {"calling", "waiting"}
      BY <2>2, <3>2 DEF NoTurn
    <3>4. client # None => client = c
      BY <1>0, <2>2, <3>1 DEF OneAtATime, Standing
    <3> QED
      BY <1>0, <2>1, <2>2, <3>1, <3>3, <3>4
      DEF OneAtATime, UpAndReady, Live, Closing
  <2> QED
    BY <1>0, <2>1, <2>2, <2>4, <2>5 DEF Inv
<1>12. ASSUME NEW c \in Connections, NEW t \in Topics, Subscribed(c, t)
       PROVE  Inv'
  <2>1. /\ \A j \in Links : Keeps(j, Answered(j, t, {t}))
        /\ \A j \in Links : Sound(j) /\ j.ready = "ok" => Sound(Answered(j, t, {t}))
        /\ \A j \in Links : Answered(j, t, {t}).ws = j.ws
        /\ \A j \in Links : t \in Answered(j, t, {t}).registered
    BY DEF Keeps, Answered, Links, Sound
  <2>2. /\ link' = [link EXCEPT ![c] = Answered(link[c], t, {t})]
        /\ link[c].ready = "ok" /\ link[c].ws = "open"
        /\ subscribed' = subscribed \cup {t}
        /\ UNCHANGED <<promptClose, started, stopped, made, client, reconnectTimer,
                       activeRun, turn, walletLeft>>
    BY <1>12 DEF Subscribed, envVars, runVars
  <2>3. \A d \in Connections : Sound(link'[d]) /\ Keeps(link[d], link'[d])
                              /\ link'[d].ws = link[d].ws
    BY <1>0, <2>1, <2>2 DEF Keeps
  <2>4. started
    BY <1>0, <2>2 DEF Standing, Connections
  <2>5. Standing'
    BY <1>0, <2>2, <2>3, <2>4 DEF Standing, Keeps, Connections, None
  <2>6. ASSUME promptClose PROVE OneAtATime'
    <3>1. OneAtATime /\ turn \in Turns
      BY <1>0, <2>6 DEF Inv, TypeOK
    <3>2. turn.at \in {"calling", "waiting"} => turn.on \in Connections
      BY <3>1 DEF Turns
    <3>3. client = c /\ client # None
      BY <2>2, <3>1 DEF OneAtATime, Live, Connections, None
    <3>4. t \in link'[c].registered
      BY <1>0, <2>1, <2>2
    <3> QED
      BY <1>0, <2>2, <2>3, <3>1, <3>2, <3>3, <3>4
      DEF OneAtATime, UpAndReady, Keeps
  <2> QED
    BY <1>0, <2>2, <2>3, <2>5, <2>6 DEF Inv
<1>13. ASSUME NEW c \in Connections, NEW t \in Topics, SubscribeFails(c, t)
       PROVE  Inv'
  <2>1. PICK e \in SUBSET {t} :
          /\ e # {} => link[c].ws = "open" /\ link[c].ready = "ok"
          /\ OnLink(c, Answered(link[c], t, e))
    BY <1>13 DEF SubscribeFails
  <2>2. \A j \in Links : Sound(j) /\ (e # {} => j.ready = "ok") =>
          Keeps(j, Answered(j, t, e)) /\ Sound(Answered(j, t, e))
    BY DEF Keeps, Answered, Links, Sound
  <2> QED
    BY <1>0, <2>1, <2>2, AnsweredType, OnLinkKeeps
<1>14. ASSUME NEW key \in SessionKeys, Hydrate(key) PROVE Inv'
  <2>1. client \in Connections /\ key \in Topics
    BY <1>0, <1>14 DEF Hydrate, UpAndReady, Topics
  <2> QED
    BY <1>0, <1>14, <2>1, AskType, AskSound, OnLinkKeeps DEF Hydrate
<1>15. ASSUME NEW key \in SessionKeys, StartTurn(key) PROVE Inv'
  <2>1. client \in Connections /\ client # None /\ key \in Topics
    BY <1>0, <1>15 DEF StartTurn, UpAndReady, Topics
  <2>2. /\ link' = IF key \in subscribed THEN link
                   ELSE [link EXCEPT ![client] = Ask(@, key)]
        /\ turn'.at = "subscribing"
        /\ UNCHANGED <<promptClose, started, stopped, made, client, reconnectTimer,
                       subscribed, activeRun, walletLeft>>
    BY <1>15 DEF StartTurn, envVars
  <2>3. \A j \in Links : Ask(j, key).ws = j.ws
    BY DEF Ask, Links
  <2>4. \A d \in Connections : Sound(link'[d]) /\ Keeps(link[d], link'[d])
                              /\ link'[d].ws = link[d].ws
    BY <1>0, <2>1, <2>2, <2>3, AskSound DEF Keeps
  <2>5. Standing'
    BY <1>0, <2>2, <2>4 DEF Standing, Keeps, Connections, None
  <2>6. ASSUME promptClose PROVE OneAtATime'
    <3>1. OneAtATime
      BY <2>6 DEF Inv
    <3> QED
      BY <1>0, <2>1, <2>2, <2>4, <3>1 DEF OneAtATime, UpAndReady, Keeps
  <2> QED
    BY <1>0, <2>2, <2>4, <2>5, <2>6 DEF Inv
<1>16. CASE CallAgent
  <2>1. /\ UNCHANGED <<promptClose, started, stopped, made, link, client,
                       reconnectTimer, subscribed, activeRun, walletLeft>>
        /\ turn'.at = "none"
           \/ (turn'.at = "calling" /\ link[turn'.on].ws \in Live \cup Closing)
    BY <1>0, <1>16 DEF CallAgent, envVars, NoTurn, TypeOK, Turns, Live
  <2> QED
    BY <1>0, <2>1 DEF Inv, Standing, OneAtATime, UpAndReady
<1>17. CASE AgentAnswers
  <2>1. /\ UNCHANGED <<promptClose, started, stopped, made, link, client,
                       reconnectTimer, subscribed>>
        /\ activeRun' /\ turn'.on = turn.on /\ link[turn.on].ws = "open"
    BY <1>0, <1>17 DEF AgentAnswers, envVars, TypeOK, Turns
  <2> QED
    BY <1>0, <2>1 DEF Inv, Standing, OneAtATime, UpAndReady, Live
<1>18. CASE TurnEnds
  <2>1. /\ UNCHANGED <<promptClose, started, stopped, made, link, client,
                       reconnectTimer, subscribed>>
        /\ turn'.at = "none"
    BY <1>18 DEF TurnEnds, envVars, NoTurn
  <2> QED
    BY <1>0, <2>1 DEF Inv, Standing, OneAtATime, UpAndReady
<1>19. CASE WalletDisconnects
  <2>1. /\ UNCHANGED <<promptClose, started, stopped, made, link, client,
                       reconnectTimer, turn>>
        /\ walletLeft' /\ subscribed' \subseteq subscribed
    BY <1>19 DEF WalletDisconnects, envVars
  <2> QED
    BY <1>0, <2>1 DEF Inv, Standing, OneAtATime, UpAndReady
<1> QED
  BY <1>1, <1>2, <1>3, <1>4, <1>5, <1>6, <1>7, <1>8, <1>9, <1>10, <1>11,
     <1>12, <1>13, <1>14, <1>15, <1>16, <1>17, <1>18, <1>19
  DEF Next, Handshake, ConnectTimeout, Refused

LEMMA InvInit == Init => Inv
<1> SUFFICES ASSUME Init PROVE Inv
  OBVIOUS
<1>1. TypeOK
  BY TypeInit
<1>2. \A c \in Connections : Sound(link[c]) /\ link[c].ws = "unused"
  BY DEF Init, Unused, Fresh, Sound
<1>3. Standing
  BY <1>2 DEF Init, Standing
<1>4. OneAtATime
  BY <1>2 DEF Init, OneAtATime, UpAndReady, NoTurn, Live, Closing
<1> QED
  BY <1>1, <1>2, <1>3, <1>4 DEF Inv

LEMMA InvHolds == Spec => []Inv
<1>1. Inv /\ [Next]_vars => Inv'
  BY InvStep
<1> QED
  BY <1>1, InvInit, PTL DEF Spec

-----------------------------------------------------------------------------
\* A started adapter keeps a client that may still get through, or a retry.
THEOREM NeverParked == Spec => []NeverStranded
<1>1. Inv => NeverStranded
  BY DEF Inv, Standing, NeverStranded
<1> QED
  BY <1>1, InvHolds, PTL

\* Challenge, timer and signature, in any order, send one connect request.
THEOREM OneConnectRequest == Spec => []HandshakeOnce
<1>1. Inv => HandshakeOnce
  BY DEF Inv, TypeOK, Sound, HandshakeOnce, Links
<1> QED
  BY <1>1, InvHolds, PTL

\* With prompt closes: no socket outlives its client, the flags are those of
\* the current connection, each connection subscribes, the run keeps its slot.
THEOREM PromptLinksAreClean ==
  Spec => []PromptLinkIsClean
<1>1. Inv => PromptLinkIsClean
  BY DEF Inv, OneAtATime, PromptLinkIsClean, SocketIsClients,
         FlagsDescribePromptLink, FlagsDescribeLink, EventsAskedFor, RunIsTracked
<1> QED
  BY <1>1, InvHolds, PTL

LEMMA QuietStep ==
  ASSUME Inv, [Next]_vars, NEW c \in Connections, link[c].ready # "pending"
  PROVE  link'[c].frames = link[c].frames
<1>0. /\ link \in [Connections -> Links]
      /\ client \in {None} \cup Connections
  BY DEF Inv, TypeOK
<1>1. \A k \in Links : k.ready # "pending" => Transmit(k).frames = k.frames
  BY DEF Transmit, Links
<1>2. \A k \in Links, w \in BOOLEAN :
        k.ready # "pending" => SendConnect(k, w).frames = k.frames
  <2> SUFFICES ASSUME NEW k \in Links, NEW w \in BOOLEAN, k.ready # "pending"
               PROVE  SendConnect(k, w).frames = k.frames
    OBVIOUS
  <2> DEFINE marked == [k EXCEPT !.connectSent = TRUE, !.challengeTimer = FALSE]
  <2>1. marked \in Links /\ marked.frames = k.frames /\ marked.ready = k.ready
    BY DEF Links
  <2>2. \A j \in Links : [j EXCEPT !.signing = @ + 1].frames = j.frames
    BY DEF Links
  <2> HIDE DEF marked
  <2>3. SendConnect(k, w) =
          IF k.connectSent THEN k
          ELSE IF w THEN [marked EXCEPT !.signing = @ + 1] ELSE Transmit(marked)
    BY DEF SendConnect, marked
  <2> QED
    BY <1>1, <2>1, <2>2, <2>3
<1>3. \A k \in Links, t \in Topics : Ask(k, t).frames = k.frames
  BY DEF Ask, Links
<1>4. \A k \in Links : CloseSocket(k).frames = k.frames
  BY DEF CloseSocket, Links
<1>5. \A k \in Links : Dead(k).frames = k.frames
  BY DEF Dead, SettleReadyErr, Links
<1>6. \A k \in Links, t \in Topics : \A e \in SUBSET {t} :
        Answered(k, t, e).frames = k.frames
  BY DEF Answered, Links
<1>7. CASE UNCHANGED vars
  BY <1>7 DEF vars
<1>8. CASE Connect
  <2>1. made + 1 \in Connections
    BY <1>8, MaxConnectionsAssumption DEF Connect, Connections, Inv, TypeOK
  <2>2. link[made + 1].ready = "pending"
    BY <2>1 DEF Inv, TypeOK, Standing, Sound, Connections
  <2> QED
    BY <1>0, <1>8, <2>2 DEF Connect
<1>9. CASE Start \/ ReconnectTimerFires
  BY <1>8, <1>9 DEF Start, ReconnectTimerFires
<1>10. CASE Stop
  BY <1>0, <1>4, <1>10 DEF Stop
<1>11. ASSUME NEW d \in Connections, Handshake(d)
       PROVE  link'[c].frames = link[c].frames
  <2>1. CASE Opens(d)
    <3> DEFINE k == [link[d] EXCEPT !.ws = "open"]
    <3>1. /\ k \in Links /\ k.frames = link[d].frames /\ k.ready = link[d].ready
          /\ [k EXCEPT !.challengeTimer = TRUE].frames = link[d].frames
      BY <1>0 DEF Links
    <3>2. \/ link' = [link EXCEPT ![d] = SendConnect(k, FALSE)]
          \/ link' = [link EXCEPT ![d] = [k EXCEPT !.challengeTimer = TRUE]]
      BY <2>1 DEF Opens, OnLink
    <3>3. d = c => SendConnect(k, FALSE).frames = link[d].frames
      BY <1>2, <3>1
    <3> HIDE DEF k
    <3> QED
      BY <1>0, <3>1, <3>2, <3>3
  <2>2. CASE Challenge(d)
    <3>1. PICK n \in BOOLEAN : OnLink(d, SendConnect(link[d], signed /\ n))
      BY <2>2 DEF Challenge
    <3>2. (signed /\ n) \in BOOLEAN
      BY DEF Inv, TypeOK
    <3> QED
      BY <1>0, <1>2, <3>1, <3>2 DEF OnLink
  <2>3. CASE ChallengeTimerFires(d)
    <3>1. \A k \in Links : LET j == [k EXCEPT !.challengeTimer = FALSE]
                          IN  j \in Links /\ j.frames = k.frames /\ j.ready = k.ready
      BY DEF Links
    <3> DEFINE k == [link[d] EXCEPT !.challengeTimer = FALSE]
    <3>2. k \in Links /\ k.frames = link[d].frames /\ k.ready = link[d].ready
      BY <1>0, <3>1
    <3>3. link' = [link EXCEPT ![d] = SendConnect(k, FALSE)]
      BY <2>3 DEF ChallengeTimerFires, OnLink
    <3>4. d = c => SendConnect(k, FALSE).frames = link[d].frames
      BY <1>2, <3>2
    <3> HIDE DEF k
    <3> QED
      BY <1>0, <3>3, <3>4
  <2>4. CASE SignatureDone(d)
    <3>1. link[d].signing = 1
      BY <1>0, <2>4 DEF SignatureDone, Inv, Sound, Links
    <3>2. \A k \in Links : LET j == [k EXCEPT !.signing = 0, !.connectSent = TRUE]
                          IN  j \in Links /\ j.frames = k.frames /\ j.ready = k.ready
      BY DEF Links
    <3> DEFINE k == [link[d] EXCEPT !.signing = 0, !.connectSent = TRUE]
    <3>3. k \in Links /\ k.frames = link[d].frames /\ k.ready = link[d].ready
      BY <1>0, <3>2
    <3>4. link' = [link EXCEPT ![d] = Transmit(k)]
      BY <2>4, <3>1 DEF SignatureDone, OnLink
    <3>5. d = c => Transmit(k).frames = link[d].frames
      BY <1>1, <3>3
    <3> HIDE DEF k
    <3> QED
      BY <1>0, <3>4, <3>5
  <2>5. CASE HelloOk(d)
    <3> DEFINE l == [link EXCEPT ![d].ready = "ok"]
    <3>1. l \in [Connections -> Links] /\ l[c].frames = link[c].frames
      BY <1>0 DEF Links
    <3> HIDE DEF l
    <3>2. link' = l \/ (client # None /\ link' = [l EXCEPT ![client] = Ask(@, SessionEvents)])
      BY <2>5 DEF HelloOk, l
    <3> QED
      BY <1>0, <1>3, <3>1, <3>2 DEF Topics
  <2>6. CASE HandshakeFails(d)
    <3>1. d # c
      BY <2>6 DEF HandshakeFails
    <3> QED
      BY <1>0, <2>6, <3>1 DEF HandshakeFails
  <2>7. CASE Closes(d)
    BY <1>0, <1>5, <2>7 DEF Closes
  <2> QED
    BY <1>11, <2>1, <2>2, <2>3, <2>4, <2>5, <2>6, <2>7
    DEF Handshake, ConnectTimeout, Refused
<1>12. ASSUME NEW d \in Connections, NEW t \in Topics,
              Subscribed(d, t) \/ SubscribeFails(d, t)
       PROVE  link'[c].frames = link[c].frames
  <2>1. PICK e \in SUBSET {t} : link' = [link EXCEPT ![d] = Answered(link[d], t, e)]
    BY <1>0, <1>12 DEF Subscribed, SubscribeFails, OnLink
  <2> QED
    BY <1>0, <1>6, <2>1
<1>13. ASSUME NEW key \in SessionKeys, Hydrate(key) \/ StartTurn(key)
       PROVE  link'[c].frames = link[c].frames
  <2>1. link' = link \/ (client # None /\ link' = [link EXCEPT ![client] = Ask(link[client], key)])
    BY <1>13 DEF Hydrate, StartTurn, UpAndReady, OnLink
  <2> QED
    BY <1>0, <1>3, <2>1 DEF Topics
<1>14. CASE CallAgent \/ AgentAnswers \/ TurnEnds \/ WalletDisconnects
  BY <1>14 DEF CallAgent, AgentAnswers, TurnEnds, WalletDisconnects
<1> QED
  BY <1>7, <1>9, <1>10, <1>11, <1>12, <1>13, <1>14 DEF Next

\* Once a handshake is decided, nothing more is sent for it.
THEOREM SilentAfterVerdict == Spec => QuietAfterVerdict
<1>1. Inv /\ [Next]_vars =>
        [\A c \in Connections :
           link[c].ready # "pending" => link'[c].frames = link[c].frames]_vars
  BY QuietStep
<1> QED
  BY <1>1, InvHolds, PTL DEF Spec, QuietAfterVerdict
=============================================================================
