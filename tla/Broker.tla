------------------------------- MODULE Broker -------------------------------
(***************************************************************************)
(* The daemon's wallet-connection broker (packages/ac2-cli/src/daemon/     *)
(* broker.ts): pairing cycles, connected sessions, controller binding,     *)
(* bootstrap of the agent identity, reconnect with backoff, teardown.      *)
(*                                                                         *)
(* The program is a single-threaded event loop: what runs between two      *)
(* awaits is one step, and anything may run at an await.  A cycle loop is  *)
(* named by the token startPairing gave it.                                *)
(***************************************************************************)
EXTENDS Naturals, FiniteSets

CONSTANTS
  Handles,           \* pairing handles a provider can build, one socket each
  Wallets,           \* controllers that may answer
  None,              \* absent value
  Teardowns,         \* concurrent teardownCycle calls: "cancel", "stop"
  CooldownAfter,     \* FAILURES_BEFORE_COOLDOWN
  MaxToken,          \* bound: values of cycleToken
  MaxEntering,       \* bound: startPairing calls waiting for the service key
  Serial,            \* TRUE: callers wait for an answer before the next call
  SlowAwaits,        \* TRUE: a provider's close() and dispose(), and the service
                     \* key, take time, as their interfaces allow; FALSE: they
                     \* are there at once, as in the repository once it is up
  MayCrash,          \* TRUE: the daemon may be killed and started again
  MayForget          \* TRUE: `connections.forget all` may run

ASSUME NoneAssumption == None \notin Handles \cup Wallets
ASSUME TokenAssumption == MaxToken \in Nat /\ None \notin 0..MaxToken
ASSUME CooldownAssumption == CooldownAfter \in Nat \ {0}
ASSUME EnteringAssumption == MaxEntering \in Nat
ASSUME TeardownsAssumption == Teardowns \subseteq {"cancel", "stop"}
ASSUME SwitchAssumption ==
  /\ Serial \in BOOLEAN /\ SlowAwaits \in BOOLEAN
  /\ MayCrash \in BOOLEAN /\ MayForget \in BOOLEAN

VARIABLES
  state,             \* what snapshot() reports
  cycleToken, cycleActive, stopped,
  activePairing,     \* the invitation handed to callers, as its handle
  handle,            \* the handle teardownCycle will dispose
  channel,           \* the handle whose channel is the current one
  sessionClient,     \* the handle whose Ac2Client serves request()
  auth,              \* locked, identityGranted and agentDid
  reached,           \* reachedConnected
  wake,              \* backoffWake/backoffTimer: the loop they belong to
  pc,                \* per loop: the await it is at
  active,            \* per loop: its handle
  peer,              \* per loop: the wallet on its channel, if the link named it,
                     \* and the stored identity the session read
  retry,             \* per loop: backoffMs, consecutiveFailures, cooling
  socket,            \* per handle: its signaling socket
  link,              \* per handle: its data channel is open
  entering,          \* startPairing calls awaiting ensureServiceIdentity
  tearing,           \* per teardownCycle call: the await it is at
  identity,          \* on disk: the controller the agent is bound to
  legacy,            \* on disk: the identity still carries plaintext material
  keys,              \* keystore: wallets whose issued agent key is stored
  forgetting         \* `forget all`: "never" asked for, "clearing" the
                     \* keystore, or "over"

gateVars == <<cycleToken, cycleActive, stopped>>
sessionVars == <<channel, sessionClient, auth>>
loopVars == <<pc, active, peer, retry>>
netVars == <<socket, link>>
diskVars == <<identity, legacy, keys, forgetting>>
callVars == <<entering, tearing>>
vars == <<state, gateVars, activePairing, handle, sessionVars, reached, wake,
          loopVars, netVars, callVars, diskVars>>

Tokens == 1..MaxToken
States == {"idle", "pairing", "connected", "reconnecting"}
Sleeping == {"backoff", "rearm"}
Labels == {"none", "begin", "link", "migrate", "bootstrap", "store", "stored",
           "serving", "closing", "disposing", "backoff", "slept", "rearm",
           "rearmed", "rebuild", "done"}

NoAuth == [locked |-> FALSE, granted |-> FALSE, agent |-> None]
Locked == [locked |-> TRUE, granted |-> FALSE, agent |-> None]
Granted(w) == [locked |-> FALSE, granted |-> TRUE, agent |-> w]
Granting(w) == [auth EXCEPT !.granted = TRUE, !.agent = w]
NoPeer == [wallet |-> None, named |-> FALSE, stored |-> None]

-----------------------------------------------------------------------------
(* The retry policy of runCycleLoop; delays in seconds. *)
BackoffInitial == 2
BackoffMax == 30
CooldownDelay == 300
Least(a, b) == IF a <= b THEN a ELSE b

FreshRetry == [delay |-> BackoffInitial, fails |-> 0, cooling |-> FALSE]

\* Mutant: the slow tier is entered, but the delay is not raised.
NoteFailure_KeepsDelay(r) ==
  LET n == Least(r.fails + 1, CooldownAfter)
  IN  [r EXCEPT !.fails = n, !.cooling = @ \/ n >= CooldownAfter]

\* noteFailure and enterCooldown; the count stops mattering at the threshold.
NoteFailure(r) ==
  LET n == Least(r.fails + 1, CooldownAfter)
  IN  IF ~r.cooling /\ n >= CooldownAfter
      THEN [delay |-> CooldownDelay, fails |-> n, cooling |-> TRUE]
      ELSE [r EXCEPT !.fails = n]

\* backoffMs = min(backoffMs * 2, ceilingMs()).
Doubled(r) ==
  [r EXCEPT !.delay = Least(2 * @, IF r.cooling THEN CooldownDelay ELSE BackoffMax)]

-----------------------------------------------------------------------------
TypeOK ==
  /\ state \in States
  /\ cycleToken \in 0..MaxToken
  /\ cycleActive \in BOOLEAN /\ stopped \in BOOLEAN
  /\ activePairing \in Handles \cup {None}
  /\ handle \in Handles \cup {None}
  /\ channel \in Handles \cup {None}
  /\ sessionClient \in Handles \cup {None}
  /\ auth \in [locked : BOOLEAN, granted : BOOLEAN, agent : Wallets \cup {None}]
  /\ reached \in BOOLEAN
  /\ wake \in Tokens \cup {None}
  /\ pc \in [Tokens -> Labels]
  /\ active \in [Tokens -> Handles \cup {None}]
  /\ peer \in [Tokens -> [wallet : Wallets \cup {None}, named : BOOLEAN,
                          stored : Wallets \cup {None}]]
  /\ retry \in [Tokens -> [delay : {2, 4, 8, 16, 30, 300},
                           fails : 0..CooldownAfter, cooling : BOOLEAN]]
  /\ socket \in [Handles -> {"free", "up", "down", "disposed"}]
  /\ link \in [Handles -> BOOLEAN]
  /\ entering \in 0..MaxEntering
  /\ tearing \in [Teardowns -> {"no", "channel", "handle"}]
  /\ identity \in Wallets \cup {None}
  /\ legacy \in BOOLEAN
  /\ keys \subseteq Wallets
  /\ forgetting \in {"never", "clearing", "over"}

\* A process that has just started has nothing paired.
\* On disk: no identity, one with its key in the keystore, or one written by
\* an earlier release with its material in plaintext.
Init ==
  /\ state = "idle"
  /\ cycleToken = 0 /\ cycleActive = FALSE /\ stopped = FALSE
  /\ activePairing = None /\ handle = None
  /\ channel = None /\ sessionClient = None /\ auth = NoAuth
  /\ reached = FALSE /\ wake = None
  /\ pc = [t \in Tokens |-> "none"]
  /\ active = [t \in Tokens |-> None]
  /\ peer = [t \in Tokens |-> NoPeer]
  /\ retry = [t \in Tokens |-> FreshRetry]
  /\ socket = [h \in Handles |-> "free"]
  /\ link = [h \in Handles |-> FALSE]
  /\ entering = 0
  /\ tearing = [x \in Teardowns |-> "no"]
  /\ forgetting = "never"
  /\ \/ identity = None /\ legacy = FALSE /\ keys = {}
     \/ \E w \in Wallets : identity = w /\ legacy = FALSE /\ keys = {w}
     \/ \E w \in Wallets : identity = w /\ legacy = TRUE /\ keys = {}

-----------------------------------------------------------------------------
(* Shared pieces of the handlers. *)
Goto(t, label) == pc' = [pc EXCEPT ![t] = label]

\* Mutant: the loop does not look at the token again.
MayRun_IgnoresToken(t) == ~stopped

\* The condition every turn of the loops re-checks after an await.
MayRun(t) == ~stopped /\ t = cycleToken

\* `while (!stopped && token === cycleToken)` and the call of connect().
EnterLink(t) ==
  IF MayRun(t) THEN Goto(t, "link") /\ reached' = FALSE
               ELSE Goto(t, "done") /\ UNCHANGED reached

\* sleep(): the one wake slot now belongs to this loop.
Sleep(t, label) == Goto(t, label) /\ wake' = t

\* cancelBackoff() wakes only the loop that owns the slot.
Awake(label) == IF label = "rearm" THEN "rearmed" ELSE "slept"

CancelBackoff ==
  IF wake = None THEN UNCHANGED <<pc, wake>>
  ELSE /\ wake' = None
       /\ pc' = [pc EXCEPT ![wake] = IF @ \in Sleeping THEN Awake(@) ELSE @]

\* Closing a channel or disposing a handle always succeeds.
Unlink(h) == link' = [link EXCEPT ![h] = FALSE]

\* Mutant: the peer is closed, the signaling socket stays up.
Dispose_KeepsSocket(h) == Unlink(h) /\ UNCHANGED socket

Dispose(h) == Unlink(h) /\ socket' = [socket EXCEPT ![h] = "disposed"]

\* An event (a timer, a request, the network, the keychain) is handled when
\* what the last one made runnable has run: a woken loop, a session whose
\* channel closed and, unless SlowAwaits, a close() or dispose().
Settled ==
  /\ \A t \in Tokens :
       /\ pc[t] \in {"bootstrap", "serving"} => link[active[t]]
       /\ pc[t] \notin {"slept", "rearmed"}
       /\ ~SlowAwaits => pc[t] \notin {"closing", "disposing"}
  /\ ~SlowAwaits => entering = 0 /\ \A x \in Teardowns : tearing[x] = "no"

-----------------------------------------------------------------------------
(* startPairing and beginPairing. *)

\* A control request may be sent: always, or once the last one is answered.
Admitted ==
  Serial => /\ entering = 0
            /\ \A t \in Tokens : pc[t] # "begin"
            /\ \A x \in Teardowns : tearing[x] = "no"

StartPairing ==
  /\ Settled
  /\ Admitted
  /\ ~stopped
  /\ IF cycleActive /\ activePairing # None
     THEN CancelBackoff /\ UNCHANGED entering
     ELSE /\ entering < MaxEntering
          /\ entering' = entering + 1
          /\ UNCHANGED <<pc, wake>>
  /\ UNCHANGED <<state, gateVars, activePairing, handle, sessionVars, reached,
                 active, peer, retry, netVars, tearing, diskVars>>

\* After ensureServiceIdentity: a new token, and provider.startPairing.
EnterCycle ==
  /\ entering > 0
  /\ cycleToken < MaxToken
  /\ entering' = entering - 1
  /\ cycleActive' = TRUE
  /\ cycleToken' = cycleToken + 1
  /\ Goto(cycleToken + 1, "begin")
  /\ UNCHANGED <<state, stopped, activePairing, handle, sessionVars, reached,
                 wake, active, peer, retry, netVars, tearing, diskVars>>

\* A name for a new handle: nothing refers to an earlier one of that name.
Unused(h) ==
  /\ socket[h] \in {"free", "disposed"}
  /\ h \notin {activePairing, handle, channel, sessionClient}
  /\ \A t \in Tokens : active[t] = h => pc[t] \in {"none", "done"}

\* Mutant: a rebuilt pairing keeps the invitation of the first one.
Publish_Once(h) == activePairing' = IF activePairing = None THEN h ELSE activePairing

Publish(h) == activePairing' = h

\* The signaling socket is up: beginPairing publishes the invitation and its
\* caller (startPairing, or the rebuild loop) takes the handle.
Begun(t, h) ==
  /\ Settled
  /\ pc[t] \in {"begin", "rebuild"}
  /\ Unused(h)
  /\ socket' = [socket EXCEPT ![h] = "up"]
  /\ Publish(h)
  /\ state' = "pairing"
  /\ handle' = h
  /\ active' = [active EXCEPT ![t] = h]
  /\ EnterLink(t)
  /\ UNCHANGED <<gateVars, sessionVars, wake, peer, retry, link, callVars, diskVars>>

\* provider.startPairing failed: startPairing gives up, a rebuild sleeps.
BeginFails(t) ==
  /\ Settled
  /\ \/ /\ pc[t] = "begin"
        /\ cycleActive' = FALSE
        /\ Goto(t, "done")
        /\ UNCHANGED <<retry, wake>>
     \/ /\ pc[t] = "rebuild"
        /\ retry' = [retry EXCEPT ![t] = NoteFailure(@)]
        /\ Sleep(t, "backoff")
        /\ UNCHANGED cycleActive
  /\ UNCHANGED <<state, cycleToken, stopped, activePairing, handle, sessionVars,
                 reached, active, peer, netVars, callVars, diskVars>>

-----------------------------------------------------------------------------
(* runConnectedSession. *)

\* Mutant: a wallet that is not the stored one may register itself.
Decision_PerWallet(w, named) ==
  IF identity # None /\ (named => w = identity) THEN "reuse" ELSE "register"

Decision(w, named) ==
  IF identity # None /\ named /\ w # identity THEN "locked"
  ELSE IF identity # None THEN "reuse" ELSE "register"

\* setState('connected').
Connected(t) == state' = "connected" /\ reached' = TRUE /\ Goto(t, "serving")

\* Mutant: a foreign wallet is served like the bound one.
Linked_NeverLocks(t, w, named) ==
  IF Decision(w, named) = "register"
  THEN auth' = NoAuth /\ Goto(t, "bootstrap") /\ UNCHANGED <<state, reached>>
  ELSE auth' = Granted(identity) /\ Connected(t)

\* From connect() resolving to the next await, by the binding decision.
Linked(t, w, named) ==
  LET decision == Decision(w, named)
      migrate == legacy /\ identity \notin keys
  IN  \/ /\ decision = "locked"
         /\ auth' = Locked
         /\ Connected(t)
      \/ /\ decision = "reuse" /\ ~migrate
         /\ auth' = Granted(identity)
         /\ Connected(t)
      \/ /\ decision = "reuse" /\ migrate
         /\ auth' = NoAuth
         /\ Goto(t, "migrate")
         /\ UNCHANGED <<state, reached>>
      \/ /\ decision = "register"
         /\ auth' = NoAuth
         /\ Goto(t, "bootstrap")
         /\ UNCHANGED <<state, reached>>

\* A wallet answered on the handle's socket, which may have dropped since; the
\* link may not name its account.
Link(t, w, named) ==
  /\ Settled
  /\ pc[t] = "link"
  /\ socket[active[t]] \in {"up", "down"}
  /\ link' = [link EXCEPT ![active[t]] = TRUE]
  /\ channel' = active[t]
  /\ sessionClient' = active[t]
  /\ peer' = [peer EXCEPT ![t] = 
                [wallet |-> w, named |-> named, stored |-> identity]]
  /\ Linked(t, w, named)
  /\ UNCHANGED <<gateVars, activePairing, handle, wake, active, retry, socket,
                 callVars, diskVars>>

\* The finally of a session, up to its await of paired.close().
Finally(t) ==
  /\ channel' = None
  /\ sessionClient' = None
  /\ auth' = NoAuth
  /\ Unlink(active[t])
  /\ Goto(t, "closing")

\* recordIdentityKey for a legacy identity succeeds.
Migrate(t) ==
  /\ Settled
  /\ pc[t] = "migrate"
  /\ keys' = keys \cup {peer[t].stored}
  /\ auth' = Granting(peer[t].stored)
  /\ Connected(t)
  /\ UNCHANGED <<gateVars, activePairing, handle, channel, sessionClient, wake,
                 active, peer, retry, netVars, callVars, identity, legacy, forgetting>>

\* The keychain refuses a key: the session fails.
KeystoreFails(t) ==
  /\ Settled
  /\ pc[t] \in {"migrate", "store"}
  /\ Finally(t)
  /\ UNCHANGED <<state, gateVars, activePairing, handle, reached, wake, active,
                 peer, retry, socket, callVars, diskVars>>

\* Mutant: the metadata is written while the keychain still has the key.
Approve_GrantsFirst(t) ==
  /\ Settled
  /\ pc[t] = "bootstrap"
  /\ link[active[t]]
  /\ identity' = peer[t].wallet
  /\ Goto(t, "store")
  /\ UNCHANGED <<state, gateVars, activePairing, handle, sessionVars, reached,
                 wake, active, peer, retry, netVars, callVars, legacy, keys, forgetting>>

\* The wallet's answer to the bootstrap KeyRequest.
Approve(t) ==
  /\ Settled
  /\ pc[t] = "bootstrap"
  /\ link[active[t]]
  /\ Goto(t, "store")
  /\ UNCHANGED <<state, gateVars, activePairing, handle, sessionVars, reached,
                 wake, active, peer, retry, netVars, callVars, diskVars>>

\* It refuses, or the channel closed under the request: a BootstrapError, and
\* the session is reported connected without an identity.
BootstrapFails(t) ==
  /\ pc[t] = "bootstrap"
  /\ auth' = [auth EXCEPT !.granted = FALSE, !.agent = None]
  /\ Connected(t)
  /\ UNCHANGED <<gateVars, activePairing, handle, channel, sessionClient, wake,
                 active, peer, retry, netVars, callVars, diskVars>>

\* recordIdentityKey: the key is in the keystore.
StoreKey(t) ==
  /\ Settled
  /\ pc[t] = "store"
  /\ keys' = keys \cup {peer[t].wallet}
  /\ Goto(t, "stored")
  /\ UNCHANGED <<state, gateVars, activePairing, handle, sessionVars, reached,
                 wake, active, peer, retry, netVars, callVars, identity, legacy,
                 forgetting>>

\* Only then the grant is written to disk and acknowledged.
PersistGrant(t) ==
  /\ Settled
  /\ pc[t] = "stored"
  /\ identity' = peer[t].wallet
  /\ legacy' = FALSE
  /\ auth' = Granting(peer[t].wallet)
  /\ Connected(t)
  /\ UNCHANGED <<gateVars, activePairing, handle, channel, sessionClient, wake,
                 active, peer, retry, netVars, callVars, keys, forgetting>>

\* The control channel closed or failed, or the stream channel closed.
Drop(t) ==
  /\ pc[t] = "serving"
  /\ Finally(t)
  /\ UNCHANGED <<state, gateVars, activePairing, handle, reached, wake, active,
                 peer, retry, socket, callVars, diskVars>>

-----------------------------------------------------------------------------
(* runCycleLoop, after a session. *)

\* noteSuccess or noteFailure.
NextRetry(r) == IF reached THEN FreshRetry ELSE NoteFailure(r)

\* Count the session; then re-arm connect() on a socket that is still
\* up, throttled unless the cycle was connected, or dispose of a dead one.
AfterSession(t) ==
  IF ~MayRun(t) THEN Goto(t, "done") /\ UNCHANGED <<state, reached, wake, retry, netVars>>
  ELSE /\ retry' = [retry EXCEPT ![t] = NextRetry(@)]
       /\ state' = "reconnecting"
       /\ \/ /\ socket[active[t]] = "up"
             /\ reached
             /\ EnterLink(t)
             /\ UNCHANGED <<wake, netVars>>
          \/ /\ socket[active[t]] = "up"
             /\ ~reached
             /\ Sleep(t, "rearm")
             /\ UNCHANGED <<reached, netVars>>
          \/ /\ socket[active[t]] # "up"
             /\ Dispose(active[t])
             /\ Goto(t, "disposing")
             /\ UNCHANGED <<reached, wake>>

\* connect() rejects: nothing was set up, there is no finally to run.
LinkFails(t) ==
  /\ Settled
  /\ pc[t] = "link"
  /\ AfterSession(t)
  /\ UNCHANGED <<gateVars, activePairing, handle, sessionVars, active, peer,
                 callVars, diskVars>>

\* paired.close() is done.
SessionEnds(t) ==
  /\ pc[t] = "closing"
  /\ AfterSession(t)
  /\ UNCHANGED <<gateVars, activePairing, handle, sessionVars, active, peer,
                 callVars, diskVars>>

\* The dead handle is disposed of: sleep before rebuilding, always.
Disposed(t) ==
  /\ pc[t] = "disposing"
  /\ Sleep(t, "backoff")
  /\ UNCHANGED <<state, gateVars, activePairing, handle, sessionVars, reached,
                 active, peer, retry, netVars, callVars, diskVars>>

\* The timer of a sleep; it clears the wake slot whoever owns it.
TimerFires(t) ==
  /\ Settled
  /\ pc[t] \in Sleeping
  /\ Goto(t, Awake(pc[t]))
  /\ wake' = None
  /\ UNCHANGED <<state, gateVars, activePairing, handle, sessionVars, reached,
                 active, peer, retry, netVars, callVars, diskVars>>

\* Mutant: a loop in the slow tier gives up.
Onward_StopsWhenCooling(t) == IF MayRun(t) /\ ~retry[t].cooling THEN "rebuild" ELSE "done"

Onward(t) == IF MayRun(t) THEN "rebuild" ELSE "done"

\* After a sleep: the delay doubles, then the loop links again or rebuilds.
Resume(t) ==
  /\ pc[t] \in {"slept", "rearmed"}
  /\ retry' = [retry EXCEPT ![t] = Doubled(@)]
  /\ IF pc[t] = "rearmed" THEN EnterLink(t)
     ELSE Goto(t, Onward(t)) /\ UNCHANGED reached
  /\ UNCHANGED <<state, gateVars, activePairing, handle, sessionVars, wake,
                 active, peer, netVars, callVars, diskVars>>

-----------------------------------------------------------------------------
(* teardownCycle, from stopPairing and stop. *)

\* Its second half: take the handle and dispose of it, or end at once.
TakeHandle(x) ==
  /\ handle' = None
  /\ IF handle = None
     THEN /\ tearing' = [tearing EXCEPT ![x] = "no"]
          /\ state' = "idle"
          /\ UNCHANGED netVars
     ELSE /\ Dispose(handle)
          /\ tearing' = [tearing EXCEPT ![x] = "handle"]
          /\ UNCHANGED state

Teardown(x) ==
  /\ Settled
  /\ Admitted
  /\ tearing[x] = "no"
  /\ x = "cancel" \/ ~stopped
  /\ cycleToken < MaxToken
  /\ stopped' = (stopped \/ x = "stop")
  /\ cycleToken' = cycleToken + 1
  /\ cycleActive' = FALSE
  /\ activePairing' = None
  /\ auth' = NoAuth
  /\ CancelBackoff
  /\ channel' = None
  /\ IF channel = None
     THEN TakeHandle(x)
     ELSE /\ Unlink(channel)
          /\ tearing' = [tearing EXCEPT ![x] = "channel"]
          /\ UNCHANGED <<state, handle, socket>>
  /\ UNCHANGED <<sessionClient, reached, active, peer, retry, entering, diskVars>>

ChannelClosed(x) ==
  /\ tearing[x] = "channel"
  /\ TakeHandle(x)
  /\ UNCHANGED <<gateVars, activePairing, sessionVars, reached, wake, loopVars,
                 entering, diskVars>>

HandleDisposed(x) ==
  /\ tearing[x] = "handle"
  /\ tearing' = [tearing EXCEPT ![x] = "no"]
  /\ state' = "idle"
  /\ UNCHANGED <<gateVars, activePairing, handle, sessionVars, reached, wake,
                 loopVars, netVars, entering, diskVars>>

-----------------------------------------------------------------------------
(* The network, the operator and the machine. *)
SignalingDown(h) ==
  /\ Settled
  /\ socket[h] = "up"
  /\ socket' = [socket EXCEPT ![h] = "down"]
  /\ UNCHANGED <<state, gateVars, activePairing, handle, sessionVars, reached,
                 wake, loopVars, link, callVars, diskVars>>

\* socket.io reconnects by itself until the handle is disposed of.
SignalingUp(h) ==
  /\ Settled
  /\ socket[h] = "down"
  /\ socket' = [socket EXCEPT ![h] = "up"]
  /\ UNCHANGED <<state, gateVars, activePairing, handle, sessionVars, reached,
                 wake, loopVars, link, callVars, diskVars>>

LinkDown(h) ==
  /\ Settled
  /\ link[h]
  /\ Unlink(h)
  /\ UNCHANGED <<state, gateVars, activePairing, handle, sessionVars, reached,
                 wake, loopVars, socket, callVars, diskVars>>

\* `connections.forget all`: the state file, then (asynchronously) the keys;
\* a key that cannot be removed is skipped.
ForgetAll ==
  /\ Settled
  /\ MayForget
  /\ forgetting # "clearing"
  /\ identity' = None
  /\ legacy' = FALSE
  /\ forgetting' = "clearing"
  /\ UNCHANGED <<state, gateVars, activePairing, handle, sessionVars, reached,
                 wake, loopVars, netVars, callVars, keys>>

ClearKeys ==
  /\ forgetting = "clearing"
  /\ forgetting' = "over"
  /\ keys' \in SUBSET keys
  /\ UNCHANGED <<state, gateVars, activePairing, handle, sessionVars, reached,
                 wake, loopVars, netVars, callVars, identity, legacy>>

\* The process dies and is started again; the disk survives.
Crash ==
  /\ MayCrash
  /\ state' = "idle"
  /\ cycleToken' = 0 /\ cycleActive' = FALSE /\ stopped' = FALSE
  /\ activePairing' = None /\ handle' = None
  /\ channel' = None /\ sessionClient' = None /\ auth' = NoAuth
  /\ reached' = FALSE /\ wake' = None
  /\ pc' = [t \in Tokens |-> "none"]
  /\ active' = [t \in Tokens |-> None]
  /\ peer' = [t \in Tokens |-> NoPeer]
  /\ retry' = [t \in Tokens |-> FreshRetry]
  /\ socket' = [h \in Handles |-> "free"]
  /\ link' = [h \in Handles |-> FALSE]
  /\ entering' = 0
  /\ tearing' = [x \in Teardowns |-> "no"]
  /\ forgetting' = IF forgetting = "clearing" THEN "over" ELSE forgetting
  /\ UNCHANGED <<identity, legacy, keys>>

LoopStep(t) ==
  \/ BeginFails(t) \/ \E h \in Handles : Begun(t, h)
  \/ \E w \in Wallets, named \in BOOLEAN : Link(t, w, named)
  \/ LinkFails(t) \/ Migrate(t) \/ KeystoreFails(t)
  \/ Approve(t) \/ BootstrapFails(t) \/ StoreKey(t) \/ PersistGrant(t)
  \/ Drop(t) \/ SessionEnds(t) \/ Disposed(t) \/ TimerFires(t) \/ Resume(t)

Next ==
  \/ StartPairing \/ EnterCycle
  \/ \E t \in Tokens : LoopStep(t)
  \/ \E x \in Teardowns : Teardown(x) \/ ChannelClosed(x) \/ HandleDisposed(x)
  \/ \E h \in Handles : SignalingDown(h) \/ SignalingUp(h) \/ LinkDown(h)
  \/ ForgetAll \/ ClearKeys \/ Crash

\* An await on a timer, a closed or disposed resource or the keystore ends; so
\* does one on a channel that closed or a socket that was disposed of.  Nothing
\* is assumed of the network or of the person at the wallet.
Fairness ==
  /\ WF_vars(EnterCycle)
  /\ \A t \in Tokens :
       /\ WF_vars(SessionEnds(t) \/ Disposed(t) \/ TimerFires(t) \/ Resume(t))
       /\ WF_vars(Migrate(t) \/ KeystoreFails(t) \/ StoreKey(t) \/ PersistGrant(t))
       /\ WF_vars(pc[t] \in {"begin", "rebuild"}
                  /\ (BeginFails(t) \/ \E h \in Handles : Begun(t, h)))
       /\ WF_vars(active[t] # None /\ socket[active[t]] = "disposed" /\ LinkFails(t))
       /\ WF_vars(active[t] # None /\ ~link[active[t]]
                  /\ (Drop(t) \/ BootstrapFails(t)))
  /\ \A x \in Teardowns : WF_vars(ChannelClosed(x) \/ HandleDisposed(x))

Spec == Init /\ [][Next]_vars /\ Fairness

-----------------------------------------------------------------------------
(* Reconnecting. *)

\* The cycle of this loop was cancelled, replaced or stopped.
Stale(t) == stopped \/ t # cycleToken

InSession(t) == pc[t] \in {"migrate", "bootstrap", "store", "stored", "serving"}

\* The slow tier is entered exactly at the threshold, and a loop in it, and no
\* other, waits COOLDOWN_RETRY_MS (broker.ts 504-539, 572, 592, 604).
DelayMatchesTier ==
  \A t \in Tokens :
    LET r == retry[t]
    IN  /\ r.cooling <=> r.fails = CooldownAfter
        /\ IF r.cooling THEN r.delay = CooldownDelay ELSE r.delay <= BackoffMax

\* The ramp falls only when a session that was served ends: no sequence of
\* failed links, dead sockets or failed rebuilds starts it over (498-501, 534-539, 560).
RampFallsOnlyAfterService ==
  [][\A t \in Tokens :
       retry'[t].delay < retry[t].delay => pc[t] = "closing" \/ pc'[t] = "none"]_vars

\* A loop that may still run tries again, whatever failed: there is no hard
\* stop (511-515).
ReconnectNeverStops ==
  \A t \in Tokens :
    pc[t] \in {"closing", "disposing", "backoff", "slept", "rearm", "rearmed"}
      ~> pc[t] \in {"link", "rebuild"} \/ Stale(t) \/ pc[t] = "none"

\* pair.start can cut any delay of the current cycle short: the one wake slot
\* belongs to it for as long as it sleeps (235-252, 652-660).
TryNow == \A t \in Tokens : ~Stale(t) /\ pc[t] \in Sleeping => wake = t

\* No signaling socket is abandoned: one that is not disposed of is the one the
\* next teardown or rebuild disposes of (578-584, 609, 631-638).
SocketOwned == \A h \in Handles : socket[h] \in {"up", "down"} => h = handle

\* The invitation callers are given is the one the loop listens on (269, 652-659).
AdvertisedIsServed ==
  \A t \in Tokens : pc[t] = "link" => activePairing = active[t]

\* send() and request() find the channel and the client of the session that
\* runs, and find none when none runs (159-172, 464-472).
SessionPublished ==
  /\ \A t \in Tokens :
       InSession(t) /\ ~Stale(t) => channel = active[t] /\ sessionClient = active[t]
  /\ sessionClient # None => \E t \in Tokens : InSession(t)

\* What callers rely on between two awaits of the loop is true: the invitation,
\* the channel and the client they find, and that they can cut a delay short.
CallersSeeTruth == AdvertisedIsServed /\ SessionPublished /\ TryNow

-----------------------------------------------------------------------------
(* The pairing handles. *)

Connecting(h) == {t \in Tokens : pc[t] = "link" /\ active[t] = h}

SignalingSeen(h) ==
  CASE socket[h] = "free" -> "none"
    [] socket[h] = "up" -> "alive"
    [] socket[h] = "down" -> "lost"
    [] socket[h] = "disposed" -> "disposed"

Handle(h) == INSTANCE PairingHandle WITH
  Calls <- Tokens, MayCrash <- MayCrash,
  signaling <- SignalingSeen(h),
  waiting <- Connecting(h),
  channel <- IF link[h] THEN "open" ELSE "closed"

\* The broker uses every handle as its contract asks, through cancels, overlapping
\* cycles and crashes: it never calls connect() on one that another loop waits on
\* or whose channel is open (the provider throws there), and the provider it
\* counts on does no more than the contract (565-577, 591-608; signaling/index.ts
\* 114-153).
KeepsHandles == \A h \in Handles : Handle(h)!Spec

-----------------------------------------------------------------------------
(* Binding and the agent identity. *)

\* Until the operator forgets, the agent never claims an identity whose key is
\* lost: the key arrives once, so metadata without it cannot be repaired
\* (198-207, 351-355).
IdentityHasKey ==
  forgetting = "never" /\ identity # None => identity \in keys \/ legacy

\* ... and a session that counts as granted can sign, for the bound controller.
GrantedHasKey ==
  forgetting = "never" /\ auth.granted => auth.agent = identity /\ identity \in keys

\* Once bound, no other wallet takes the agent over; only forgetting unbinds it
\* (identity/binding.ts 4-13).
BoundStaysBound == [][identity # None => identity' \in {identity, None}]_vars

\* Traffic of a foreign wallet is not routed: while its session is served the
\* broker is locked and grants nothing (315-325, 434, 447).
ForeignIsLocked ==
  \A t \in Tokens :
    /\ pc[t] = "serving" /\ ~Stale(t)
    /\ peer[t].named /\ peer[t].stored \notin {None, peer[t].wallet}
    => auth = Locked

\* What a session may do is what its wallet and its key entitle it to.
GrantIsRightful == GrantedHasKey /\ ForeignIsLocked

-----------------------------------------------------------------------------
(* Cancelling and stopping. *)

\* A cycle whose token was bumped is cut off: it can no longer be answered, and
\* a session of it has lost its channel (157, 614-639).  True of any number of cycles
\* unless one starts while a cancelled rebuild is still with the provider (README).
StaleLoopIsCut ==
  (\A x \in Teardowns : tearing[x] # "channel") =>
    \A t \in Tokens :
      Stale(t) => /\ pc[t] = "link" => socket[active[t]] = "disposed"
                  /\ InSession(t) => ~link[active[t]]

\* ... and its loop ends.
StaleLoopsEnd ==
  \A t \in Tokens : pc[t] # "none" /\ Stale(t) ~> pc[t] = "done"

\* Once it has been torn down, the broker holds no signaling socket: the handle
\* goes with the cycle (613).
TeardownFreesSocket ==
  /\ ~cycleActive /\ entering = 0
  /\ \A x \in Teardowns : tearing[x] = "no"
  /\ \A t \in Tokens : pc[t] \in {"none", "done"}
  => \A h \in Handles : socket[h] \in {"free", "disposed"}
=============================================================================
