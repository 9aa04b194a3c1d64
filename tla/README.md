# A TLA+ development for ac2

ac2 connects an AI agent to a person's wallet: the agent asks for signatures and
keys, the wallet user approves each one, and a headless daemon keeps the link
alive.  This directory holds the specifications of its stateful parts, the TLC
instances that check them, and TLAPS proofs.

## 1. The system

```
 OpenClaw plugin ──control socket──▶ daemon (run.ts) ──▶ broker ──▶ Liquid Auth provider ══▶ wallet
 (signing, x402, git)                  │   ▲               │            (signaling + WebRTC)
                                       │   │               └─ Ac2Client over one DataChannel
                 runtime host ◀────────┘   └── state file, OS keystore
                 (gateway adapter ⇄ OpenClaw gateway)
```

Everything is single-threaded JavaScript: a handler runs to its next `await`
without interruption, and anything may happen at an `await`.  Concurrency comes
from timers, network events, control requests and callbacks that run between
two awaits of somebody else's operation.

| component | state it keeps | operations | hard behaviour | what makes it correct |
|---|---|---|---|---|
| SDK request/response client (`ac2-sdk/src/client.ts`, `transport/`) | waiters by message id, `closed` flag | request, dispatch, timers, close, onClose | late, repeated or wrong answers; timeouts; closing in two steps | a request settles once, with an answer of its thread and type; none survives the end of the transport |
| Wallet-connection broker (`ac2-cli/src/daemon/broker.ts`, `identity/binding.ts`, `session/bootstrap.ts`) | pairing token, handle, channel, client, session authority, retry ramp, wake slot | startPairing, stopPairing, stop, send, request, the reconnect loop | loops that outlive their cycle; cancels at every await; crashes while a key is delivered | an identity always has its key; a bound agent stays bound; retries never stop and never storm; sockets are not abandoned |
| Liquid Auth provider (`ac2-sdk/src/providers/liquid-auth.ts`) | socket, peer, `closed`/`connected`/`negotiating`, presence, heartbeat | startPairing, connect, close, dispose | presence against heartbeat; renegotiation on the same socket; signaling loss while waiting for a person | a peer that left is noticed; a returning wallet is answered; after dispose nothing runs |
| Daemon (`ac2-cli/src/daemon/run.ts`) | agent registry, armed flag, runtime host | control requests, arming, shutdown | arming once against startup order; client loss | one agent per id; a wallet is awaited once a runtime is alive |
| Persisted state (`ac2-cli/src/identity/state.ts`) | one JSON file | load, merge, save | read-modify-write, crash mid-write | what was granted survives; what was forgotten stays forgotten |
| Keystore and migration (`ac2-cli/src/keystore/`, `identity/keystore.ts`) | keys in the OS keychain, the legacy file | import, migrate, clear | partial failure, crash and retry | no key is lost; the legacy file is retired only when everything is over |
| Control socket (`ac2-cli/src/control/`) | socket path, clients, subscriptions, event buffers | listen, request, events, ensureDaemonRunning | two daemons at once; events before a listener | one daemon per path; events in order |
| Process management (`ac2-cli/src/daemon/manager.ts` …) | pidfile, service units | start, stop, status | stale pidfiles | a live daemon is not forgotten |
| Gateway adapter and client (`ac2-cli/src/runtime/gateway/`) | connection, subscriptions, the active run, tool cards | connect, reconnect, turns, events, history replay | late close callbacks; overlapping turns; timeouts above timeouts | one live connection; every turn ends in one answer, once |
| OpenClaw plugin (`ac2-open-claw-reference/src/`) | local session, module handles | sign, request keys, x402 fetch, git sign | retry while the wallet re-links; backstop timers | a payment stays within its policy; a signature is not lost |
| Pair manager (`ac2-open-claw-server/pair-manager/server.js`), not modelled | one child process, its invitation, a timer | start, forget, status | a replaced child's late events | what is shown belongs to the child that runs |
| Schema, protocol builders, runtime loader, CLI, build tools | none to speak of | – | – | – |

How they interact: the broker creates an `Ac2Client` per session on the channel
the provider's `connect()` returns, and its session ends on that channel's
`onClose`; the provider's socket outlives sessions, the broker decides when it
is disposed of.  The broker reads and writes the state file at the binding
decision and the grant, and the keystore before the grant.  `run.ts` maps
control requests to the broker (`pair.start`, `pair.cancel`, `agent.request`,
`connections.forget`) and its events to subscribed clients and to the runtime
adapter.  The plugin reaches a wallet through a local session or, normally,
through the control socket.

## 2. The modules

| module | what it is | composes |
|---|---|---|
| `SingleUse` | the promise of a request: settled at most once, by an answer of its own or an error, never left after the end | |
| `Ac2Client` | the SDK client over a DataChannel, with the wallet's side of the protocol | implements `SingleUse` |
| `PairingHandle` | the contract of one pairing handle between a provider and its caller | |
| `Broker` | the wallet-connection broker with the network, wallets, keystore and disk around it | uses `PairingHandle`, one per handle |
| `LiquidAuth` | one pairing handle of the Liquid Auth provider: socket, negotiation, departure, heartbeat, disposal | implements `PairingHandle` |
| `GatewayLink` | the gateway adapter's connection: handshake, reconnects, subscriptions, the run slot | |
| `GatewayWallet` | the adapter's state that turns and cards share: the slot, the thread looked at, whether there is a wallet | |
| `GatewayTurns` | what the wallet is shown of its turns: streams, segments, grace, history fallback | extends `GatewayWallet` |
| `GatewayCards` | tool cards, spawned tasks and their watchers, the replay of a thread | extends `GatewayWallet` |
| `Daemon` | daemon processes and the agents that spawn, replace and join them: socket path, pidfile, arming, registry | |
| `Storage` | the state file two processes share, and the keystore with its migration | |
| `SignRelay` | one signature from a tool through the daemon to the wallet: retries, deadlines, backstop | |
| `X402` | the paid fetch: policy, selector, funding swap, group, signing | extends `SignRelay` |
| `GitSign` | `git-sign`: the walk over a commit graph, rewriting, the ref | extends `SignRelay` |
| `Tools` | `ac2_sign`, `ac2_x402_fetch` and `git-sign` over one relay | composes `SignRelay`, `X402`, `GitSign` |
| `Ac2ClientProofs`, `BrokerProofs`, `GatewayLinkProofs`, `LiquidAuthProofs`, `DaemonProofs`, `StorageProofs`, `ToolsProofs` | the theorems | extend their modules |
| `GatewayViewProofs` | the theorems about what the wallet is shown | extends `GatewayTurns` and `GatewayCards` |
| `MC...` | TLC instances: the sets of calls, handles, wallets, threads, offers, commits | extend their modules |

Definitions named `X_Something` directly above a definition `X` are *mutants*:
the form `X` would have with a plausible bug.  Nothing in a specification uses
them; they document, and let one re-check, that each property can fail.

### Ac2Client

State: one promise, id, kind and timer per call; `pending` (the waiter map);
`closed`; the channel's `readyState`; the frames on the wire in both directions;
the prompts the wallet shows.  Each handler is one action: `Request`
(send, then register waiter and timer), `RequestThrows`, `Receive` (dispatch),
`TimerFires`, `Close`, `ChannelCloses` (with the client's own `onClose` hook),
and the wallet's `PeerReceives`, `PeerReplies`, `PeerResponderThrows` and
`PeerSpeaks` (any frame in a known thread, twice if it likes).  `closeAware`
says which transport the client was given: the bare DataChannel, whose `close()`
only takes effect at `onclose`, or the provider's wrapper, which reports the end
at once.  Frames lost when the channel closes are lost for good.

Message ids do not repeat (`MayUse`): every caller in the repository takes them
from `generateMessageId`.  `request(message)` would accept an id of the caller's
own; one that repeats while the first waits overwrites its waiter, and is
outside this model.  Binary and raw frames, which never reach `dispatch`, and
the rewriting of the handler map are abstracted.

### Broker

State: the closure variables of `createConnectionBroker` under their own names
(`auth` groups `locked`, `identityGranted`, `agentDid`; `wake` is the one
backoff timer and waker), the position and locals of every cycle loop
(`pc`, `active`, `peer`, `retry`; a loop is named by its token), the sockets and
links the handles stand for, the pending control calls (`entering`, `tearing`),
and what survives a restart (`identity`, `legacy`, `keys`).

The steps are the stretches between awaits:

| code | actions |
|---|---|
| `startPairing`, `beginPairing` | `StartPairing`, `EnterCycle`, `Begun`, `BeginFails` |
| `runConnectedSession` | `Link` (with `Decision`), `Migrate`, `KeystoreFails`, `Approve`, `BootstrapFails`, `StoreKey`, `PersistGrant`, `Drop`, `Finally`, `SessionEnds` |
| `runCycleLoop` | `LinkFails`, `AfterSession`, `Disposed`, `TimerFires`, `Resume`, and the retry policy `NoteFailure`, `Doubled`, `NextRetry` |
| `teardownCycle` (`stopPairing`, `stop`) | `Teardown`, `ChannelClosed`, `HandleDisposed` |
| environment | `SignalingDown`, `SignalingUp`, `LinkDown`, `ForgetAll`, `ClearKeys`, `Crash` |

`Settled` is the microtask rule: an event (timer, request, network) is handled
when what the previous one made runnable has run.  Two constants describe the
callers and the provider: `Serial` (a control client waits for its answer before
the next call) and `SlowAwaits` (the provider's `close()` and `dispose()` and
the service key take time, as their interfaces allow).  A provider may do to a
handle what `PairingHandle` allows and no more: `connect()` may resolve on a
socket that dropped since, a socket may drop and come back while a channel is
open, and a channel may close at any time.  Abstractions: an
identity and its key are named by the wallet that issued them; key material is
present in the wallet's answer; failures to write the state file, which the code
ignores, are not modelled; ids, DIDs and chat routing are left out.

### GatewayLink

State: the closure variables of the adapter (`client`, `reconnectTimer`,
`stopped`, the two subscription records as one set `subscribed`, `activeRun`),
the position of `handleInbound` (`turn`), and one record per connection ever
made: its WebSocket (`ws`), the locals of its RPC client (`ready`,
`connectSent`, `challengeTimer`, the signature under way), the subscription
requests that wait for an answer, and what the gateway has registered.

| code | actions |
|---|---|
| `connect`, `scheduleReconnect`, `start`, `stop` | `Start`, `ReconnectTimerFires` (with `Connect`), `Stop` |
| `client.ts` handshake | `Opens`, `Challenge`, `ChallengeTimerFires`, `SignatureDone` (with `SendConnect`, `Transmit`), `HelloOk`, `Refused`, `ConnectTimeout` |
| `ready.then`, `ready.catch`, `onClose` | the rest of `HelloOk`, `HandshakeFails`, `Closes` |
| `ensureSessionEventsSubscribed`, `ensureSubscribed` | `Ask` in `HelloOk`, `Hydrate`, `StartTurn`; `Subscribed`, `SubscribeFails` |
| `handleInbound`, `onDisconnected` | `StartTurn`, `CallAgent`, `AgentAnswers`, `TurnEnds`, `WalletDisconnects` |

`promptClose` says when the close of a socket the adapter closed itself is
reported: before the reconnect delay (1 s or more) is over, or whenever the
network gives up, as a half-open socket does.  One that is closed while still
connecting reports at once.  `signed` says whether a device identity is
configured.  Left out: the length of the reconnect delays, the device token, the
frames sent to the wallet; overlapping turns are in `GatewayTurns`.

### LiquidAuth

State: the closure variables of `startPairing` under their own names
(`peerLinked`, `closed`, `connected`, `stable`; `negotiating` is "`pc` is not
idle"; `bound` says that `close` has been assigned), the await `connect()` is at
(`pc`), the socket, the channels, the timers (`grace`, `wake`, `beat`), what the
broker holds (`session`), and of the other side whether the wallet is in the
room (`wallet`), whether its end of the peer connection lives (`mate`), and
whether the server is recounting the room (`recount`).  There is one peer
connection at a time; `mate` is that of the latest offer.

| code | actions |
|---|---|
| `startPairing`, `awaitSignalConnect`, socket events, wake timer | `SocketUp`, `SocketDrops` (with the guard of a negotiation), `GraceElapses`, `WakeKick`, `StartFails` |
| `connect` with `negotiate` and `awaitSignalingUp` | `Connect`, `WalletLinks`, `DataChannel`, `PauseOver`, `ControlOpens`, `OpenFails`, `WaitFails` |
| presence handler | part of `WalletLeaves`, `WalletReturns`, `Recount` (`Told`) |
| `onRemoteOffer`, and the one-shot listener inside `peer()` | `Offer` |
| heartbeat interval and `onmessage` | `Quiet`, `Heard`, `HeartbeatCloses` |
| `close`, `emitClose`, `dispose` | `CallerCloses`, `ControlCloses`, `Dispose` |
| environment | `WalletLeaves`, `WalletReturns`, `PathDies`, `Recount` |

Assumed of the code outside: `SignalClient.peer()` takes one offer per call and
does not reject by itself; closing the socket on `dispose()` still tells a
guarded negotiation; the caller keeps to `PairingHandle` and passes no abort
signal: one `connect()` at a time and none during a session, `close()` and
`dispose()` whenever it likes.  Closing the data channel reports its close, which
is how a `dispose()` under a live session is heard of.  A recount is
over within the grace; a wallet in the room that has no peer connection offers
one, again and again.  `MayStrand` lets a wallet lose its peer connection
between offer and data channel, `MayRecount` lets the server recount.
`silence` keeps of `lastInboundAt` only which of the two limits it has passed.

### GatewayTurns

`GatewayLink` knows one turn at a time and says when the connection is good;
here the connection is up, coming up or gone, and `handleInbound` runs once per
message, so turns overlap.  State: the adapter's `activeRun`, `activeThid` and
subscriptions, the position and `ActiveRun` of each turn, the gateway's runs,
transcripts and events on their way, and what the wallet shows (`bubbles` that
are final, `preview` of a thread that spins).  A text is named by the segments
it consists of, since the code compares texts only to find the tail that is not
committed yet.

| code | actions |
|---|---|
| `handleInbound` | `Ignored`, `Inbound`, `Ready`, `CallAgent`, `AgentAnswers`, `AgentFails`, `RunDone`, `RunFails`, `GraceElapses` |
| `finalizeRun`, `fetchHistory` | `FinalizeRun` in `GraceElapses`; `HistoryReply`, `HistoryFails` |
| `interpretGatewayEvent`, `commitSegment`, typing | `Event` (`Matches`, `Typing`, `CommitSegment`) |
| `onConnected`, `onDisconnected`, `onConversation`, link callbacks | `WalletConnects`, `WalletDisconnects`, `OpensThread`, `ClosesThread`, `LinkReady`, `LinkCloses` |
| the gateway | `RunStarts`, `RunSays`, `RunEnds` |

`faults` names what may yet go wrong in a behaviour: overlap, late events,
deadlines that pass, a gateway that sends no messages or does not stream, a turn
within the clock skew, one lost connection, one departure of the wallet.  A
scenario is a set of them, so that the state space stays finite and a property
can say under which disturbances it holds.  The 2-second skew
(`RUN_START_SKEW_MS`) is a choice of how many earlier transcript entries count
as this run's.

### GatewayCards

State: the tool output kept per call, the watcher of each spawned task, replays
asked for, the calls as the gateway has recorded them, frames on their way, the
wallet's cards by thread and id.  `Text` gives each tool the pieces it will put
out; a tool tells them in snapshots (all so far) or, when it is one of `Deltas`,
the new piece at a time, and its result repeats all of them or their tail.  A run
is named by its thread, as the session key names it: a newer turn of a thread
gets the frames of the older one (`overtaken`, auxiliary, holds the calls it cut
into).  A turn ends with its run (`TurnEnds`) or gives up while the run goes on
(`TurnGivesUp`).  `CallEvent` is `handleToolEvent` with
`HandleToolEvent` (start, update, result), `HandleSpawnResult` and `HandleYield`;
`WaitAnswered`, `WaitRejected` and `ResultRead` are `watchSpawnedTask`;
`OnConversationOpen`, `OnConnected`, `HistoryAnswered` and `Replayed` the replay.
The names that `GatewayTurns` has too (`CardsInit`, `CardsNext`, `CardsSpec`,
`GatewayReady`, `GatewayCloses`) are distinct, so that one module can extend both.
`MergeToolOutput` works on sequences of output pieces; the length cap is `Cap`
pieces.

### Daemon

State: how far each daemon process is, the socket path, the pidfile, the
start-up report, the flags of `runDaemon` (`armOnAgentHello`, `waitingForRuntime`,
`pairingArmed`, the agent registry), the connections, and where each agent is in
`ensureDaemonRunning` and `connectAgentSession`.

| code | actions |
|---|---|
| `prepareSocketPath`, `listen` | `Stat`, `Probe`, `Unlink`, `Listen` |
| `runDaemon` | `BrokerStart`, `Decide`, `ReportRuntimeReady` (`ArmPairingOnce`) |
| shutdown | `Stop`, `Exit`, `Kill` |
| `ensureDaemonRunning`, `startDetached`, `stopDaemonProcess` | `Begin`, `Check`, `AskStop`, `Terminate`, `WaitGone`, `CheckPid`, `StartDetached`, `Spawn`, `WritePid`, `Poll`, `ReadReport`, `Deadline` |
| `agent.hello`, `onClientClosed`, `AgentSession.close` | `Connect`, `Hello`, `Leave`, `Dropped`, `ClientClosed`, `Retry` |

Each file-system step is an action, because another process may come between.
`mode` is what the configuration asks pairing to wait for.  A daemon's version
and adapter differ from the agents' in one case only: `old`, which ran before.
The server may notice late that a client left (`"left"`).

### Storage

Every write of `ac2-state.json` is a read that computes a patch (`Start`), the
second read inside `saveAc2State` (`Merge`), and a `writeFileSync` that truncates
first (`Open`, `Write`).  Inside one process these run without an await; they
are separate because the pair process does the same, and because a kill may
come between.  `clearAc2State` before a save is `Clear`.  `forgotten` (auxiliary)
holds the connections that were forgotten while no cycle served them and the
other process was not writing, and that nothing has used since; with `Amidst`
also those forgotten while the other process was in the middle of a write.  The
keystore side: `OpenKeystore`, `MigrateEntry` per id, `RetireLegacy`,
`EnsureServiceKey`, `StoreAgentKey`, `ClearAgentIdentities`; every export,
import, removal and rename may fail.  An export that fails makes the migration
import an id again that is there; `Replaces` says whether the engine, which is
not part of the repository, then replaces the key or fails.

### SignRelay, X402, GitSign, Tools

`SignRelay` is one call of `resolveSign`: attempts over the control socket, the
daemon's request with its timeout, the tool's backstop, the poll while a wallet
re-links.  Time is counted in polls of one second; other times are scaled down
and `Grace > 2 * Lag` says that the backstop's margin (10 s) exceeds what the
control socket needs both ways.  The daemon may hang, die and be restarted; the
session may end, and its `closing` is the window between the end of a session
and the state "reconnecting" in which `request()` throws another error.

`X402` is `x402FetchFlow` above it: `Fetch` with `SelectRequirements`, `Fund`
(holding, or opt-in and swap in one group), `AskGroup`, `AskTxn`,
`WalletReplied`, `Present`.  `Preferred` is the selector's choice and `Swap` one
leg of the route; what a group does on the ledger (`Executes`) and what it costs
(`TotalAlgoInput`) are recursive functions over its positions.  Amounts are
integers, prices 1:1; slippage is rounded up and the pool's minimum leg doubled
as in the code.  `GitSign` is
`signCommits` with `gitSignFlow`: `Survey`, `SkipCommit`, `AskCommit`,
`CommitReplied`, `UpdateRef`, or `GitFails` at any of them, while the developer
commits and switches branches.
Commit dates are monotone, so that `rev-list --reverse` gives parents first.

## 3. What is checked

All runs are exhaustive.  Deadlock is not checked: calls, turns and tools are
finite, an adapter or a daemon that was stopped rightly stops, and bounds on
troubles, kills and writes end the rest.

| run | instance | states | shows |
|---|---|---|---|
| `ac2client` | 2 calls, 2 ids, 2 wallet frames, both transports | 271,458 | no timer or answer of one request reaches another, no frame is swallowed, closed clients settle everyone, `SingleUse` is implemented |
| `broker` | one cycle, 2 wallets, 2 handles, thresholds of the code (8 failures, 2-30 s, 300 s), keystore failures, a kill or forgetting everything at any await | 268,564 | the ramp and its tiers, socket ownership, what callers are shown; an identity on disk has its key; a session grants only what is its due; retrying never stops |
| `broker_cancel` | cancel and stop at any await, 2 cycles | 24,856 | a cancelled cycle is cut off and its loop ends |
| `gateway_link` | 3 connections in a row, 1 session, signed or not, prompt or late closes | 229,156 | a retry always follows, one connect request each; with prompt closes flags and run describe the one connection there is |
| `liquid` | one handle, a wallet that comes and goes, recounts, `close()` and `dispose()` at any time | 718 | no deaf wait, healthy links kept, re-offers answered, `PairingHandle` is implemented (every end told, nothing after `dispose()`) |
| `gateway_turns` | 2 turns, 2 threads, 2 segments, seven scenarios of faults | 561,350 | what a run says lands in the thread that asked; undisturbed, all of it and once; every turn ends |
| `gateway_cards` | one of two tools (snapshots of a text that repeats itself, deltas of one that does not), a spawn or a yield, 2 threads, `Cap` 2, 3 pieces of output, 2 frames on the way, one departure of the wallet, any number of gateway losses | 1,483,188 | one card per call in its own thread; a tool card shows a beginning of what the tool put out; a result shown is true; running tasks are settled |
| `daemon` | 2 agents, 2 daemons, 3 connections, every mode, an old daemon or none, 1 kill | 401,024 | one daemon serves, ids belong to live endpoints, no wallet without a runtime |
| `daemon_hello` | the same with the plain socket mode, no kill | – | counterexample, section 5 |
| `storage` | 2 connections, 1 agent key, 3 writes, 1 kill, every content of the legacy file | 570,999 | what was forgotten stays so, the legacy file retires when lifted, the service key stays |
| `storage_upgrade` | the same without writes of the state file | – | counterexample, section 5 |
| `tools` | 1 trouble; offers on both sides of the policy, wallets on both sides of each limit, a merge with four patterns of signatures | 286,256 | the wallet is asked once per item, the backstop is last, groups execute and are what was chosen, commit chains are signed whole, no commit is lost, every tool ends |

The type invariant of every module holds in the instance of its run, and is
proved (that of `Tools` is about the relay and the outcome of the tool; `PayInv`
and `GitInv` add the types of the other two); it is left out of the configurations,
which keep to what is worth a run. Also stated, true in these instances and
without a run, but proved: `LiquidAuth!EndIsReported` (a step of the contract),
`Broker!KeepsHandles`, `BoundStaysBound` and `RampFallsOnlyAfterService` (of one cycle),
`GatewayTurns!NoStuckPreview` and `SlotGuard`, `GatewayCards!NothingAfterStop` and
`ToolCardsStay`.

The bounds.  Two calls are enough for one to disturb another, since a call only
meets others through the map entry of an id; two frames give a first answer and
a late or second one.  In the broker a cycle uses one handle at a time and
replaces it by another, so two names suffice where names are reused after
disposal.  Two wallets are a bound one and a foreign one.  The failure threshold
is that of the code in `broker` and 2 in `broker_cancel`, where the ramp is not
the question.  Callers are serial in both (`Serial`, `MaxEntering` 1): see
section 5 for what two simultaneous `pair.start` calls do.  Three gateway
connections are a dead one, the one it disturbs and the one that replaces that.
The provider needs no bound: one handle serves one wallet and only the last peer
connection matters.  Two turns are one that has the slot and one that takes it;
two segments a committed one and a tail.  Two agents are one that spawned and
one that finds; the third connection is the one a returning agent opens while
its first is not yet seen closed.  Three writes of the state file are a use, a
forget and one more beside or after it.  One trouble places every single fault
at every step of a tool; `RelinkWait` and `Timeout` of 1 let each deadline pass
before and after what it races.

### Fairness

`Ac2Client`: an armed timer fires, and a channel that is closing finishes
closing.  Nothing is assumed of the wallet, nor that frames arrive.
`Broker`: timers fire; `close()`, `dispose()`, the keystore and
`provider.startPairing` return or fail; `connect()` of a disposed socket rejects
(the provider's abort and health guard); the closing of a channel is heard of.
Nothing is assumed of the network or of the person at the wallet: a loop may
wait for a wallet, and a prompt for its user, for ever.

`LiquidAuth`: the pause, the opening and the dead-socket deadlines and the
heartbeat interval fire; the broker calls `connect()` again and closes a channel
that ended; a wallet in the room acks the link and offers.  Nothing is assumed
of the network.  That a disposed handle ends its `connect()`, which `Broker`
assumes, is in `DisposeEndsConnect`.

`GatewayLink`: `start()` gets to its connect, the reconnect and handshake timers
fire, a socket being closed is closed some day.  Nothing is assumed of the
gateway.

`GatewayTurns`: the handshake is decided, calls are answered or their deadlines
pass, the grace elapses; runs accepted by the gateway start and end, and events
on their way arrive, which without the fault "timeout" stands for a gateway
that is faster than the deadlines.  `GatewayCards`: `agent.wait` is answered,
fails or meets its deadline (server's and client's), and the history call ends.

`Tools`: the tool's process runs, the daemon serves its socket unless it hangs
or is dead, and time passes.  Nothing is assumed of the wallet, the network or a
restart.  `Daemon` and `Storage` claim safety only: their processes are started
and stopped by people.

## 4. What is proved

For every value of the constants, any number of calls, ids, handles, wallets,
cycles, simultaneous callers, connections, turns, threads, writes, kills,
daemons, agents, commits, times and troubles: each safety property of the runs,
with the types.  Three kinds of theorem are narrower than their run's property
alone, and say so in their statement: those about one cycle (`OneCycle`), the one
about cancelled loops (`Serial`, `NotOvertaken`) and the one about agents with one
id each (`OneIdEach`).  Why each is needed is said below.

* `TypeCorrect` in each proof module and `CardsTyped`: the type invariants.  That
  of `Storage` adds what a write under way may hold: a patch is one of the shapes
  the writers compute, and over a state it gives a state.

**The client.**

* `Ac2ClientProofs!NoWaiterIsOrphaned` and `TheEndRejectsAll`.  Neither property
  is inductive: that closing rejects everyone needs that every waiter is in the
  map, which needs that no later request takes the entry of an earlier one.  The
  invariant `Correlated` adds that an entry names a live waiter of that id, that
  an id belongs to one call, and that the map stays empty after the end.
* `ClientKeepsPromise`: `Spec` implements `SingleUse`.  The mapping is the one the
  run checks; a step of the client is a step of the promise or a stutter, by
  action.  That an answer offered to a call is one the wallet gave in its thread
  needs `Threads`: every frame, prompt and spoken word on either side is of an id
  that was asked.  `SingleUse` has no fairness, so this is the whole refinement.
* `EveryFrameIsSeen`: only `Receive` takes a frame, and it settles or is handled.

**The broker.**

* `DelayIsOfItsTier`: the slow tier is entered exactly at the threshold and the
  delay is that of the tier, however often a delay doubles.  It is proved together
  with the types (`Inv`), since the range of the doubled delay depends on the
  tier, and with `SessionPeer` (a session knows its wallet).
* `KeyNeverLost`: until the operator forgets, an identity on disk has its key in
  the keystore or still in plaintext, through cancels, overlapping cycles, crashes
  and keystore failures.  `KeyInv` adds that a session about to write its grant
  has its key stored.
* `SocketAlwaysOwned`, `CallersAreToldTheTruth`, `GrantAlwaysRightful` and
  `BindingIsForLife`, when calls are answered one by one and nobody cancels
  (`OneCycle`, which is what the run `broker` assumes); where cycles overlap several
  are false (section 5).  `LoneInv` is about the one loop there is: it runs under
  the newest token and no call is on its way beside it (`Alone`), what is
  published is what it holds (`Published`), and what it is about to grant is due
  to its peer (`Entitled`).
* `RampNeverRestarts`, of one cycle: a loop at `connect()` has served nobody since it
  called it (`Unserved`), so what fails there counts as a failure, and neither a
  failure nor a doubling shortens a delay (`DelayGrows`).  With cancels it is false
  (section 5).
* `StaleLoopAlwaysCut`, with cancels at any await and any number of cycles.
  `CutInv` says of every loop whose token is not the newest what has been taken
  from it (`Severed`).  It holds as long as no new cycle starts while the rebuild
  of a cancelled one is still with the provider (`NotOvertaken`): the proof fails
  exactly there, and the failure is a counterexample (section 5).

**The contract between provider and broker.**

* `LiquidAuthProofs!ProviderKeepsHandle` and `BrokerProofs!HandlesAreKept`: both
  sides implement `PairingHandle`.  `LiquidAuth` says what the code of the provider
  does with a caller that keeps to the contract; `Broker` says what the code of the
  caller does with a provider that does.  In each, the steps of the other side are
  those the contract allows, so neither model assumes of the other what the other
  does not show; without the contract, "the provider" of `Broker` and "the caller"
  of `LiquidAuth` would each be a guess.  Safety only: that the provider answers is
  `OfferAnswered` and `DisposeEndsConnect`, which TLC checks.
* On the provider's side, the step that could break it is `GoLive`: the await of
  500 ms before it must not outlive `dispose()` or the peer.  That is `NegotiatesAlone`
  and the invariants of `NeverDeaf` and `EveryEndIsTold`.
* On the broker's side nothing is assumed: cancels, stops, calls that overlap and
  kills at any await.  `HandleInv` says that two loops that still run never hold
  the same handle (`Held`), although the `handle` the broker disposes of may belong
  to another loop than the one it means; that a channel is open only in the session
  of the loop that holds its handle; and that no channel is open on a socket that
  is not.  What a step does to the handles of other loops is at most to close or
  dispose of them (`Fading`), which the contract always allows.

**The provider and the gateway.**

* `LiquidAuthProofs!NeverDeaf`, `EveryEndIsTold`, `DisposalIsFinal` and
  `HealthyLinksStay`.  A judge that closes the peer must know that no negotiation
  runs, and a negotiation that no session is live: `NegotiatesAlone`.  That a
  recount cannot end a healthy link needs `StableIsSettled`: signaling counts as
  stable only on a socket that is up and past its recount.
* `GatewayLinkProofs!NeverParked`, `OneConnectRequest`, `SilentAfterVerdict`: for
  any number of connections, prompt or late.  `PromptLinksAreClean`: with prompt
  closes, four invariants at once.  They rest on `Inv`: a connection's frames and
  signatures add up to at most one (`Sound`); the client is always one that can
  still succeed, and without one a retry is armed (`Standing`); with prompt
  closes at most one socket is in use, and nothing is thought subscribed without
  a client (`OneAtATime`), which is what makes the flags true of the next one.
* `GatewayViewProofs!RightThreadHolds`, under any faults.  Bubbles being in the
  right thread is not inductive: the words come from events, transcripts and the
  text of a run.  `Owned` says of each of these whose they are, and that a turn
  that has not begun has said nothing.
* `NoPreviewStuck` and `SlotIsGuarded`, under any faults.  Both need that the slot is
  of a turn that waits for its run or its last words (`SlotWaits`): an event can
  only light the preview of a turn that will put it out.
* `CalmIsExactHolds` and `LastIsShownHolds`.  In steady behaviour (a gateway that
  may be silent or mute, but no overlap, loss or delay) `Calm` follows a segment
  through four layers: `Control` (one turn at a time; the slot, the job and the
  connection are in step with its position), `Recording` (the transcript since its
  start is the run's), `Delivery` (what was recorded is in events, in the streamed
  text or still to be fetched, in order, and once) and `Display` (what was
  committed is shown, in one bubble each).  Nothing is lost or doubled because
  each step moves a segment from one layer to the next.
* `CardsAreFiled`, `OutputsAreBeginnings` and `ResultsAreTrue`.  `Filing` says that
  cards, shown or in a history on its way, are of calls that were made, in the
  thread they were made in, one each; a replay keeps this since its thread is the
  only one it touches.  `Growing` says of the frames of a tool on their way that
  each tells a part of its text, in the order it was put out (`Framed`), and of
  what is kept that it is a beginning which they go on from (`Caught`): a
  snapshot is never older than what is kept (`SnapshotMerges`), a result that
  repeats the tail adds nothing (`TailMerges`), and of deltas none is missing
  between what is kept and the first on its way (`Gapless`, `DeltaMerges`).  The
  last is why deltas need that no newer turn took the slot (`Followed`): who has
  the slot from the start of a tool hears all of it (`Attached`).  `Told` says
  that a result is read only when its child was seen to end well.
* `ReplaysRestore` and `StopIsFinal`.  A history was recorded before it is shown, and
  what happens in between must not be lost to it: `Restorable` says that a history
  without a tool's card has no card of it to take away, and no frame before it that
  would put one up.  One connection keeps its frames in order; when it closes,
  histories are dropped along with events.  After `stop()` there is no connection
  again (`Severed`), and the watchers it leaves behind show nothing.

**The daemon and the disk.**

* `DaemonProofs!OneGetsToServe`.  That nobody who serves has ended is in the
  theorem because a stale socket file can be unlinked twice.  Until then
  `PathIsServed`: whoever bound the path answers there, whoever listens bound it,
  so a probe is always answered and nobody reaches `Unlink`.
* `DaemonProofs!EndpointsAreOpen`, for agents that register under one id each
  (`OneIdEach`; under two it is false, see section 5).  `Registered` says that an
  id names an open or leaving connection of its own daemon, and that the
  connection names the id, which is what lets `ClientClosed` find it;
  `HeldByOne` that a connection is one agent's.  `WalletIsLetInForARuntime`
  follows from `HeldByOne` without that assumption.
* `StorageProofs!ForgottenStaysForgotten`.  A forgotten connection being out of
  the file is not inductive: a write under way could bring it back.  `ForgetInv`
  says that no write under way of either process mentions it (`Gone`), that the
  forget in progress is the only writer and its own patch is clean (`Going`), and
  that only the daemon forgets.  A write keeps this because it puts back what it
  read of every connection but the one it uses (`PatchesAreClean`), and a clean
  patch over a clean file is clean (`OverIsClean`).  It is proved without
  `Amidst`; with it, it is false (section 5).
* `StorageProofs!LegacyRetiresLifted` and `ServiceKeyIsKept`.  They need that
  what a migration without failures is done with is lifted
  (`MigrationIsHonest`), and that the key that was shown is the one stored, which
  is so as long as an import replaces no key (`~Replaces`): a migration that is
  repeated after an export failed would else put the old service key in the place
  of a new one that was shown.

**The tools.**

* `ToolsProofs!ShownOnce` and `BackstopFiresLast`.  The tools only begin a call,
  take its reply or leave the relay alone (`ToolsOnlyAsk`), so both are about the
  relay.  `RelayInv` says that a request is on its way exactly while the tool
  waits, or was lost with its daemon (`Paired`); that the backstop is later than
  the hops and the timeout the request still has ahead, which needs
  `Grace > 2 * Lag` (`InTime`); and that what will be retried has not been shown
  (`NotShown`).
* `PaymentStands`: for any offers, wallets, fees, reserves, minimums and slippage.
  Most of it is arithmetic about a plan: that an opt-in, a swap of one or two legs
  and the payment, in this order and within what `Affordable` was told, leave the
  account above its minimum balance after each position.  `PayInv` carries the
  plan through the signing: a signature at hand is over the transaction it is kept
  for or over the whole group.  The assumptions are that amounts are natural
  numbers and that an asset is not held without opting in (`PayAssumption`).
* `RangeSigned`: for any acyclic history behind the tip (`GitAssumption`), merges,
  ranges that are partly signed and a developer at work included.  `GitInv` says
  that a commit already walked over was rewritten on what its parents became, or
  rightly skipped, and that its parents were walked over before it.  A history is
  the least set that holds a tip and is closed under parents (`HistoryIs`, which
  needs that no path is longer than there are commits), so the history of the new
  tip is the image of the old one under `Becomes` (`HistoryBecomes`).
* `NoCommitLost`: the same image covers the branch that moves; no other does
  (`HistoryIsKept`), and a developer's commit only adds (`HistoryGrows`).

Recursive functions (`Within`, `Executes`, `TotalAlgoInput`) are reasoned about
through `RecursionExists` and `Below` in `ToolsProofs`: from the well-foundedness
of `<` on the naturals, any set of numbers that holds 0 and, with a number, its
successor holds them all, and the function a recursion describes exists.

The assumptions are those on the constants, named in the modules, the hypotheses
above, and the modelling assumptions of section 2.  Only model-checked: liveness
under fairness, which is out of the prover's reach (`CloseSettles`,
`ReconnectNeverStops`, `StaleLoopsEnd`, `Recovers`, `EveryTurnEnds`,
`TasksSettle`, `OfferAnswered`, `ToolEnds`, and without a run
`LiquidAuth!DisposeEndsConnect` and `DepartureNoticed`).

## 5. Where the code and its documentation disagree

Each is a TLC counterexample; the quoted line and the mechanism are in
`PROJECT.json`.

1. `daemon_hello`: an agent that says hello between `listen()` and the end of
   `runDaemon` is registered but does not arm pairing; the daemon then waits for
   a runtime that is already there.
2. `storage_upgrade`: a first start that cannot read the legacy master key goes
   on and generates a new service key; the migration of a later start passes
   over the old one, and the service DID has changed.

### Seen while modelling

Counterexamples that TLC finds in these modules under other constants or
against properties that no run lists.  Each says how to see it.

* `Broker`, `StaleLoopIsCut` with cancels, three handles and `MaxToken = 4`: a
  cancel and a new `pair.start` during a handle rebuild; the late rebuild puts
  its handle in the place of the new cycle's, the second cancel disposes of that
  one, and the loop it meant to end keeps its socket.  `broker_cancel` stops
  short of it; `StaleLoopAlwaysCut` excludes it by `NotOvertaken`.
* `Broker`, `TeardownFreesSocket` with cancels: a cancel that arrives while a
  pairing is being begun leaves its socket connected and its invitation shown.
* `Broker`, `BoundStaysBound` with cancels and two wallets: a session cancelled
  while its key is stored writes its grant over the one the next cycle gave to
  another wallet, although `binding.ts:4-9` says that an agent stays bound to the
  first.
* `Broker`, `SessionPublished` with cancels: a session that was cancelled in an
  await of the keystore unwinds when its successor has connected; its `finally`
  clears the channel and the client of the successor, and a connected wallet
  cannot be asked to sign, although `broker.ts:163-168` says that the client is
  `null` only while no session is connected.  The next cancel then finds no
  channel to close and disposes of a handle under an open one, which a provider
  has to stand (`PairingHandle`; the Liquid Auth provider reports the end).
* `Broker`, `RampFallsOnlyAfterService` with cancels and `MaxToken = 3`: a cancelled
  loop that gets past the migration late marks the loop that runs as having been
  connected (`reachedConnected` is the broker's, not the loop's), and a link failure
  of that one then starts its ramp over.
* `Broker`, a `connect()` on a handle that is disposed of already (a step that makes
  `socket[active[t]]` "disposed" at "link"), with cancels, `Serial = FALSE` and
  `MaxToken = 3`: a cancel that waited for a channel to close disposes of the
  handle of the cycle begun meanwhile, whose loop is about to re-arm on it.  The
  contract allows the call, and the provider rejects it.
* `Broker`, `SocketOwned` with `Serial = FALSE` and `MaxEntering = 2`: two
  simultaneous `pair.start` calls; the second abandons the socket of the first.
* `GatewayLink`, `FlagsDescribeLink`: the late close of a dead connection wipes
  the flags and the run of the live one, and a second connection replaces it.
* `GatewayTurns`, `Complete` in a scenario `{"overlap"}`: a turn that takes the
  slot while another streams makes the rest of the first one nobody's, although
  `adapter.ts:875-878` counts on committed segments being all.
* `GatewayCards`, `OutputIsPrefix` of a delta tool that `Repeats`: a delta that is
  the tail of what is kept is taken for a repeat and dropped (`adapter.ts:397`),
  and the whole result after it, which then does not begin with what is kept, is
  appended.  The same without `overtaken`: a newer turn of the thread takes the
  deltas over with nothing kept, and its card starts in the middle.
* `GatewayCards`, `CompletedIsOver`: a replay shows a sub-agent that still runs
  as completed (`adapter.ts:512-515` says that it is long over).
* `LiquidAuth`, `OfferAnswered` with `MayStrand`: a wallet that loses its peer
  connection between its offer and the data channel offers into the void.
* `LiquidAuth`, `DepartureActedOn`: a departure told during the grace is not
  acted on when the grace is over; heartbeat or transport find it later.
* `Storage`, `NoResurrection` with `Amidst = TRUE`: a write of the pair process
  that began before a forget of the daemon, and ends after it, puts the forgotten
  connection and the mirror back.
* `Daemon`, `FailedStartServesNobody`: a daemon whose start failed after
  `listen()` keeps its socket, and agents register with it.

Read in the code, outside what the models say:

* `control/protocol.ts:113` and the README promise that forgetting a connection
  forgets its agent identity; `forgetConnection` (`run.ts:319-332`) keeps
  `identity` and the keys.  Forgetting does not touch a live cycle either, while
  the pair command recommends it "to drop the pairing and re-pair".
* `request()` says its error is mapped to `not_connected`; in the window between
  a session's end and "reconnecting" `toErrorCode` makes it `internal`, which is
  not retried (this is `closing` in `SignRelay`).
* Forgetting everything while the legacy file is not retired lets the next start
  import a forgotten agent key; its key clearing is asynchronous and may remove
  a key that a grant stores at the same time.
* The two processes that share `ac2-state.json` can lose each other's update.
* A client that says hello under two ids leaves the first registration behind
  when it closes (`run.ts:839-845`).
* Two starting daemons that meet a stale socket file can both unlink and listen,
  which is why `OneServes` is conditional on no serving daemon having ended.
* `capabilitiesFromDaemon` asks for `daemon.status` without a backstop: a daemon
  that hangs keeps a paid fetch for ever (`ToolEnds` exempts it).  No tool
  passes an `AbortSignal`, so the abort checks of the flows never act.
* The catch of `x402FetchFlow` drops the payment it may have made; `"paid"` is
  also the status of a fetch that needed no payment.
* `update-ref HEAD` follows a HEAD that was switched to a branch with the same
  tip while the wallet was asked; and git-sign signs again what the account key
  signed when the bound controller's key is another one.
* The pair manager restarts by killing one child and spawning the next; the late
  exit of the first is taken for that of the second (`server.js:142`).

## 6. Plan

Done, in the order of the first plan: the client, the broker, the provider, the
gateway's connection, turns and cards, the daemon with its start-up, the state
file and the migration, signing, payments and git.

Left:

1. Proofs: every safety property of the runs is proved, and the contract between
   provider and broker on both sides.  Left is the safety half of the liveness
   arguments: that whatever must end is always enabled to go on.
2. `PairManager`, the event hub of the control client, the session inside the
   pair process.

## 7. What is not modelled

The state file's format and write failures without a crash; the records of tool
and task activity in conversations; message schemas; signatures and encodings
(SSH signature blobs, DIDs, QR payloads, Algorand transactions); the keychain
bindings; service units and app bundles; the command line and the plugin's
registration and setup; read-only queries of the control protocol and the
broadcast of events; the in-memory provider; the release tooling.  These are
pure functions or I/O with no state a model checker would explore.  The pair
manager, the event hub and the local session are left to the plan.
