------------------------------- MODULE Daemon -------------------------------
(***************************************************************************)
(* The daemon as a process, and the agents that start and join it          *)
(* (ac2-cli: daemon/run.ts, daemon/manager.ts, control/server.ts,          *)
(* control/agent.ts).                                                      *)
(*                                                                         *)
(* Several agents may find no daemon and each spawn one; the daemons race  *)
(* for the one socket path in steps that other processes interleave with   *)
(* (stat, probe, unlink, listen).  The winner serves requests from the     *)
(* moment it listens, long before runDaemon decides what it waits for      *)
(* before it lets a wallet in: for its runtime adapter, for an agent's     *)
(* hello, or for nothing.  Agents register, leave and come back while the  *)
(* server has not yet noticed that they left.  Daemons are stopped and     *)
(* killed, and then leave the socket file, the pidfile or both behind.     *)
(*                                                                         *)
(* A daemon of an older build may run already; agents replace it.          *)
(*                                                                         *)
(* Left out: the events that are broadcast and the requests that only pass *)
(* through to the broker.                                                  *)
(***************************************************************************)
EXTENDS Naturals

CONSTANTS
  Daemons,      \* daemon processes, each spawned at most once
  Agents,       \* agent processes (connectAgentSession)
  Conns,        \* connections to a control socket
  Ids,          \* agent ids
  IdsOf,        \* the ids an agent process registers under
  Modes,        \* what arms pairing: "eager", "managed" or "socket"
  MaxKills,     \* bound: daemons that die without closing their socket
  None

ASSUME DaemonAssumption ==
  /\ MaxKills \in Nat
  /\ IdsOf \in [Agents -> SUBSET Ids]
  /\ Modes \subseteq {"eager", "managed", "socket"}
  /\ None \notin Daemons \cup Conns \cup Ids

VARIABLES
  old,          \* the daemon of an older build that ran from the start, if any
  mode,         \* waitForRuntime off, an adapter that manages its readiness, or neither
  phase,        \* how far each daemon is
  file,         \* the socket path: the daemon that bound it, dead or alive
  pidfile,      \* the pid in ac2d.pid
  report,       \* the daemon that wrote ac2d.startup-error.json
  fresh,        \* agents whose attempt began before that report
  ready,        \* the adapter has reported that its runtime is ready
  onHello,      \* armOnAgentHello
  waiting,      \* waitingForRuntime
  armed,        \* pairingArmed: startPairing was called, whatever became of it
  reg,          \* agentClients of each daemon
  conn,         \* the connections: state, server, and client.agent
  pc,           \* where an agent is in connectAgentSession
  child,        \* the daemon an agent has spawned
  cur,          \* the connection an agent uses
  kills

daemonVars == <<ready, onHello, waiting, armed, reg>>
agentVars == <<pc, child, cur>>
filesVars == <<file, pidfile, report, fresh>>
vars == <<old, mode, phase, filesVars, daemonVars, conn, agentVars, kills>>

-----------------------------------------------------------------------------
Serving == {"broker", "adapter", "up", "failed", "stopping"}
Dead == {"unborn", "refused", "gone", "killed"}
Listening(d) == phase[d] \in Serving
Alive(d) == phase[d] \notin Dead

\* A connect to the path succeeds: whoever bound the file still listens.
Answers == file # None /\ Listening(file)
\* daemonProcessStatus: the pidfile names a process that lives.
PidRunning == pidfile # None /\ Alive(pidfile)
Unused == [st |-> "unused", at |-> None, agent |-> None]
Launching == {"check", "replace", "wait", "pid", "start", "spawn", "write", "poll", "report"}

\* Nothing runs, or an old daemon is up: detached, with its pid in the
\* pidfile, or under the operating system's supervision, without.
Init ==
  /\ mode \in Modes
  /\ old \in Daemons \cup {None}
  /\ phase = [d \in Daemons |-> IF d = old THEN "up" ELSE "unborn"]
  /\ file = old /\ pidfile \in {old, None} /\ report = None /\ fresh = {}
  /\ ready = [d \in Daemons |-> FALSE]
  /\ onHello = [d \in Daemons |-> d = old /\ mode = "socket"]
  /\ waiting = [d \in Daemons |-> d = old /\ mode # "eager"]
  /\ armed = [d \in Daemons |-> d = old /\ mode = "eager"]
  /\ reg = [d \in Daemons |-> [i \in Ids |-> None]]
  /\ conn = [c \in Conns |-> Unused]
  /\ pc = [a \in Agents |-> "idle"]
  /\ child = [a \in Agents |-> None]
  /\ cur = [a \in Agents |-> None]
  /\ kills = 0

-----------------------------------------------------------------------------
(* The daemon's start: prepareSocketPath and listen, then runDaemon.       *)

Move(d, p) == phase' = [phase EXCEPT ![d] = p]

\* reportStartupFailure: it is news to everyone whose attempt is under way.
Report(d) == report' = d /\ fresh' = {a \in Agents : pc[a] \in Launching}

\* Nothing keeps the process: it reports why it cannot start, and is gone.
GivesUp(d) ==
  /\ Move(d, "refused")
  /\ Report(d)
  /\ UNCHANGED <<file, pidfile>>

Stat(d) ==
  /\ phase[d] = "stat"
  /\ Move(d, IF file = None THEN "listen" ELSE "probe")
  /\ UNCHANGED <<old, mode, filesVars, daemonVars, conn, agentVars, kills>>

\* Mutant: whatever is at the path is taken for stale.
Probe_Unanswered(d) ==
  /\ phase[d] = "probe"
  /\ Move(d, "unlink")
  /\ UNCHANGED <<old, mode, filesVars, daemonVars, conn, agentVars, kills>>

Probe(d) ==
  /\ phase[d] = "probe"
  /\ \/ Answers /\ GivesUp(d)
     \/ ~Answers /\ Move(d, "unlink") /\ UNCHANGED filesVars
  /\ UNCHANGED <<old, mode, daemonVars, conn, agentVars, kills>>

\* An unlink of a path that is gone by now throws.
Unlink(d) ==
  /\ phase[d] = "unlink"
  /\ \/ file = None /\ GivesUp(d)
     \/ /\ file # None
        /\ file' = None
        /\ Move(d, "listen")
        /\ UNCHANGED <<pidfile, report, fresh>>
  /\ UNCHANGED <<old, mode, daemonVars, conn, agentVars, kills>>

Listen(d) ==
  /\ phase[d] = "listen"
  /\ \/ file # None /\ GivesUp(d)
     \/ /\ file = None
        /\ file' = d
        /\ Move(d, "broker")
        /\ UNCHANGED <<pidfile, report, fresh>>
  /\ UNCHANGED <<old, mode, daemonVars, conn, agentVars, kills>>

\* The keystore may turn out unusable only now.  runDaemon rejects, the
\* failure is reported, but the listening socket keeps the process alive.
BrokerStart(d) ==
  /\ phase[d] = "broker"
  /\ \/ Move(d, "adapter") /\ UNCHANGED <<report, fresh>>
     \/ Move(d, "failed") /\ Report(d)
  /\ UNCHANGED <<old, mode, file, pidfile, daemonVars, conn, agentVars, kills>>

\* armPairingOnce: the first call clears the wait and starts pairing; later
\* ones do nothing, also when that pairing has failed.
ArmPairingOnce(d) ==
  IF armed[d]
  THEN UNCHANGED <<armed, waiting>>
  ELSE /\ waiting' = [waiting EXCEPT ![d] = FALSE]
       /\ armed' = [armed EXCEPT ![d] = TRUE]

\* Mutant: a daemon without an adapter of its own arms at once.
Decide_Arms(d) ==
  /\ phase[d] = "adapter"
  /\ Move(d, "up")
  /\ report' = None
  /\ ArmPairingOnce(d)
  /\ UNCHANGED <<old, mode, file, pidfile, fresh, ready, onHello, reg, conn, agentVars, kills>>

\* The adapter and the keystore's own socket are started (or are not), and
\* runDaemon ends with a decision: arm now, wait for the adapter, or for a hello.
Decide(d) ==
  /\ phase[d] = "adapter"
  /\ Move(d, "up")
  /\ report' = None
  /\ \/ /\ mode = "eager"
        /\ ArmPairingOnce(d)
        /\ UNCHANGED onHello
     \/ /\ mode # "eager" /\ armed[d]
        /\ UNCHANGED <<armed, waiting, onHello>>
     \/ /\ mode # "eager" /\ ~armed[d]
        /\ waiting' = [waiting EXCEPT ![d] = TRUE]
        /\ onHello' = [onHello EXCEPT ![d] = (mode = "socket")]
        /\ UNCHANGED armed
  /\ UNCHANGED <<old, mode, file, pidfile, fresh, ready, reg, conn, agentVars, kills>>

\* host.reportRuntimeReady, from the adapter's start on.
ReportRuntimeReady(d) ==
  /\ mode = "managed" /\ ~ready[d]
  /\ phase[d] \in {"adapter", "up"}
  /\ ready' = [ready EXCEPT ![d] = TRUE]
  /\ ArmPairingOnce(d)
  /\ UNCHANGED <<old, mode, phase, filesVars, onHello, reg, conn, agentVars, kills>>

-----------------------------------------------------------------------------
(* Its end.                                                                *)

\* What dies with the process: its registry, its flags and its connections.
Dies(d) ==
  /\ ready' = [ready EXCEPT ![d] = FALSE]
  /\ onHello' = [onHello EXCEPT ![d] = FALSE]
  /\ waiting' = [waiting EXCEPT ![d] = FALSE]
  /\ armed' = [armed EXCEPT ![d] = FALSE]
  /\ reg' = [reg EXCEPT ![d] = [i \in Ids |-> None]]
  /\ conn' = [c \in Conns |-> CASE conn[c].at # d -> conn[c]
                                 [] conn[c].at = d /\ conn[c].st = "left" -> Unused
                                 [] OTHER -> [Unused EXCEPT !.st = "closed"]]
  /\ UNCHANGED <<old, mode, pidfile, report, fresh, agentVars>>

\* daemon.stop or a signal: stop() runs the adapter's and the broker's end.
Stop(d) ==
  /\ Listening(d) /\ phase[d] # "stopping"
  /\ Move(d, "stopping")
  /\ UNCHANGED <<old, mode, filesVars, daemonVars, conn, agentVars, kills>>

\* server.close removes whatever is at the path, then the process exits.
Exit(d) ==
  /\ phase[d] = "stopping"
  /\ Move(d, "gone")
  /\ file' = None
  /\ Dies(d)
  /\ UNCHANGED kills

\* A kill, or the failsafe exit of a stop that hangs: the file stays.
Kill(d) ==
  /\ Alive(d) /\ kills < MaxKills
  /\ kills' = kills + 1
  /\ Move(d, "killed")
  /\ Dies(d)
  /\ UNCHANGED file

-----------------------------------------------------------------------------
(* An agent: ensureDaemonRunning and connectAgentSession.                  *)

At(a, p) == pc[a] = p
Goto(a, p) == pc' = [pc EXCEPT ![a] = p]

Begin(a) ==
  /\ At(a, "idle")
  /\ Goto(a, "check")
  /\ fresh' = fresh \ {a}
  /\ UNCHANGED <<old, mode, phase, file, pidfile, report, daemonVars, conn, child, cur, kills>>

\* daemonLiveness asks the socket first; any daemon that listens answers.
\* One of another build is replaced if this install spawned it.
Check(a) ==
  /\ At(a, "check")
  /\ IF Answers /\ file = old /\ pidfile # None
     THEN Goto(a, "replace") /\ child' = [child EXCEPT ![a] = file]
     ELSE Goto(a, IF Answers THEN "connect" ELSE "pid") /\ UNCHANGED child
  /\ UNCHANGED <<old, mode, phase, filesVars, daemonVars, conn, cur, kills>>

Stopping(d) == Move(d, IF Listening(d) THEN "stopping" ELSE phase[d])

\* stopStaleDaemon connects once more, and asks whoever answers now to stop;
\* a daemon that does not answer within a second has not heard it.
AskStop(a) ==
  /\ At(a, "replace")
  /\ (Answers /\ Stopping(file)) \/ UNCHANGED phase
  /\ Goto(a, "wait")
  /\ UNCHANGED <<old, mode, filesVars, daemonVars, conn, child, cur, kills>>

\* stopDaemonProcess: a signal, and a wait for the process that was found
\* old.  When it ends during the wait, the pidfile is removed.
Terminate(a) ==
  /\ At(a, "wait") /\ Alive(child[a]) /\ phase[child[a]] # "stopping"
  /\ Stopping(child[a])
  /\ UNCHANGED <<old, mode, filesVars, daemonVars, conn, agentVars, kills>>

WaitGone(a) ==
  /\ At(a, "wait") /\ ~Alive(child[a])
  /\ pidfile' \in {pidfile, None}
  /\ child' = [child EXCEPT ![a] = None]
  /\ Goto(a, "start")
  /\ UNCHANGED <<old, mode, phase, file, report, fresh, daemonVars, conn, cur, kills>>

\* ... and the pidfile second.  A stale pidfile is removed.
CheckPid(a) ==
  /\ At(a, "pid")
  /\ Goto(a, IF PidRunning THEN "poll" ELSE "start")
  /\ pidfile' = IF PidRunning THEN pidfile ELSE None
  /\ UNCHANGED <<old, mode, phase, file, report, fresh, daemonVars, conn, child, cur, kills>>

\* startDetached looks at the pidfile again, and refuses to run a second one.
StartDetached(a) ==
  /\ At(a, "start")
  /\ Goto(a, IF PidRunning THEN "failed" ELSE "spawn")
  /\ pidfile' = IF PidRunning THEN pidfile ELSE None
  /\ UNCHANGED <<old, mode, phase, file, report, fresh, daemonVars, conn, child, cur, kills>>

Spawn(a) ==
  /\ At(a, "spawn")
  /\ \/ \E d \in Daemons :
          /\ phase[d] = "unborn"
          /\ Move(d, "stat")
          /\ child' = [child EXCEPT ![a] = d]
          /\ Goto(a, "write")
     \/ /\ \A d \in Daemons : phase[d] # "unborn"
        /\ Goto(a, "failed")
        /\ UNCHANGED <<phase, child>>
  /\ UNCHANGED <<old, mode, filesVars, daemonVars, conn, cur, kills>>

WritePid(a) ==
  /\ At(a, "write")
  /\ pidfile' = child[a]
  /\ child' = [child EXCEPT ![a] = None]
  /\ Goto(a, "poll")
  /\ UNCHANGED <<old, mode, phase, file, report, fresh, daemonVars, conn, cur, kills>>

\* One round of the poll: connect, or look for the report of a failed start.
Poll(a) ==
  /\ At(a, "poll")
  /\ Goto(a, IF Answers THEN "connect" ELSE "report")
  /\ UNCHANGED <<old, mode, phase, filesVars, daemonVars, conn, child, cur, kills>>

ReadReport(a) ==
  /\ At(a, "report")
  /\ Goto(a, IF report # None /\ a \in fresh THEN "failed" ELSE "poll")
  /\ UNCHANGED <<old, mode, phase, filesVars, daemonVars, conn, child, cur, kills>>

Deadline(a) ==
  /\ pc[a] \in {"poll", "report"}
  /\ Goto(a, "failed")
  /\ UNCHANGED <<old, mode, phase, filesVars, daemonVars, conn, child, cur, kills>>

Connect(a) ==
  /\ At(a, "connect")
  /\ \/ \E c \in Conns :
          /\ Answers /\ conn[c] = Unused
          /\ conn' = [conn EXCEPT ![c] = [st |-> "open", at |-> file, agent |-> None]]
          /\ cur' = [cur EXCEPT ![a] = c]
          /\ Goto(a, "hello")
     \/ /\ ~Answers \/ \A c \in Conns : conn[c] # Unused
        /\ Goto(a, "failed")
        /\ UNCHANGED <<conn, cur>>
  /\ UNCHANGED <<old, mode, phase, filesVars, daemonVars, child, kills>>

\* The daemon's handler: an id belongs to one connection at a time.
Taken(d, i, c) == reg[d][i] \notin {None, c}

Register(d, i, c) ==
  /\ reg' = [reg EXCEPT ![d][i] = c]
  /\ conn' = [conn EXCEPT ![c].agent = i]
  /\ IF onHello[d] THEN ArmPairingOnce(d) ELSE UNCHANGED <<armed, waiting>>

Hello(a, i) ==
  LET c == cur[a]
      d == conn[c].at
  IN  /\ pc[a] \in {"hello", "joined"}
      /\ conn[c].st = "open"
      /\ \/ /\ ~Taken(d, i, c) /\ reg[d][i] # c
            /\ Register(d, i, c)
            /\ Goto(a, "joined")
            /\ UNCHANGED cur
         \/ /\ Taken(d, i, c)
            /\ conn' = [conn EXCEPT ![c].st = "left"]
            /\ Goto(a, "failed")
            /\ cur' = [cur EXCEPT ![a] = None]
            /\ UNCHANGED <<reg, armed, waiting>>
      /\ UNCHANGED <<old, mode, phase, filesVars, ready, onHello, child, kills>>

\* session.close(), or the agent's own death: the socket is destroyed.
Leave(a) ==
  /\ At(a, "joined") /\ conn[cur[a]].st = "open"
  /\ conn' = [conn EXCEPT ![cur[a]].st = "left"]
  /\ Goto(a, "idle")
  /\ cur' = [cur EXCEPT ![a] = None]
  /\ UNCHANGED <<old, mode, phase, filesVars, daemonVars, child, kills>>

\* The daemon died: client.closed resolves, and pending requests reject.
Dropped(a) ==
  /\ pc[a] \in {"hello", "joined"} /\ conn[cur[a]].st = "closed"
  /\ Goto(a, "failed")
  /\ conn' = [conn EXCEPT ![cur[a]] = Unused]
  /\ cur' = [cur EXCEPT ![a] = None]
  /\ UNCHANGED <<old, mode, phase, filesVars, daemonVars, child, kills>>

Retry(a) ==
  /\ At(a, "failed")
  /\ Goto(a, "idle")
  /\ UNCHANGED <<old, mode, phase, filesVars, daemonVars, conn, child, cur, kills>>

\* Mutant: the id stays with the connection that closed.
ClientClosed_KeepsId(c) ==
  /\ conn[c].st = "left"
  /\ conn' = [conn EXCEPT ![c] = Unused]
  /\ UNCHANGED <<old, mode, phase, filesVars, daemonVars, agentVars, kills>>

\* cleanup and onClientClosed: the server notices that a client left.
ClientClosed(c) ==
  /\ conn[c].st = "left"
  /\ conn' = [conn EXCEPT ![c] = Unused]
  /\ reg' = IF conn[c].agent = None THEN reg
            ELSE [reg EXCEPT ![conn[c].at][conn[c].agent] = None]
  /\ UNCHANGED <<old, mode, phase, filesVars, ready, onHello, waiting, armed, agentVars, kills>>

-----------------------------------------------------------------------------
Starting(d) ==
  Stat(d) \/ Probe(d) \/ Unlink(d) \/ Listen(d) \/ BrokerStart(d) \/ Decide(d)
Launch(a) ==
  \/ Check(a) \/ AskStop(a) \/ Terminate(a) \/ WaitGone(a) \/ CheckPid(a) \/ StartDetached(a)
  \/ Spawn(a) \/ WritePid(a)
  \/ Poll(a) \/ ReadReport(a) \/ Connect(a) \/ Dropped(a)

Next ==
  \/ \E d \in Daemons : Starting(d) \/ ReportRuntimeReady(d) \/ Stop(d) \/ Exit(d) \/ Kill(d)
  \/ \E a \in Agents : \/ Begin(a) \/ Launch(a) \/ Deadline(a) \/ Leave(a) \/ Retry(a)
                       \/ \E i \in IdsOf[a] : Hello(a, i)
  \/ \E c \in Conns : ClientClosed(c)

Spec == Init /\ [][Next]_vars

-----------------------------------------------------------------------------
(* Properties                                                              *)

Phases == {"stat", "probe", "unlink", "listen"} \cup Serving \cup Dead

\* Every variable stays within its type.
TypeOK ==
  /\ mode \in Modes /\ old \in Daemons \cup {None}
  /\ phase \in [Daemons -> Phases]
  /\ {file, pidfile, report} \subseteq Daemons \cup {None}
  /\ fresh \subseteq Agents
  /\ {ready, onHello, waiting, armed} \subseteq [Daemons -> BOOLEAN]
  /\ reg \in [Daemons -> [Ids -> Conns \cup {None}]]
  /\ conn \in [Conns -> [st : {"unused", "open", "left", "closed"},
                         at : Daemons \cup {None}, agent : Ids \cup {None}]]
  /\ pc \in [Agents -> Launching \cup {"idle", "connect", "hello", "joined", "failed"}]
  /\ child \in [Agents -> Daemons \cup {None}]
  /\ cur \in [Agents -> Conns \cup {None}]
  /\ kills \in 0..MaxKills

\* However many agents find no daemon at once, at most one of the daemons
\* they spawn gets to serve, as long as none that serves ends
\* (control/server.ts, prepareSocketPath and listen).
OneServes ==
  (\A d \in Daemons : phase[d] \notin {"stopping", "gone", "killed"}) =>
    \A d, e \in Daemons : Listening(d) /\ Listening(e) => d = e

\* A registered id is that of a connection the server has not seen closed:
\* no agent is told its id is taken by an endpoint that no longer exists
\* (run.ts, agent.hello and onClientClosed).
EndpointIsOpen ==
  \A d \in Daemons, i \in Ids :
    reg[d][i] # None => conn[reg[d][i]].at = d /\ conn[reg[d][i]].st \in {"open", "left"}

\* Unless told not to wait, the daemon lets a wallet in only when its adapter
\* is ready or an agent is registered (run.ts, armPairingOnce).
WalletAwaitsRuntime ==
  [][\A d \in Daemons : mode # "eager" /\ ~armed[d] /\ armed'[d] =>
       ready'[d] \/ \E i \in Ids : reg'[d][i] # None]_vars

\* `waitingForRuntime` "flips to `false` the moment a runtime becomes alive":
\* no daemon says it waits for a runtime while an agent is registered with it
\* (control/protocol.ts, DaemonStatus).
WaitingMeansNobody ==
  \A d \in Daemons : waiting[d] => \A i \in Ids : reg[d][i] = None

\* A daemon that has reported that its start failed is nobody's daemon
\* (daemon/startup-report.ts, control/agent.ts).
FailedStartServesNobody ==
  \A d \in Daemons, i \in Ids : phase[d] = "failed" => reg[d][i] = None
=============================================================================
