---------------------------- MODULE DaemonProofs ----------------------------
(***************************************************************************)
(* For any number of daemons, agents and connections: at most one daemon   *)
(* serves until one that serves ends, a registered id is that of a         *)
(* connection that exists, and no wallet is awaited without a runtime.     *)
(***************************************************************************)
EXTENDS Daemon, TLAPS

-----------------------------------------------------------------------------
(* Types.                                                                  *)

LEMMA InitTypes == Init => TypeOK
  BY DaemonAssumption DEF Init, TypeOK, Phases, Serving, Dead, Unused, Launching

ConnType == [st : {"unused", "open", "left", "closed"}, at : Daemons \cup {None},
             agent : Ids \cup {None}]
Pcs == Launching \cup {"idle", "connect", "hello", "joined", "failed"}

\* One fact for every group of variables that steps change together.
LEMMA StepTypes == TypeOK /\ [Next]_vars => TypeOK'
<1> SUFFICES ASSUME TypeOK, [Next]_vars PROVE TypeOK'
  OBVIOUS
<1> USE DEF TypeOK, filesVars, daemonVars, agentVars
<1>m. ASSUME NEW d, NEW p \in Phases, Move(d, p) PROVE phase' \in [Daemons -> Phases]
  BY <1>m DEF Move
<1>s. ASSUME NEW d, Stopping(d) PROVE phase' \in [Daemons -> Phases]
  BY <1>s DEF Stopping, Move, Phases, Serving
<1>r. ASSUME NEW d \in Daemons, Report(d)
      PROVE  report' \in Daemons \cup {None} /\ fresh' \subseteq Agents
  BY <1>r DEF Report
<1>g. ASSUME NEW a, NEW p \in Pcs, Goto(a, p) PROVE pc' \in [Agents -> Pcs]
  BY <1>g DEF Goto, Pcs
<1>p. /\ {"stat", "probe", "unlink", "listen", "refused", "gone", "killed", "broker", "adapter",
          "up", "failed", "stopping"} \subseteq Phases
      /\ {"idle", "check", "replace", "wait", "pid", "start", "spawn", "write", "poll", "report",
          "connect", "hello", "joined", "failed"} \subseteq Pcs
      /\ Pcs = Launching \cup {"idle", "connect", "hello", "joined", "failed"}
      /\ Unused \in ConnType /\ [Unused EXCEPT !.st = "closed"] \in ConnType
  BY DEF Phases, Pcs, Serving, Dead, Launching, Unused, ConnType
<1>a. ASSUME NEW d \in Daemons, ArmPairingOnce(d)
      PROVE  armed' \in [Daemons -> BOOLEAN] /\ waiting' \in [Daemons -> BOOLEAN]
  BY <1>a DEF ArmPairingOnce
<1>1. ASSUME NEW d \in Daemons, Starting(d) PROVE TypeOK'
  <2>1. CASE Stat(d)
    BY <1>m, <1>p, <2>1 DEF Stat
  <2>2. CASE Probe(d)
    BY <1>m, <1>p, <1>r, <2>2 DEF Probe, GivesUp
  <2>3. CASE Unlink(d)
    BY <1>m, <1>p, <1>r, <2>3 DEF Unlink, GivesUp
  <2>4. CASE Listen(d)
    BY <1>m, <1>p, <1>r, <2>4 DEF Listen, GivesUp
  <2>5. CASE BrokerStart(d)
    BY <1>m, <1>p, <1>r, <2>5 DEF BrokerStart
  <2>6. CASE Decide(d)
    <3>1. /\ phase' \in [Daemons -> Phases] /\ armed' \in [Daemons -> BOOLEAN]
          /\ waiting' \in [Daemons -> BOOLEAN] /\ onHello' \in [Daemons -> BOOLEAN]
      BY <1>m, <1>p, <1>a, <2>6 DEF Decide
    <3> QED BY <2>6, <3>1 DEF Decide
  <2> QED BY <1>1, <2>1, <2>2, <2>3, <2>4, <2>5, <2>6 DEF Starting
<1>2. ASSUME NEW d \in Daemons, ReportRuntimeReady(d) PROVE TypeOK'
  BY <1>2, <1>a DEF ReportRuntimeReady
<1>d. ASSUME NEW d \in Daemons, Dies(d)
      PROVE  /\ {ready', onHello', waiting', armed'} \subseteq [Daemons -> BOOLEAN]
             /\ reg' \in [Daemons -> [Ids -> Conns \cup {None}]] /\ conn' \in [Conns -> ConnType]
  <2>1. conn \in [Conns -> ConnType]
    BY DEF ConnType
  <2>2. conn' \in [Conns -> ConnType]
    <3>1. ASSUME NEW c \in Conns PROVE conn'[c] \in ConnType
      <4>1. conn'[c] \in {conn[c], Unused, [Unused EXCEPT !.st = "closed"]}
        BY <1>d DEF Dies
      <4> QED BY <4>1, <2>1, <1>p
    <3>2. conn' = [c \in Conns |-> conn'[c]]
      BY <1>d DEF Dies
    <3> QED BY <3>1, <3>2
  <2>3. reg' \in [Daemons -> [Ids -> Conns \cup {None}]]
    BY <1>d DEF Dies
  <2>4. {ready', onHello', waiting', armed'} \subseteq [Daemons -> BOOLEAN]
    BY <1>d DEF Dies
  <2> QED BY <2>2, <2>3, <2>4
<1>3. ASSUME NEW d \in Daemons, Stop(d) \/ Exit(d) \/ Kill(d) PROVE TypeOK'
  <2>1. CASE Stop(d)
    BY <1>m, <1>p, <2>1 DEF Stop
  <2>2. CASE Exit(d)
    BY <1>m, <1>p, <1>d, <2>2 DEF Exit, Dies, ConnType
  <2>3. CASE Kill(d)
    <3>1. kills' \in 0..MaxKills
      BY <2>3, DaemonAssumption DEF Kill
    <3> QED BY <1>m, <1>p, <1>d, <2>3, <3>1 DEF Kill, Dies, ConnType
  <2> QED BY <1>3, <2>1, <2>2, <2>3
<1>4. ASSUME NEW a \in Agents, Begin(a) \/ Deadline(a) \/ Retry(a) PROVE TypeOK'
  BY <1>4, <1>g, <1>p DEF Begin, Deadline, Retry
<1>5. ASSUME NEW a \in Agents, Check(a) \/ AskStop(a) \/ Terminate(a) \/ WaitGone(a) PROVE TypeOK'
  <2>1. CASE Check(a)
    BY <2>1, <1>g, <1>p DEF Check
  <2>2. CASE AskStop(a)
    BY <2>2, <1>g, <1>p, <1>s DEF AskStop
  <2>3. CASE Terminate(a)
    BY <2>3, <1>s DEF Terminate
  <2>4. CASE WaitGone(a)
    BY <2>4, <1>g, <1>p DEF WaitGone
  <2> QED BY <1>5, <2>1, <2>2, <2>3, <2>4
<1>6. ASSUME NEW a \in Agents,
             CheckPid(a) \/ StartDetached(a) \/ Spawn(a) \/ WritePid(a) \/ Poll(a) \/ ReadReport(a)
      PROVE  TypeOK'
  <2>1. CASE CheckPid(a) \/ StartDetached(a)
    BY <2>1, <1>g, <1>p DEF CheckPid, StartDetached
  <2>2. CASE Spawn(a)
    BY <2>2, <1>g, <1>p, <1>m DEF Spawn
  <2>3. CASE WritePid(a) \/ Poll(a) \/ ReadReport(a)
    BY <2>3, <1>g, <1>p DEF WritePid, Poll, ReadReport
  <2> QED BY <1>6, <2>1, <2>2, <2>3
<1>c. ASSUME NEW c, NEW r \in ConnType, conn' = [conn EXCEPT ![c] = r]
      PROVE  conn' \in [Conns -> ConnType]
  BY <1>c DEF ConnType
<1>u. \A c \in Conns : /\ [conn[c] EXCEPT !.st = "left"] \in ConnType
                       /\ \A i \in Ids : [conn[c] EXCEPT !.agent = i] \in ConnType
  BY DEF ConnType
<1>7. ASSUME NEW a \in Agents, Connect(a) PROVE TypeOK'
  <2>1. CASE \E c \in Conns :
               /\ conn' = [conn EXCEPT ![c] = [st |-> "open", at |-> file, agent |-> None]]
               /\ cur' = [cur EXCEPT ![a] = c] /\ Goto(a, "hello")
    <3>1. [st |-> "open", at |-> file, agent |-> None] \in ConnType
      BY DEF ConnType
    <3>2. /\ conn' \in [Conns -> ConnType] /\ pc' \in [Agents -> Pcs]
          /\ cur' \in [Agents -> Conns \cup {None}]
      BY <2>1, <3>1, <1>c, <1>g, <1>p
    <3> QED BY <1>7, <3>2, <1>p DEF Connect, ConnType
  <2>2. CASE Goto(a, "failed") /\ UNCHANGED <<conn, cur>>
    BY <1>7, <2>2, <1>g, <1>p DEF Connect
  <2> QED BY <1>7, <2>1, <2>2 DEF Connect
<1>8. ASSUME NEW a \in Agents, NEW i \in Ids, Hello(a, i) PROVE TypeOK'
  <2> DEFINE c == cur[a]
             d == conn[c].at
  <2>1. CASE Taken(d, i, c)
    <3>1. /\ conn' = [conn EXCEPT ![c].st = "left"] /\ Goto(a, "failed")
          /\ cur' = [cur EXCEPT ![a] = None]
          /\ UNCHANGED <<reg, armed, waiting, ready, onHello>>
      BY <1>8, <2>1 DEF Hello
    <3>2. conn' \in [Conns -> ConnType]
      BY <3>1, <1>u DEF ConnType
    <3> QED BY <1>8, <3>1, <3>2, <1>g, <1>p DEF Hello, ConnType
  <2>2. CASE ~Taken(d, i, c)
    <3>1. Register(d, i, c) /\ Goto(a, "joined") /\ UNCHANGED <<cur, ready, onHello>>
      BY <1>8, <2>2 DEF Hello
    <3>2. conn' \in [Conns -> ConnType]
      BY <3>1, <1>u DEF Register, ConnType
    <3>3. reg' \in [Daemons -> [Ids -> Conns \cup {None}]]
      BY <3>1 DEF Register
    <3>4. armed' \in [Daemons -> BOOLEAN] /\ waiting' \in [Daemons -> BOOLEAN]
      BY <3>1 DEF Register, ArmPairingOnce
    <3> QED BY <1>8, <3>1, <3>2, <3>3, <3>4, <1>g, <1>p DEF Hello, ConnType
  <2> QED BY <2>1, <2>2
<1>9. ASSUME NEW a \in Agents, Leave(a) \/ Dropped(a) PROVE TypeOK'
  <2>1. conn' \in [Conns -> ConnType]
    <3>1. CASE Leave(a)
      BY <3>1, <1>u DEF Leave, ConnType
    <3>2. CASE Dropped(a)
      <4>1. conn' = [conn EXCEPT ![cur[a]] = Unused]
        BY <3>2 DEF Dropped
      <4> QED BY <4>1, <1>c, <1>p
    <3> QED BY <1>9, <3>1, <3>2
  <2>2. pc' \in [Agents -> Pcs] /\ cur' \in [Agents -> Conns \cup {None}]
    BY <1>9, <1>g, <1>p DEF Leave, Dropped
  <2> QED BY <1>9, <2>1, <2>2, <1>p DEF Leave, Dropped, ConnType
<1>10. ASSUME NEW c \in Conns, ClientClosed(c) PROVE TypeOK'
  <2>1. conn' \in [Conns -> ConnType]
    BY <1>10, <1>p, <1>c DEF ClientClosed
  <2>2. reg' \in [Daemons -> [Ids -> Conns \cup {None}]]
    BY <1>10 DEF ClientClosed
  <2> QED BY <1>10, <2>1, <2>2 DEF ClientClosed, ConnType
<1>11. CASE UNCHANGED vars
  BY <1>11 DEF vars
<1>12. \A a \in Agents : IdsOf[a] \subseteq Ids
  BY DaemonAssumption
<1> QED
  BY <1>1, <1>2, <1>3, <1>4, <1>5, <1>6, <1>7, <1>8, <1>9, <1>10, <1>11, <1>12
  DEF Next, Launch

\* Every variable stays within its type.
THEOREM TypeCorrect == Spec => []TypeOK
  BY InitTypes, StepTypes, PTL DEF Spec

-----------------------------------------------------------------------------
(* The socket path.  Until a daemon that serves ends, whoever bound the    *)
(* path answers a probe: a daemon that found the path taken is refused.    *)

NoneEnded == \A d \in Daemons : phase[d] \notin {"stopping", "gone", "killed"}
PathIsServed ==
  NoneEnded =>
    /\ \A d \in Daemons : Listening(d) => file = d
    /\ file # None => Listening(file)
    /\ \A d \in Daemons : phase[d] = "probe" => file # None
    /\ \A d \in Daemons : phase[d] # "unlink"

\* The steps that touch neither the path nor the phase of a daemon.
Aside ==
  \/ \E d \in Daemons : ReportRuntimeReady(d)
  \/ \E a \in Agents : \/ Begin(a) \/ Check(a) \/ WaitGone(a) \/ CheckPid(a) \/ StartDetached(a)
                       \/ WritePid(a) \/ Poll(a) \/ ReadReport(a) \/ Connect(a) \/ Dropped(a)
                       \/ Deadline(a) \/ Leave(a) \/ Retry(a) \/ \E i \in IdsOf[a] : Hello(a, i)
  \/ \E c \in Conns : ClientClosed(c)
  \/ UNCHANGED vars

LEMMA AsideLeavesPath == Aside => UNCHANGED <<file, phase>>
<1>1. ASSUME NEW a \in Agents,
             Begin(a) \/ Check(a) \/ WaitGone(a) \/ CheckPid(a) \/ StartDetached(a) \/ WritePid(a)
      PROVE  UNCHANGED <<file, phase>>
  BY <1>1 DEF Begin, Check, WaitGone, CheckPid, StartDetached, WritePid, filesVars
<1>2. ASSUME NEW a \in Agents,
             \/ Poll(a) \/ ReadReport(a) \/ Connect(a) \/ Dropped(a) \/ Deadline(a) \/ Leave(a)
             \/ Retry(a)
      PROVE  UNCHANGED <<file, phase>>
  BY <1>2 DEF Poll, ReadReport, Connect, Dropped, Deadline, Leave, Retry, filesVars
<1>3. ASSUME NEW a \in Agents, NEW i, Hello(a, i) PROVE UNCHANGED <<file, phase>>
  BY <1>3 DEF Hello, filesVars
<1>4. ASSUME NEW d \in Daemons, ReportRuntimeReady(d) PROVE UNCHANGED <<file, phase>>
  BY <1>4 DEF ReportRuntimeReady, filesVars
<1>5. ASSUME NEW c \in Conns, ClientClosed(c) PROVE UNCHANGED <<file, phase>>
  BY <1>5 DEF ClientClosed, filesVars
<1>6. CASE UNCHANGED vars
  BY <1>6 DEF vars, filesVars
<1> QED BY <1>1, <1>2, <1>3, <1>4, <1>5, <1>6 DEF Aside

LEMMA PathStep == TypeOK /\ PathIsServed /\ [Next]_vars => PathIsServed'
<1> SUFFICES ASSUME TypeOK, PathIsServed, [Next]_vars, NoneEnded'
             PROVE  /\ \A d \in Daemons : Listening(d)' => file' = d
                    /\ file' # None => (phase'[file'] \in Serving)
                    /\ \A d \in Daemons : phase'[d] = "probe" => file' # None
                    /\ \A d \in Daemons : phase'[d] # "unlink"
  BY DEF PathIsServed, Listening
<1> DEFINE Served == /\ \A d \in Daemons : Listening(d)' => file' = d
                     /\ file' # None => (phase'[file'] \in Serving)
                     /\ \A d \in Daemons : phase'[d] = "probe" => file' # None
                     /\ \A d \in Daemons : phase'[d] # "unlink"
<1>t. phase \in [Daemons -> Phases] /\ file \in Daemons \cup {None} /\ None \notin Daemons
  BY DaemonAssumption DEF TypeOK
<1>0. ASSUME NoneEnded
      PROVE  /\ \A d \in Daemons : Listening(d) => file = d
             /\ file # None => phase[file] \in Serving
             /\ \A d \in Daemons : phase[d] = "probe" => file # None
             /\ \A d \in Daemons : phase[d] # "unlink"
  BY <1>0 DEF PathIsServed, Listening
<1>m. ASSUME NEW d \in Daemons, NEW p, Move(d, p), phase[d] \notin {"stopping", "gone", "killed"}
      PROVE  NoneEnded /\ phase'[d] = p /\ \A e \in Daemons \ {d} : phase'[e] = phase[e]
  BY <1>m, <1>t DEF Move, NoneEnded
<1> USE DEF Listening
<1>1. ASSUME NEW d \in Daemons, Starting(d) PROVE Served
  <2>1. phase[d] \in {"stat", "probe", "unlink", "listen", "broker", "adapter"}
    BY <1>1 DEF Starting, Stat, Probe, Unlink, Listen, BrokerStart, Decide
  <2>2. CASE Stat(d)
    BY <2>1, <2>2, <1>0, <1>m, <1>t DEF Stat, filesVars, Serving
  <2>3. CASE Probe(d)
    <3>1. CASE Answers /\ GivesUp(d)
      BY <2>1, <2>3, <3>1, <1>0, <1>m, <1>t DEF Probe, GivesUp, Serving
    <3>2. CASE ~Answers /\ Move(d, "unlink")
      BY <2>1, <2>3, <3>2, <1>0, <1>m, <1>t DEF Probe, Answers, filesVars, Serving
    <3> QED BY <2>3, <3>1, <3>2 DEF Probe
  <2>4. CASE Unlink(d)
    BY <2>1, <2>4, <1>0, <1>m, <1>t DEF Unlink, GivesUp, Serving
  <2>5. CASE Listen(d)
    BY <2>1, <2>5, <1>0, <1>m, <1>t DEF Listen, GivesUp, Serving
  <2>6. CASE BrokerStart(d)
    BY <2>1, <2>6, <1>0, <1>m, <1>t DEF BrokerStart, Serving
  <2>7. CASE Decide(d)
    BY <2>1, <2>7, <1>0, <1>m, <1>t DEF Decide, Serving
  <2> QED BY <1>1, <2>2, <2>3, <2>4, <2>5, <2>6, <2>7 DEF Starting
<1>2. ASSUME NEW d \in Daemons, Stop(d) \/ Exit(d) \/ Kill(d) PROVE Served
  <2>1. ~NoneEnded'
    BY <1>2, <1>t DEF Stop, Exit, Kill, Move, NoneEnded
  <2> QED BY <2>1
<1>3. ASSUME NEW a \in Agents, AskStop(a) \/ Terminate(a) PROVE Served
  <2>1. UNCHANGED <<phase, file>>
    BY <1>3, <1>t DEF AskStop, Terminate, Stopping, Move, NoneEnded, filesVars
  <2> QED BY <2>1, <1>0 DEF NoneEnded
<1>4. ASSUME NEW a \in Agents, Spawn(a) PROVE Served
  <2>1. CASE UNCHANGED phase
    BY <1>4, <2>1, <1>0 DEF Spawn, filesVars, NoneEnded
  <2>2. CASE \E d \in Daemons : phase[d] = "unborn" /\ Move(d, "stat")
    BY <1>4, <2>2, <1>0, <1>m, <1>t DEF Spawn, filesVars, Serving
  <2> QED BY <1>4, <2>1, <2>2 DEF Spawn
<1>5. CASE Aside
  BY <1>5, <1>0, AsideLeavesPath DEF NoneEnded
<1> QED
  BY <1>1, <1>2, <1>3, <1>4, <1>5 DEF Next, Launch, Aside

\* However many daemons are spawned at once, one at most gets to serve, as
\* long as none that serves ends.
THEOREM OneGetsToServe == Spec => []OneServes
<1>1. Init => PathIsServed
  BY DaemonAssumption DEF Init, PathIsServed, Listening, Serving
<1>2. PathIsServed => OneServes
  BY DEF PathIsServed, NoneEnded, OneServes
<1> QED BY InitTypes, StepTypes, PathStep, <1>1, <1>2, PTL DEF Spec

-----------------------------------------------------------------------------
(* Connections.                                                            *)

\* An agent that has connected holds a connection that nobody else uses, and
\* what that is registered under is an id of this agent.
Using(a) == pc[a] \in {"hello", "joined"}
HeldByOne ==
  /\ \A a \in Agents : IF Using(a)
       THEN /\ cur[a] \in Conns /\ conn[cur[a]].st \in {"open", "closed"}
            /\ conn[cur[a]].agent \in IdsOf[a] \cup {None}
       ELSE cur[a] = None
  /\ \A a, b \in Agents : Using(a) /\ Using(b) /\ cur[a] = cur[b] => a = b
  /\ \A c \in Conns : conn[c].st = "open" => conn[c].at \in Daemons

\* An agent that registers under a second id leaves the first behind when it
\* closes; with one each, an id names its connection and that names its id.
OneIdEach == \A a \in Agents : \A i, j \in IdsOf[a] : i = j

Registered ==
  OneIdEach => \A d \in Daemons, i \in Ids : reg[d][i] # None =>
    LET c == reg[d][i] IN
      /\ c \in Conns /\ conn[c].at = d
      /\ conn[c].st \in {"open", "left"} /\ conn[c].agent = i

EndpointInv == TypeOK /\ HeldByOne /\ Registered

LEMMA EndpointInitially == Init => EndpointInv
  BY InitTypes DEF Init, EndpointInv, HeldByOne, Registered, Using, Unused

\* The steps that no connection and no user of one is part of.
LEMMA OthersKeepEndpoints ==
  ASSUME EndpointInv, UNCHANGED <<conn, reg, cur>>, \A a \in Agents : Using(a)' = Using(a)
  PROVE  HeldByOne' /\ Registered'
<1>1. HeldByOne /\ Registered
  BY DEF EndpointInv
<1>2. HeldByOne'
  BY <1>1 DEF HeldByOne
<1>3. Registered'
  BY <1>1 DEF Registered
<1> QED BY <1>2, <1>3

LEMMA GotoElsewhere ==
  ASSUME TypeOK, NEW a \in Agents, ~Using(a), NEW p, p \notin {"hello", "joined"}, Goto(a, p)
  PROVE  \A b \in Agents : Using(b)' = Using(b)
<1>1. \A b \in Agents : pc'[b] = IF b = a THEN p ELSE pc[b]
  BY DEF Goto, TypeOK
<1> QED BY <1>1 DEF Using

\* The end of a daemon closes its connections and empties its registry.
LEMMA DeathKeepsEndpoints ==
  ASSUME EndpointInv, NEW d \in Daemons, Dies(d)
  PROVE  HeldByOne' /\ Registered'
<1>1. /\ HeldByOne /\ Registered /\ None \notin Daemons /\ None \notin Ids
      /\ reg \in [Daemons -> [Ids -> Conns \cup {None}]]
  BY DaemonAssumption DEF EndpointInv, TypeOK
<1>2. UNCHANGED <<pc, cur>> /\ \A a \in Agents : Using(a)' = Using(a)
  BY DEF Dies, agentVars, Using
<1>3. ASSUME NEW c \in Conns
      PROVE  /\ conn[c].at # d => conn'[c] = conn[c]
             /\ conn[c].at = d => conn'[c] \in {Unused, [Unused EXCEPT !.st = "closed"]}
             /\ conn[c].at = d /\ conn[c].st # "left" =>
                  conn'[c] = [Unused EXCEPT !.st = "closed"]
  BY DEF Dies
<1>4. /\ Unused.st = "unused" /\ [Unused EXCEPT !.st = "closed"].st = "closed"
      /\ [Unused EXCEPT !.st = "closed"].agent = None
  BY DEF Unused
<1>5. \A e \in Daemons : reg'[e] = IF e = d THEN [i \in Ids |-> None] ELSE reg[e]
  BY <1>1 DEF Dies
<1>6. HeldByOne'
  BY <1>1, <1>2, <1>3, <1>4 DEF HeldByOne
<1>7. Registered'
  BY <1>1, <1>3, <1>5 DEF Registered
<1> QED BY <1>6, <1>7

LEMMA ConnectKeepsEndpoints ==
  ASSUME EndpointInv, NEW a \in Agents, Connect(a)
  PROVE  HeldByOne' /\ Registered'
<1>t. /\ TypeOK /\ HeldByOne /\ Registered /\ None \notin Conns /\ None \notin Daemons
      /\ pc[a] = "connect" /\ ~Using(a)
  BY DaemonAssumption DEF EndpointInv, Connect, At, Using
<1>1. CASE Goto(a, "failed") /\ UNCHANGED <<conn, cur>>
  <2>1. \A b \in Agents : Using(b)' = Using(b)
    BY <1>1, <1>t, GotoElsewhere
  <2>2. UNCHANGED <<conn, reg, cur>>
    BY <1>1 DEF Connect, daemonVars
  <2> QED BY <2>1, <2>2, OthersKeepEndpoints
<1>2. ASSUME NEW c \in Conns, Answers, conn[c] = Unused,
             conn' = [conn EXCEPT ![c] = [st |-> "open", at |-> file, agent |-> None]],
             cur' = [cur EXCEPT ![a] = c], Goto(a, "hello")
      PROVE  HeldByOne' /\ Registered'
  <2>1. /\ \A b \in Agents : Using(b)' = (b = a \/ Using(b))
        /\ \A b \in Agents : cur'[b] = IF b = a THEN c ELSE cur[b]
    BY <1>2, <1>t DEF Goto, Using, TypeOK
  <2>2. /\ \A e \in Conns \ {c} : conn'[e] = conn[e]
        /\ conn'[c].st = "open" /\ conn'[c].at = file /\ conn'[c].agent = None
        /\ conn[c].st = "unused" /\ file \in Daemons
    BY <1>2, <1>t DEF TypeOK, Unused, Answers
  <2>3. \A b \in Agents : Using(b) => cur[b] # c
    BY <1>t, <2>2 DEF HeldByOne
  <2>4. HeldByOne'
    BY <1>t, <2>1, <2>2, <2>3 DEF HeldByOne
  <2>5. UNCHANGED reg
    BY DEF Connect, daemonVars
  <2>6. Registered'
    BY <1>t, <2>2, <2>5 DEF Registered
  <2> QED BY <2>4, <2>6
<1> QED BY <1>1, <1>2 DEF Connect

\* An agent that leaves, by itself or because it is refused, keeps its
\* registration until the server has noticed.
LEMMA LeavingKeepsEndpoints ==
  ASSUME EndpointInv, NEW a \in Agents, Using(a), conn[cur[a]].st = "open",
         conn' = [conn EXCEPT ![cur[a]].st = "left"], cur' = [cur EXCEPT ![a] = None],
         NEW p, p \notin {"hello", "joined"}, Goto(a, p), UNCHANGED reg
  PROVE  HeldByOne' /\ Registered'
<1>t. TypeOK /\ HeldByOne /\ Registered /\ None \notin Conns
  BY DaemonAssumption DEF EndpointInv
<1>1. /\ \A b \in Agents : Using(b)' = (b # a /\ Using(b))
      /\ \A b \in Agents : cur'[b] = IF b = a THEN None ELSE cur[b]
  BY <1>t DEF Goto, Using, TypeOK
<1>2. /\ cur[a] \in Conns
      /\ \A e \in Conns \ {cur[a]} : conn'[e] = conn[e]
      /\ conn'[cur[a]].st = "left" /\ conn'[cur[a]].at = conn[cur[a]].at
      /\ conn'[cur[a]].agent = conn[cur[a]].agent
  BY <1>t DEF HeldByOne, TypeOK
<1>3. \A b \in Agents \ {a} : Using(b) => cur[b] # cur[a]
  BY <1>t DEF HeldByOne
<1>4. HeldByOne'
  <2>1. ASSUME NEW b \in Agents, b # a, Using(b)
        PROVE  /\ cur'[b] = cur[b] /\ cur[b] \in Conns
               /\ conn'[cur[b]] = conn[cur[b]]
    BY <2>1, <1>t, <1>1, <1>2, <1>3 DEF HeldByOne
  <2>2. \A c \in Conns : conn'[c].st = "open" => conn'[c] = conn[c]
    BY <1>2
  <2>3. ASSUME NEW b \in Agents
        PROVE  IF Using(b)'
                 THEN /\ cur'[b] \in Conns /\ conn'[cur'[b]].st \in {"open", "closed"}
                      /\ conn'[cur'[b]].agent \in IdsOf[b] \cup {None}
                 ELSE cur'[b] = None
    <3>1. CASE Using(b)'
      <4>1. b # a /\ Using(b)
        BY <3>1, <1>1
      <4>2. /\ cur'[b] = cur[b] /\ cur[b] \in Conns /\ conn'[cur[b]] = conn[cur[b]]
        BY <4>1, <2>1
      <4>3. /\ conn[cur[b]].st \in {"open", "closed"}
            /\ conn[cur[b]].agent \in IdsOf[b] \cup {None}
        BY <4>1, <1>t DEF HeldByOne
      <4>4. /\ cur'[b] \in Conns /\ conn'[cur'[b]].st \in {"open", "closed"}
            /\ conn'[cur'[b]].agent \in IdsOf[b] \cup {None}
        BY <4>2, <4>3
      <4> QED BY <3>1, <4>4
    <3>2. CASE ~Using(b)'
      <4>1. cur'[b] = None
        BY <3>2, <1>1, <1>t DEF HeldByOne
      <4> QED BY <3>2, <4>1
    <3> QED BY <3>1, <3>2
  <2>4. \A b, e \in Agents : Using(b)' /\ Using(e)' /\ cur'[b] = cur'[e] => b = e
    BY <1>t, <1>1, <2>1 DEF HeldByOne
  <2>5. \A c \in Conns : conn'[c].st = "open" => conn'[c].at \in Daemons
    BY <1>t, <2>2 DEF HeldByOne
  <2> QED BY <2>3, <2>4, <2>5 DEF HeldByOne
<1>5. Registered'
  BY <1>t, <1>2 DEF Registered
<1> QED BY <1>4, <1>5

LEMMA HelloKeepsEndpoints ==
  ASSUME EndpointInv, NEW a \in Agents, NEW i \in IdsOf[a], Hello(a, i)
  PROVE  HeldByOne' /\ Registered'
<1> DEFINE c == cur[a]
           d == conn[c].at
<1>t. /\ TypeOK /\ HeldByOne /\ Registered /\ None \notin Conns /\ None \notin Ids
      /\ IdsOf[a] \subseteq Ids /\ i \in Ids /\ Using(a) /\ conn[c].st = "open"
  BY DaemonAssumption DEF EndpointInv, Hello, Using
<1>c. c \in Conns /\ d \in Daemons /\ (OneIdEach => conn[c].agent \in {i, None})
  BY <1>t DEF HeldByOne, OneIdEach
<1>1. CASE Taken(d, i, c)
  <2>1. /\ conn' = [conn EXCEPT ![c].st = "left"] /\ Goto(a, "failed")
        /\ cur' = [cur EXCEPT ![a] = None] /\ UNCHANGED reg
    BY <1>1 DEF Hello
  <2> QED BY <1>t, <2>1, LeavingKeepsEndpoints
<1>2. CASE ~Taken(d, i, c)
  <2>1. /\ Goto(a, "joined") /\ UNCHANGED cur /\ reg' = [reg EXCEPT ![d][i] = c]
        /\ conn' = [conn EXCEPT ![c].agent = i] /\ reg[d][i] = None
    BY <1>2 DEF Hello, Register, Taken
  <2>2. \A b \in Agents : Using(b)' = Using(b)
    BY <1>t, <2>1 DEF Goto, Using, TypeOK
  <2>3. /\ \A e \in Conns \ {c} : conn'[e] = conn[e]
        /\ conn'[c].st = "open" /\ conn'[c].at = d /\ conn'[c].agent = i
    BY <1>t, <1>c, <2>1 DEF TypeOK
  <2>4. \A e \in Daemons, j \in Ids : reg'[e][j] = IF e = d /\ j = i THEN c ELSE reg[e][j]
    BY <1>t, <1>c, <2>1 DEF TypeOK
  <2>5. \A b \in Agents \ {a} : Using(b) => cur[b] # c
    BY <1>t DEF HeldByOne
  <2>6. HeldByOne'
    BY <1>t, <1>c, <2>1, <2>2, <2>3, <2>5 DEF HeldByOne
  <2>7. Registered'
    BY <1>t, <1>c, <2>3, <2>4 DEF Registered
  <2> QED BY <2>6, <2>7
<1> QED BY <1>1, <1>2

LEMMA DroppedKeepsEndpoints ==
  ASSUME EndpointInv, NEW a \in Agents, Dropped(a)
  PROVE  HeldByOne' /\ Registered'
<1>t. /\ TypeOK /\ HeldByOne /\ Registered /\ None \notin Conns /\ Using(a)
      /\ conn[cur[a]].st = "closed"
  BY DaemonAssumption DEF EndpointInv, Dropped, Using
<1>1. /\ \A b \in Agents : Using(b)' = (b # a /\ Using(b))
      /\ \A b \in Agents : cur'[b] = IF b = a THEN None ELSE cur[b]
  BY <1>t DEF Dropped, Goto, Using, TypeOK
<1>2. /\ cur[a] \in Conns /\ \A e \in Conns \ {cur[a]} : conn'[e] = conn[e]
      /\ conn'[cur[a]].st = "unused" /\ reg' = reg
  BY <1>t DEF Dropped, HeldByOne, TypeOK, Unused, daemonVars
<1>3. \A b \in Agents \ {a} : Using(b) => cur[b] # cur[a]
  BY <1>t DEF HeldByOne
<1>4. HeldByOne'
  BY <1>t, <1>1, <1>2, <1>3 DEF HeldByOne
<1>5. Registered'
  BY <1>t, <1>2 DEF Registered
<1> QED BY <1>4, <1>5

LEMMA ClosingKeepsEndpoints ==
  ASSUME EndpointInv, NEW c \in Conns, ClientClosed(c)
  PROVE  HeldByOne' /\ Registered'
<1>t. /\ TypeOK /\ HeldByOne /\ Registered /\ None \notin Conns /\ None \notin Ids
      /\ conn[c].st = "left" /\ UNCHANGED <<pc, cur>>
  BY DaemonAssumption DEF EndpointInv, ClientClosed, agentVars
<1>1. \A e \in Conns \ {c} : conn'[e] = conn[e]
  BY <1>t DEF ClientClosed, TypeOK
<1>2. conn'[c].st = "unused"
  BY <1>t DEF ClientClosed, TypeOK, Unused
<1>3. \A e \in Daemons, j \in Ids :
        reg'[e][j] = IF e = conn[c].at /\ j = conn[c].agent THEN None ELSE reg[e][j]
  BY <1>t DEF ClientClosed, TypeOK
<1>4. HeldByOne'
  BY <1>t, <1>1, <1>2 DEF HeldByOne, Using
<1>5. Registered'
  BY <1>t, <1>1, <1>3 DEF Registered
<1> QED BY <1>4, <1>5

LEMMA EndpointStep ==
  ASSUME EndpointInv, [Next]_vars
  PROVE  EndpointInv'
<1>t. TypeOK /\ HeldByOne /\ Registered /\ (TypeOK)'
  BY StepTypes DEF EndpointInv
<1> SUFFICES HeldByOne' /\ Registered'
  BY <1>t DEF EndpointInv
<1>1. ASSUME NEW d \in Daemons, Starting(d) \/ ReportRuntimeReady(d) \/ Stop(d)
      PROVE  HeldByOne' /\ Registered'
  <2>1. UNCHANGED <<conn, reg, cur, pc>>
    BY <1>1 DEF Starting, Stat, Probe, Unlink, Listen, BrokerStart, Decide, ReportRuntimeReady,
                Stop, daemonVars, agentVars
  <2> QED BY <2>1, OthersKeepEndpoints DEF Using
<1>2. ASSUME NEW d \in Daemons, Exit(d) \/ Kill(d) PROVE HeldByOne' /\ Registered'
  BY <1>2, DeathKeepsEndpoints DEF Exit, Kill
<1>3. ASSUME NEW a \in Agents, NEW p, p \notin {"hello", "joined"}, ~Using(a),
             Goto(a, p), UNCHANGED <<conn, reg, cur>>
      PROVE  HeldByOne' /\ Registered'
  <2>1. \A b \in Agents : Using(b)' = Using(b)
    BY <1>3, <1>t, GotoElsewhere
  <2> QED BY <1>3, <2>1, OthersKeepEndpoints
<1>4. ASSUME NEW a \in Agents, Begin(a) \/ Check(a) \/ AskStop(a) \/ WaitGone(a) \/ CheckPid(a)
                                 \/ StartDetached(a)
      PROVE  HeldByOne' /\ Registered'
  <2>1. ~Using(a) /\ UNCHANGED <<conn, reg, cur>>
    BY <1>4 DEF Begin, Check, AskStop, WaitGone, CheckPid, StartDetached, At, Using, daemonVars
  <2>2. \E p : p \notin {"hello", "joined"} /\ Goto(a, p)
    BY <1>4 DEF Begin, Check, AskStop, WaitGone, CheckPid, StartDetached
  <2> QED BY <2>1, <2>2, <1>3
<1>5. ASSUME NEW a \in Agents, Spawn(a) \/ WritePid(a) \/ Poll(a) \/ ReadReport(a)
                                 \/ Deadline(a) \/ Retry(a)
      PROVE  HeldByOne' /\ Registered'
  <2>1. ~Using(a) /\ UNCHANGED <<conn, reg, cur>>
    BY <1>5 DEF Spawn, WritePid, Poll, ReadReport, Deadline, Retry, At, Using, daemonVars
  <2>2. \E p : p \notin {"hello", "joined"} /\ Goto(a, p)
    BY <1>5 DEF Spawn, WritePid, Poll, ReadReport, Deadline, Retry
  <2> QED BY <2>1, <2>2, <1>3
<1>6. ASSUME NEW a \in Agents, Terminate(a) PROVE HeldByOne' /\ Registered'
  <2>1. UNCHANGED <<conn, reg, cur, pc>>
    BY <1>6 DEF Terminate, daemonVars, agentVars
  <2> QED BY <2>1, OthersKeepEndpoints DEF Using
<1>7. ASSUME NEW a \in Agents, Leave(a) PROVE HeldByOne' /\ Registered'
  <2>1. Using(a) /\ conn[cur[a]].st = "open" /\ UNCHANGED reg
    BY <1>7 DEF Leave, At, Using, daemonVars
  <2> QED BY <1>7, <2>1, LeavingKeepsEndpoints DEF Leave
<1>8. CASE UNCHANGED vars
  BY <1>8, OthersKeepEndpoints DEF vars, agentVars, daemonVars, Using
<1> QED
  BY <1>1, <1>2, <1>4, <1>5, <1>6, <1>7, <1>8, ConnectKeepsEndpoints, HelloKeepsEndpoints,
     DroppedKeepsEndpoints, ClosingKeepsEndpoints DEF Next, Launch

\* Where every agent registers under one id, a registered id is that of a
\* connection the server has not seen closed, so an id is refused only for the
\* sake of an endpoint that still exists, and is free once its close is noticed.
THEOREM EndpointsAreOpen ==
  ASSUME OneIdEach
  PROVE  Spec => []EndpointIsOpen
<1>1. EndpointInv /\ [Next]_vars => EndpointInv'
  BY EndpointStep
<1>2. EndpointInv => EndpointIsOpen
  BY DEF EndpointInv, Registered, EndpointIsOpen
<1> QED BY EndpointInitially, <1>1, <1>2, PTL DEF Spec

\* A daemon that was told to wait arms pairing only for a runtime that is ready
\* or an agent that is registered at that very step, whichever of runDaemon's
\* decision, the adapter's report and an agent's hello comes first.
THEOREM WalletIsLetInForARuntime == Spec => WalletAwaitsRuntime
<1> DEFINE Awaits == \A d \in Daemons : mode # "eager" /\ ~armed[d] /\ armed'[d] =>
                       ready'[d] \/ \E i \in Ids : reg'[d][i] # None
<1>1. ASSUME EndpointInv, [Next]_vars PROVE [Awaits]_vars
  <2>t. /\ TypeOK /\ HeldByOne /\ armed \in [Daemons -> BOOLEAN] /\ ready \in [Daemons -> BOOLEAN]
        /\ reg \in [Daemons -> [Ids -> Conns \cup {None}]] /\ None \notin Conns
    BY <1>1, DaemonAssumption DEF EndpointInv, TypeOK
  <2>1. ASSUME NEW d \in Daemons, Decide(d) PROVE Awaits
    <3>1. mode = "eager" \/ UNCHANGED armed
      BY <2>1 DEF Decide
    <3> QED BY <3>1
  <2>2. ASSUME NEW d \in Daemons, ReportRuntimeReady(d) PROVE Awaits
    <3>1. /\ ready'[d] = TRUE
          /\ \A e \in Daemons \ {d} : armed'[e] = armed[e]
      BY <2>2, <2>t DEF ReportRuntimeReady, ArmPairingOnce
    <3> QED BY <3>1
  <2>3. ASSUME NEW d \in Daemons, Exit(d) \/ Kill(d) PROVE Awaits
    <3>1. \A e \in Daemons : armed'[e] = IF e = d THEN FALSE ELSE armed[e]
      BY <2>3, <2>t DEF Exit, Kill, Dies
    <3> QED BY <3>1
  <2>4. ASSUME NEW a \in Agents, NEW i \in IdsOf[a], Hello(a, i) PROVE Awaits
    <3> DEFINE c == cur[a]
               d == conn[c].at
    <3>1. c \in Conns /\ d \in Daemons /\ i \in Ids
      BY <2>4, <2>t, DaemonAssumption DEF Hello, HeldByOne, Using
    <3>2. CASE Taken(d, i, c)
      BY <2>4, <3>2 DEF Hello
    <3>3. CASE ~Taken(d, i, c)
      <4>1. Register(d, i, c)
        BY <2>4, <3>3 DEF Hello
      <4>2. reg'[d][i] # None
        BY <4>1, <3>1, <2>t DEF Register
      <4>3. \A e \in Daemons \ {d} : armed'[e] = armed[e]
        BY <4>1, <3>1, <2>t DEF Register, ArmPairingOnce
      <4> QED BY <4>2, <4>3, <3>1
    <3> QED BY <3>2, <3>3
  <2>5. ASSUME NEW d \in Daemons,
               Stat(d) \/ Probe(d) \/ Unlink(d) \/ Listen(d) \/ BrokerStart(d) \/ Stop(d)
        PROVE  Awaits
    BY <2>5 DEF Stat, Probe, Unlink, Listen, BrokerStart, Stop, daemonVars
  <2>6. ASSUME NEW a \in Agents, Begin(a) \/ Launch(a) \/ Deadline(a) \/ Leave(a) \/ Retry(a)
        PROVE  Awaits
    <3>1. UNCHANGED armed
      BY <2>6 DEF Begin, Launch, Deadline, Leave, Retry, Check, AskStop, Terminate, WaitGone,
                  CheckPid, StartDetached, Spawn, WritePid, Poll, ReadReport, Connect, Dropped,
                  daemonVars
    <3> QED BY <3>1
  <2>7. ASSUME NEW c \in Conns, ClientClosed(c) PROVE Awaits
    BY <2>7 DEF ClientClosed
  <2> QED BY <1>1, <2>1, <2>2, <2>3, <2>4, <2>5, <2>6, <2>7 DEF Next, Starting
<1>2. EndpointInv /\ [Next]_vars => EndpointInv'
  BY EndpointStep
<1> QED BY EndpointInitially, <1>1, <1>2, PTL DEF Spec, WalletAwaitsRuntime
=============================================================================
