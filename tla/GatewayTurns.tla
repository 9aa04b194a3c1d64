---------------------------- MODULE GatewayTurns ----------------------------
(***************************************************************************)
(* What a wallet is shown of its turns (runtime/gateway/adapter.ts): each  *)
(* message of the wallet becomes a run on the OpenClaw gateway, whose      *)
(* segments come back as events.  handleInbound runs once per message, so  *)
(* turns overlap; the events know only the one slot activeRun.  The        *)
(* connection below is GatewayLink's; here it is up, down or coming up.    *)
(*                                                                         *)
(* A segment <<t, k>> is the k-th thing the run of turn t says.  Texts are *)
(* named by the segments they consist of: a `chat` snapshot is cumulative, *)
(* a `session.message` is one segment.                                     *)
(***************************************************************************)
EXTENDS GatewayWallet, Integers, FiniteSets, Sequences

CONSTANTS
  Turns,             \* messages the wallet sends
  NoTurn,            \* activeRun = null
  MaxSegments,       \* bound: segments of one run
  Scenarios          \* sets of faults, one of which a behaviour may meet

FaultKinds == {
  "overlap",         \* the wallet speaks while a turn is under way
  "late",            \* events come after the answers to later calls, or the grace
  "timeout",         \* an RPC outlasts its deadline
  "silent",          \* the gateway sends no session.message
  "mute",            \* nor does it stream
  "quick",           \* the wallet speaks within RUN_START_SKEW_MS of an answer
  "drop",            \* the gateway goes away, once
  "leave",           \* the wallet goes away, once
  "gone" }           \* ... and that is how it was

ASSUME NoTurnAssumption == NoTurn \notin Turns
ASSUME SegmentsAssumption == MaxSegments \in Nat \ {0}
ASSUME ScenariosAssumption == Scenarios \subseteq SUBSET FaultKinds

VARIABLES
  faults,            \* what may yet go wrong in this behaviour
  pc,                \* where handleInbound of a turn is
  thid,              \* effectiveThid of a turn
  run,               \* its ActiveRun: committed segments, text, startedAt
  link,              \* the gateway connection: client null, connecting, ready
  subscribed,        \* sessions whose session.message the gateway sends
  job,               \* the run of a turn on the gateway
  transcript,        \* what a session has recorded, segments in order
  events,            \* events of a session on their way, oldest first
  bubbles,           \* finalized messages the wallet shows
  preview            \* threads whose live preview is on

turnVars == <<pc, thid, run>>
slotVars == <<activeRun, activeThid>>
gateVars == <<job, transcript, events>>
shownVars == <<bubbles, preview>>
vars == <<faults, turnVars, slotVars, link, subscribed, gateVars, walletUp, shownVars>>

Segments == Turns \X (1..MaxSegments)
NoText == [of |-> NoTurn, upto |-> 0]
Texts == {NoText} \cup [of : Turns, upto : 1..MaxSegments]
SegmentsOf(text) == {<<text.of, k>> : k \in 1..text.upto}

\* The ids a bubble may have: a gateway messageId, or a fresh UUID of a turn.
Mids == [message : Segments] \cup [turn : Turns]
Bubble(th, mid, segments) == [thid |-> th, mid |-> mid, segments |-> segments]

Ended == {"ignored", "refused", "answered", "failed"}
Labels == {"new", "ready", "subscribing", "agent", "wait", "grace", "history"} \cup Ended
Underway(t) == pc[t] \notin {"new"} \cup Ended
Jobs == {"none", "queued", "running", "ok", "error"}
FreshRun == [committed |-> {}, text |-> NoText, since |-> 0]

Init ==
  /\ faults \in Scenarios
  /\ pc = [t \in Turns |-> "new"]
  /\ thid = [t \in Turns |-> DefaultThid]
  /\ run = [t \in Turns |-> FreshRun]
  /\ activeRun = NoTurn /\ activeThid = DefaultThid
  /\ link = "connecting"
  /\ subscribed = {}
  /\ job = [t \in Turns |-> "none"]
  /\ transcript = [th \in Threads |-> <<>>]
  /\ events = [th \in Threads |-> <<>>]
  /\ walletUp = TRUE
  /\ bubbles = {} /\ preview = {}

-----------------------------------------------------------------------------
(* Frames to the wallet: host.send delivers only while a wallet is linked. *)

Preview(th) == preview' = IF walletUp THEN preview \cup {th} ELSE preview

Discard(th) ==
  /\ preview' = preview \ {th}
  /\ UNCHANGED bubbles

Finalize(th, mid, segments) ==
  /\ bubbles' = IF walletUp THEN bubbles \cup {Bubble(th, mid, segments)} ELSE bubbles
  /\ preview' = preview \ {th}

\* The bubble that carries the failure text says nothing of the run.
Failure(t) == Finalize(thid[t], [turn |-> t], {})

Goto(t, label) == pc' = [pc EXCEPT ![t] = label]

\* `if (activeRun === run) activeRun = null`, after the wait, in the catch and
\* in the finally.
Detach(t) == activeRun' = IF activeRun = t THEN NoTurn ELSE activeRun

-----------------------------------------------------------------------------
(* A turn.                                                                 *)

\* One WebSocket: an answer comes behind the events sent before it.  Only the
\* answer of agent.wait may overtake the last of them, and the grace is for that.
InOrder(th) == "late" \in faults \/ events[th] = <<>>

\* A frame without a controller, or blank: nothing is started.
Ignored(t) ==
  /\ pc[t] = "new"
  /\ Goto(t, "ignored")
  /\ UNCHANGED <<faults, thid, run, slotVars, link, subscribed, gateVars, walletUp, shownVars>>

\* An explicit thid wins; a bare frame continues the thread the wallet is in.
Target(explicit) == IF explicit \in Threads THEN explicit ELSE activeThid

\* The preview and, without a client, the notice that takes it back.
Inbound(t) ==
  /\ pc[t] = "new" /\ walletUp
  /\ "overlap" \in faults \/ \A u \in Turns : ~Underway(u)
  /\ \E explicit \in Threads \cup {"none"} :
       LET th == Target(explicit)
       IN  /\ thid' = [thid EXCEPT ![t] = th]
           /\ IF link = "none"
              THEN Goto(t, "refused") /\ Discard(th)
              ELSE Goto(t, "ready") /\ Preview(th) /\ UNCHANGED bubbles
  /\ UNCHANGED <<faults, run, slotVars, link, subscribed, gateVars, walletUp>>

\* client.ready resolved: make sure of the session's messages.  A session that
\* is subscribed already costs no round trip.
Ready(t) ==
  /\ pc[t] = "ready" /\ link = "ready"
  /\ Goto(t, "subscribing")
  /\ UNCHANGED <<faults, thid, run, slotVars, link, subscribed, gateVars, walletUp, shownVars>>

\* The clock of the turn starts: what is recorded up to now is an earlier
\* answer, except for the skew allowed between the two clocks.
Start(t, since) == run' = [run EXCEPT ![t].since = since]

\* The subscription is answered, or refused: then the turn goes on without.
CallAgent(t) ==
  /\ pc[t] = "subscribing" /\ link = "ready"
  /\ Goto(t, "agent")
  /\ subscribed' = IF "silent" \in faults THEN subscribed ELSE subscribed \cup {thid[t]}
  /\ LET n == Len(transcript[thid[t]])
     IN  \E since \in {n} \cup (IF "quick" \in faults /\ n > 0 THEN {n - 1} ELSE {}) :
           Start(t, since)
  /\ UNCHANGED <<faults, thid, slotVars, link, gateVars, walletUp, shownVars>>

\* The run is accepted; its turn takes the slot, whoever had it.
AgentAnswers(t) ==
  /\ pc[t] = "agent" /\ link = "ready" /\ InOrder(thid[t])
  /\ job' = [job EXCEPT ![t] = "queued"]
  /\ activeRun' = t
  /\ Goto(t, "wait")
  /\ UNCHANGED <<faults, thid, run, activeThid, link, subscribed, transcript, events, walletUp,
                 shownVars>>

\* The call fails; it was accepted all the same if only the answer was late.
AgentFails(t) ==
  /\ pc[t] = "agent"
  /\ \E late \in {FALSE} \cup {"timeout" \in faults} :
       job' = [job EXCEPT ![t] = IF late THEN "queued" ELSE @]
  /\ Goto(t, "failed") /\ Detach(t) /\ Failure(t)
  /\ UNCHANGED <<faults, thid, run, activeThid, link, subscribed, transcript, events, walletUp>>

\* agent.wait says that the run is over: the grace begins.
RunDone(t) ==
  /\ pc[t] = "wait" /\ link = "ready" /\ job[t] = "ok"
  /\ Goto(t, "grace")
  /\ UNCHANGED <<faults, thid, run, slotVars, link, subscribed, gateVars, walletUp, shownVars>>

\* It reports an error, or its deadline passes, the server's or the client's.
RunFails(t) ==
  /\ pc[t] = "wait" /\ link = "ready"
  /\ job[t] = "error" \/ ("timeout" \in faults /\ job[t] \in {"queued", "running"})
  /\ Goto(t, "failed") /\ Detach(t) /\ Failure(t)
  /\ UNCHANGED <<faults, thid, run, activeThid, link, subscribed, gateVars, walletUp>>

FinalizeRun_StreamFirst(t) ==
  IF run[t].text # NoText
  THEN Goto(t, "answered") /\ Finalize(thid[t], [turn |-> t], SegmentsOf(run[t].text))
  ELSE Goto(t, "answered") /\ Discard(thid[t])

\* finalizeRun: trust the segments committed; else the text streamed; else ask
\* the history.
FinalizeRun(t) ==
  \/ /\ run[t].committed # {}
     /\ Goto(t, "answered") /\ Discard(thid[t])
  \/ /\ run[t].committed = {} /\ run[t].text # NoText
     /\ Goto(t, "answered")
     /\ Finalize(thid[t], [turn |-> t], SegmentsOf(run[t].text))
  \/ /\ run[t].committed = {} /\ run[t].text = NoText
     /\ IF link = "none"
        THEN Goto(t, "answered") /\ Discard(thid[t])
        ELSE Goto(t, "history") /\ UNCHANGED shownVars

GraceElapses_NoWait(t) ==
  /\ pc[t] = "grace"
  /\ Detach(t)
  /\ FinalizeRun(t)
  /\ UNCHANGED <<faults, thid, run, activeThid, link, subscribed, gateVars, walletUp>>

GraceElapses_ForCommit(t) ==
  /\ pc[t] = "grace" /\ run[t].committed # {}
  /\ Detach(t)
  /\ FinalizeRun(t)
  /\ UNCHANGED <<faults, thid, run, activeThid, link, subscribed, gateVars, walletUp>>

GraceElapses(t) ==
  /\ pc[t] = "grace"
  /\ InOrder(thid[t])
  /\ Detach(t)
  /\ FinalizeRun(t)
  /\ UNCHANGED <<faults, thid, run, activeThid, link, subscribed, gateVars, walletUp>>

\* The last assistant message of the session, if this run can have said it.
HistoryReply(t) ==
  /\ pc[t] = "history" /\ link = "ready" /\ InOrder(thid[t])
  /\ Goto(t, "answered")
  /\ LET said == transcript[thid[t]]
     IN  IF Len(said) > run[t].since
         THEN Finalize(thid[t], [turn |-> t], {said[Len(said)]})
         ELSE Discard(thid[t])
  /\ UNCHANGED <<faults, thid, run, slotVars, link, subscribed, gateVars, walletUp>>

\* The call fails, or finds a connection that is not ready: nothing to add.
HistoryFails(t) ==
  /\ pc[t] = "history" /\ ("timeout" \in faults \/ link # "ready")
  /\ Goto(t, "answered") /\ Discard(thid[t])
  /\ UNCHANGED <<faults, thid, run, slotVars, link, subscribed, gateVars, walletUp>>

-----------------------------------------------------------------------------
(* Events, in the context of the active run.                               *)

\* `chat` carries the run and the session, `session.message` the session only.
Matches_Any(u, a) == TRUE
Matches(u, a) == u = a \/ thid[u] = thid[a]

\* run.committedText has no structure here: the tail that is typed is whatever
\* is not committed, and only whether there is one shows.
Typing(a, text) ==
  /\ run' = [run EXCEPT ![a].text = text]
  /\ IF SegmentsOf(text) \subseteq run[a].committed THEN UNCHANGED preview
     ELSE Preview(thid[a])
  /\ UNCHANGED bubbles

CommitSegment(a, segment) ==
  IF segment \in run[a].committed
  THEN UNCHANGED <<run, shownVars>>
  ELSE /\ run' = [run EXCEPT ![a].committed = @ \cup {segment}]
       /\ Finalize(thid[a], [message |-> segment], {segment})

\* The next event of a session; without an active run it is dropped.
Event(th) ==
  /\ link = "ready" /\ events[th] # <<>>
  /\ events' = [events EXCEPT ![th] = Tail(@)]
  /\ LET e == Head(events[th])
     IN  IF activeRun = NoTurn \/ ~Matches(e.of, activeRun)
         THEN UNCHANGED <<run, shownVars>>
         ELSE \/ e.kind = "chat" /\ Typing(activeRun, [of |-> e.of, upto |-> e.upto])
              \/ e.kind = "message" /\ CommitSegment(activeRun, <<e.of, e.upto>>)
  /\ UNCHANGED <<faults, pc, thid, slotVars, link, subscribed, job, transcript, walletUp>>

-----------------------------------------------------------------------------
(* The gateway: one run of a session at a time.                            *)

Said(u) == Cardinality({i \in 1..Len(transcript[thid[u]]) : transcript[thid[u]][i][1] = u})

RunStarts(u) ==
  /\ job[u] = "queued"
  /\ \A v \in Turns : job[v] = "running" => thid[v] # thid[u]
  /\ job' = [job EXCEPT ![u] = "running"]
  /\ UNCHANGED <<faults, turnVars, slotVars, link, subscribed, transcript, events, walletUp,
                 shownVars>>

\* It says something: streamed or not, recorded, and sent to who is there.
RunSays(u) ==
  /\ job[u] = "running" /\ Said(u) < MaxSegments
  /\ LET k == Said(u) + 1
     IN  /\ transcript' = [transcript EXCEPT ![thid[u]] = Append(@, <<u, k>>)]
         /\ events' = IF link # "ready" THEN events
              ELSE [events EXCEPT ![thid[u]] = @ \o
                     (IF "mute" \in faults THEN <<>>
                      ELSE <<[kind |-> "chat", of |-> u, upto |-> k]>>) \o
                     (IF thid[u] \notin subscribed THEN <<>>
                      ELSE <<[kind |-> "message", of |-> u, upto |-> k]>>)]
  /\ UNCHANGED <<faults, turnVars, slotVars, link, subscribed, job, walletUp, shownVars>>

RunEnds(u) ==
  /\ job[u] = "running"
  /\ \E how \in {"ok", "error"} : job' = [job EXCEPT ![u] = how]
  /\ UNCHANGED <<faults, turnVars, slotVars, link, subscribed, transcript, events, walletUp,
                 shownVars>>

-----------------------------------------------------------------------------
(* The connections.                                                        *)

LinkReady ==
  /\ link \in {"none", "connecting"}
  /\ link' = IF link = "none" THEN "connecting" ELSE "ready"
  /\ UNCHANGED <<faults, turnVars, slotVars, subscribed, gateVars, walletUp, shownVars>>

\* The close rejects every call that waits: a turn that waits to be ready says
\* that the gateway is gone; one before its answer says that it failed (a
\* subscription that fails is passed over, but then there is no client to call).
LinkCloses ==
  /\ "drop" \in faults /\ link # "none"
  /\ faults' = (faults \ {"drop"}) \cup {"gone"}
  /\ link' = "none"
  /\ subscribed' = {} /\ activeRun' = NoTurn
  /\ events' = [th \in Threads |-> <<>>]
  /\ pc' = [t \in Turns |->
       CASE pc[t] = "ready" -> "refused"
         [] pc[t] \in {"subscribing", "agent", "wait"} -> "failed"
         [] pc[t] = "history" -> "answered"
         [] OTHER -> pc[t]]
  /\ LET over == {t \in Turns : pc'[t] # pc[t]}
     IN  /\ preview' = preview \ {thid[t] : t \in over}
         /\ bubbles' = IF ~walletUp THEN bubbles ELSE
              bubbles \cup {Bubble(thid[t], [turn |-> t], {}) :
                             t \in {x \in over : pc'[x] = "failed"}}
  /\ UNCHANGED <<thid, run, activeThid, job, transcript, walletUp>>

\* The adapter forgets its subscriptions; the gateway does not.
WalletDisconnects ==
  /\ "leave" \in faults /\ walletUp
  /\ faults' = (faults \ {"leave"}) \cup {"gone"}
  /\ walletUp' = FALSE
  /\ activeRun' = NoTurn /\ activeThid' = DefaultThid
  /\ preview' = {}
  /\ UNCHANGED <<turnVars, link, subscribed, gateVars, bubbles>>

WalletConnects ==
  /\ ~walletUp
  /\ walletUp' = TRUE
  /\ UNCHANGED <<faults, turnVars, slotVars, link, subscribed, gateVars, shownVars>>

\* The wallet opens a thread, or closes the one it is in; it matters to the
\* frames still to come.
ToCome == \E t \in Turns : pc[t] = "new"

OpensThread(th) ==
  /\ walletUp /\ ToCome /\ activeThid # th
  /\ activeThid' = th
  /\ UNCHANGED <<faults, turnVars, activeRun, link, subscribed, gateVars, walletUp, shownVars>>

ClosesThread ==
  /\ walletUp /\ ToCome /\ activeThid # DefaultThid
  /\ activeThid' = DefaultThid
  /\ UNCHANGED <<faults, turnVars, activeRun, link, subscribed, gateVars, walletUp, shownVars>>

-----------------------------------------------------------------------------
TurnStep(t) ==
  \/ Ignored(t) \/ Inbound(t) \/ Ready(t) \/ CallAgent(t)
  \/ AgentAnswers(t) \/ AgentFails(t) \/ RunDone(t) \/ RunFails(t)
  \/ GraceElapses(t) \/ HistoryReply(t) \/ HistoryFails(t)

GatewayStep(t) == RunStarts(t) \/ RunSays(t) \/ RunEnds(t)

Next ==
  \/ \E t \in Turns : TurnStep(t) \/ GatewayStep(t)
  \/ \E th \in Threads : Event(th) \/ OpensThread(th)
  \/ LinkReady \/ LinkCloses
  \/ WalletDisconnects \/ WalletConnects
  \/ ClosesThread

\* Timers fire: the handshake's, those of the calls and the grace.  Without
\* timeouts in the behaviour this is the gateway answering before them.
Fairness ==
  /\ WF_vars(LinkReady)
  /\ \A t \in Turns :
       /\ WF_vars(Ready(t)) /\ WF_vars(CallAgent(t))
       /\ WF_vars(AgentAnswers(t) \/ AgentFails(t))
       /\ WF_vars(RunDone(t) \/ RunFails(t)) /\ WF_vars(GraceElapses(t))
       /\ WF_vars(HistoryReply(t) \/ HistoryFails(t))
       /\ WF_vars(RunStarts(t)) /\ WF_vars(RunEnds(t))
  /\ \A th \in Threads : WF_vars(Event(th))

Spec == Init /\ [][Next]_vars /\ Fairness

-----------------------------------------------------------------------------
(* Properties.                                                             *)

TypeOK ==
  /\ faults \subseteq FaultKinds
  /\ pc \in [Turns -> Labels] /\ thid \in [Turns -> Threads]
  /\ run \in [Turns -> [committed : SUBSET Segments, text : Texts, since : Nat]]
  /\ activeRun \in Turns \cup {NoTurn} /\ activeThid \in Threads
  /\ link \in {"none", "connecting", "ready"} /\ subscribed \subseteq Threads
  /\ job \in [Turns -> Jobs] /\ transcript \in [Threads -> Seq(Segments)]
  /\ events \in [Threads -> Seq([kind : {"chat", "message"}, of : Turns, upto : 1..MaxSegments])]
  /\ walletUp \in BOOLEAN
  /\ bubbles \subseteq [thid : Threads, mid : Mids, segments : SUBSET Segments]
  /\ preview \subseteq Threads

\* Whatever overlaps, fails or comes late, what a run said is shown in the
\* thread that asked (679-695, 856-861, 883-911).
RightThread == \A b \in bubbles : \A s \in b.segments : thid[s[1]] = b.thid

\* The wallet is not left spinning: a preview that is on has a turn that will
\* take it back, in spite of refusals, failures, timeouts and events that come
\* late or for another run (1627-1629).
NoStuckPreview == \A th \in preview : \E t \in Turns : Underway(t) /\ thid[t] = th

\* An older turn that ends leaves the slot of a newer one alone (1501-1506):
\* only a turn that ends, or an end of a connection, empties the slot.
SlotGuard ==
  [][activeRun # NoTurn /\ activeRun' = NoTurn =>
       pc'[activeRun] # pc[activeRun] \/ link' # link \/ walletUp' # walletUp]_vars

\* Undisturbed, a turn that was answered is shown in full ...
Complete == \A t \in Turns : pc[t] = "answered" =>
  \A k \in 1..Said(t) : \E b \in bubbles : <<t, k>> \in b.segments
CalmIsComplete == faults = {} => Complete

\* ... and nothing is shown twice, by commit and by fallback, by one turn and by
\* the next, even if the gateway streams or records only (863-881).
Steady == faults \subseteq {"silent", "mute"}
ShownOnce == \A b, c \in bubbles : b # c => b.segments \cap c.segments = {}
CalmIsOnce == Steady => ShownOnce

\* Commit, fallback and grace together neither lose nor repeat.
CalmIsExact == CalmIsComplete /\ CalmIsOnce

\* A turn that was answered by a gateway that sends no messages still shows the
\* last thing the run said.
LastIsShown == Steady =>
  \A t \in Turns : pc[t] = "answered" /\ Said(t) > 0 =>
    \E b \in bubbles : <<t, Said(t)>> \in b.segments

\* Every turn comes to its end.
EveryTurnEnds == \A t \in Turns : Underway(t) ~> pc[t] \in Ended
=============================================================================
