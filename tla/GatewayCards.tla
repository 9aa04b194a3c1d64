---------------------------- MODULE GatewayCards ----------------------------
(***************************************************************************)
(* The durable cards of the gateway adapter (runtime/gateway/adapter.ts):  *)
(* tool cards that follow a tool call of the active run, task cards of the *)
(* sub-agents it spawns, which outlive it, and the replay of a thread from *)
(* chat.history, which replaces what the wallet holds of that thread.      *)
(*                                                                         *)
(* The output of a tool is a text in pieces; it is told in snapshots (all  *)
(* so far) or in deltas (the new piece), and a result that repeats it.  A  *)
(* run is named by its thread: a newer turn of a thread gets the events of *)
(* the older one, as both have its session key.  What turns show besides   *)
(* is GatewayTurns'.                                                       *)
(***************************************************************************)
EXTENDS GatewayWallet, Integers, FiniteSets, SequencesExt

CONSTANTS
  NoRun,             \* activeRun = null
  Tools,             \* calls of ordinary tools, by toolCallId
  Deltas,            \* those of them that tell the new piece, not all so far
  Spawns,            \* calls of sessions_spawn
  Yields,            \* calls of sessions_yield
  CallSets,          \* sets of calls, one of which the agent makes
  Cap,               \* MAX_TOOL_OUTPUT_CHARS
  MaxOutput,         \* bound: pieces of output of one tool
  Text,              \* of each tool, what it will have put out in the end
  MaxWire            \* bound: frames of the gateway on their way

Calls == Tools \cup Spawns \cup Yields
More == 0            \* the marker of a truncated output

ASSUME NoRunAssumption == NoRun \notin Threads
ASSUME CallsAssumption ==
  /\ Deltas \subseteq Tools
  /\ Tools \cap Spawns = {} /\ Tools \cap Yields = {} /\ Spawns \cap Yields = {}
ASSUME CallSetsAssumption == CallSets \subseteq SUBSET Calls
ASSUME TextAssumption == Text \in [Tools -> [1..MaxOutput -> 1..MaxOutput]]
ASSUME BoundsAssumption == Cap \in Nat \ {0} /\ MaxOutput \in Nat /\ MaxWire \in Nat

VARIABLES
  client,            \* whether there is a gateway connection
  stopped,           \* stop() was called
  toolCards,         \* run.toolCards: the output kept for a tool's card
  watcher,           \* watchSpawnedTask of a spawn
  asked,             \* threads whose chat.history is asked for a replay
  running,           \* runs under way on the gateway
  calls,             \* the calls the agent makes
  overtaken,         \* (auxiliary) calls under way when a newer turn of their
                     \* thread took the slot
  place,             \* the thread a call was made in
  phase,             \* the call on the gateway, as its transcript has it
  output,            \* how much a tool has put out
  child,             \* the run of a spawned sub-agent
  spoken,            \* threads with a transcript
  wire,              \* frames of the gateway on their way, oldest first
  left,              \* whether it ever went away
  cards,             \* what the wallet shows
  advertised         \* the conversations it was told of

adapterVars == <<activeRun, activeThid, client, stopped, toolCards, watcher, asked>>
gatewayVars == <<running, calls, overtaken, place, phase, output, child, spoken>>
walletVars == <<walletUp, left, cards, advertised>>
cardsVars == <<adapterVars, gatewayVars, wire, walletVars>>

Phases == {"none", "started", "accepted", "rejected", "done"}
Statuses == {"tool", "info", "running", "completed", "failed"}
Outputs == UNION {[1..n -> {More} \cup 1..MaxOutput] : n \in 0..(Cap + 1)}
Card(th, call, status, out, result) ==
  [thid |-> th, call |-> call, status |-> status, out |-> out, result |-> result]

CardsInit ==
  /\ activeRun = NoRun /\ activeThid = DefaultThid /\ client = TRUE /\ stopped = FALSE
  /\ toolCards = [c \in Tools |-> <<>>]
  /\ watcher = [c \in Spawns |-> "none"] /\ asked = {}
  /\ running = {} /\ calls \in CallSets
  /\ overtaken = {}
  /\ place = [c \in Calls |-> DefaultThid]
  /\ phase = [c \in Calls |-> "none"] /\ output = [c \in Tools |-> 0]
  /\ child = [c \in Spawns |-> "none"] /\ spoken = {}
  /\ wire = <<>>
  /\ walletUp = TRUE /\ left = FALSE /\ cards = {} /\ advertised = {}

-----------------------------------------------------------------------------
(* Outputs.                                                                *)

\* What a tool put out from one piece to another.
Part(c, from, to) == SubSeq(Text[c], from, to)

\* A snapshot supersedes, a repeat of the tail adds nothing, anything else is a
\* delta; past the cap the rest is a marker.
Truncate(out) == IF Len(out) > Cap THEN Append(SubSeq(out, 1, Cap), More) ELSE out
MergeToolOutput_RepeatsTail(prev, chunk) ==
  Truncate(IF IsPrefix(prev, chunk) THEN chunk ELSE prev \o chunk)
MergeToolOutput(prev, chunk) ==
  Truncate(IF IsPrefix(prev, chunk) THEN chunk
           ELSE IF IsSuffix(chunk, prev) THEN prev ELSE prev \o chunk)

\* What an update tells of an output that has reached n.
Chunk(c, n) == Part(c, IF c \in Deltas THEN n ELSE 1, n)

-----------------------------------------------------------------------------
(* Cards: the wallet files a card under its thread and its id, and a card  *)
(* with that id again takes its place.                                     *)

Upsert_Adds(card) == cards' = IF ~walletUp THEN cards ELSE cards \cup {card}
Upsert(card) ==
  cards' = IF ~walletUp THEN cards
    ELSE {d \in cards : <<d.thid, d.call>> # <<card.thid, card.call>>} \cup {card}

\* mapHistoryMessages: the cards of a transcript.  A spawn counts as completed.
MapHistoryMessages(th) ==
  LET recorded == {c \in Calls : place[c] = th /\ phase[c] # "none"}
      Result(c) == IF phase[c] = "done" THEN MergeToolOutput(<<>>, Part(c, 1, output[c]))
                   ELSE <<>>
  IN  {Card(th, c, "tool", Result(c), FALSE) : c \in recorded \cap Tools}
      \cup {Card(th, c, "completed", <<>>, FALSE) :
              c \in {x \in recorded \cap Spawns : phase[x] = "accepted"}}

\* The wallet's copy of the thread is replaced.
Restore(th, replayed) ==
  cards' = IF ~walletUp THEN cards ELSE {d \in cards : d.thid # th} \cup replayed

-----------------------------------------------------------------------------
(* Events of the active run.                                               *)

\* (upto is auxiliary: how far the output was.)
Send(frame) == wire' = IF client THEN Append(wire, frame) ELSE wire
ToolEvent(th, c, ph, chunk, upto) ==
  [kind |-> "tool", thid |-> th, call |-> c, phase |-> ph, chunk |-> chunk, upto |-> upto]

\* start puts the card up; update and result merge onto what there is, also if
\* the start was missed.
HandleToolEvent(e) ==
  LET merged == IF e.phase = "start" THEN <<>> ELSE MergeToolOutput(toolCards[e.call], e.chunk)
  IN  /\ toolCards' = [toolCards EXCEPT ![e.call] = merged]
      /\ Upsert(Card(activeRun, e.call, "tool", merged, FALSE))
      /\ UNCHANGED watcher

\* A spawn shows when it is accepted: then its card, and someone who waits.
HandleSpawnResult(e) ==
  IF e.phase = "accepted"
  THEN /\ Upsert(Card(activeRun, e.call, "running", <<>>, FALSE))
       /\ watcher' = [watcher EXCEPT ![e.call] = "waiting"]
       /\ UNCHANGED toolCards
  ELSE UNCHANGED <<cards, watcher, toolCards>>

\* A turn that ends itself while its children run leaves a note.
HandleYield(e) ==
  /\ IF e.phase = "start" THEN Upsert(Card(activeRun, e.call, "info", <<>>, FALSE))
     ELSE UNCHANGED cards
  /\ UNCHANGED <<watcher, toolCards>>

CallEvent ==
  /\ client /\ wire # <<>> /\ Head(wire).kind = "tool"
  /\ wire' = Tail(wire)
  /\ LET e == Head(wire)
     IN  IF activeRun # e.thid THEN UNCHANGED <<cards, watcher, toolCards>>
         ELSE \/ e.call \in Tools /\ HandleToolEvent(e)
              \/ e.call \in Spawns /\ HandleSpawnResult(e)
              \/ e.call \in Yields /\ HandleYield(e)
  /\ UNCHANGED <<activeRun, activeThid, client, stopped, asked, gatewayVars, walletUp, left,
                 advertised>>

-----------------------------------------------------------------------------
(* watchSpawnedTask: detached from the turn, ends in one card.             *)

\* The card is filed where the task was spawned, wherever the wallet is now.
Filed_Active(c) == activeThid
Filed(c) == place[c]

Settle(c, status) ==
  /\ watcher' = [watcher EXCEPT ![c] = "over"]
  /\ Upsert(Card(Filed(c), c, status, <<>>, TRUE))

\* agent.wait answers, with the child's end or with its own deadline, or the
\* call fails; nothing is shown of it once the adapter is stopped.
Answered_AnyVerdict(c, verdict) ==
  /\ watcher' = [watcher EXCEPT ![c] = IF stopped THEN "over" ELSE "reading"]
  /\ UNCHANGED cards
Answered(c, verdict) ==
  IF stopped THEN watcher' = [watcher EXCEPT ![c] = "over"] /\ UNCHANGED cards
  ELSE IF verdict = "ok" THEN watcher' = [watcher EXCEPT ![c] = "reading"] /\ UNCHANGED cards
  ELSE Settle(c, "failed")

WaitAnswered(c) ==
  /\ watcher[c] = "waiting" /\ client
  /\ \E verdict \in {"ok", "error", "timeout"} :
       /\ verdict = "timeout" \/ verdict = child[c]
       /\ Answered(c, verdict)
  /\ UNCHANGED <<activeRun, activeThid, client, stopped, toolCards, asked,
                 gatewayVars, wire, walletUp, left, advertised>>

WaitRejected(c) ==
  /\ watcher[c] = "waiting" /\ ~client
  /\ Answered(c, "lost")
  /\ UNCHANGED <<activeRun, activeThid, client, stopped, toolCards, asked,
                 gatewayVars, wire, walletUp, left, advertised>>

ResultRead_Drops(c) ==
  /\ watcher[c] = "reading"
  /\ watcher' = [watcher EXCEPT ![c] = "over"]
  /\ IF stopped \/ ~client THEN UNCHANGED cards
     ELSE Upsert(Card(Filed(c), c, "completed", <<>>, TRUE))
  /\ UNCHANGED <<activeRun, activeThid, client, stopped, toolCards, asked,
                 gatewayVars, wire, walletUp, left, advertised>>

\* chat.history of the child, or "(no reply)" when it cannot be read.
ResultRead(c) ==
  /\ watcher[c] = "reading"
  /\ IF stopped THEN watcher' = [watcher EXCEPT ![c] = "over"] /\ UNCHANGED cards
     ELSE Settle(c, "completed")
  /\ UNCHANGED <<activeRun, activeThid, client, stopped, toolCards, asked,
                 gatewayVars, wire, walletUp, left, advertised>>

-----------------------------------------------------------------------------
(* Replay and the conversations frame.                                     *)

\* replayHistory asks once the client is ready; without one it gives up.
ReplayHistory(th) == asked' = IF client THEN asked \cup {th} ELSE asked

OnConversationOpen(th) ==
  /\ walletUp /\ activeThid # th
  /\ activeThid' = th
  /\ ReplayHistory(th)
  /\ UNCHANGED <<activeRun, client, stopped, toolCards, watcher, gatewayVars, wire, walletVars>>

OnConversationClose ==
  /\ walletUp /\ activeThid # DefaultThid
  /\ activeThid' = DefaultThid
  /\ UNCHANGED <<activeRun, client, stopped, toolCards, watcher, asked, gatewayVars, wire,
                 walletVars>>

\* listControllerThreads: the sessions of this controller, sub-agents' left
\* out; none when the list cannot be had.
ListControllerThreads == IF client THEN spoken ELSE {}

OnConnected ==
  /\ ~walletUp
  /\ walletUp' = TRUE
  /\ advertised' = ListControllerThreads
  /\ ReplayHistory(activeThid)
  /\ UNCHANGED <<activeRun, activeThid, client, stopped, toolCards, watcher, gatewayVars, wire,
                 left, cards>>

OnDisconnected ==
  /\ walletUp /\ ~left
  /\ walletUp' = FALSE /\ left' = TRUE
  /\ activeRun' = NoRun /\ activeThid' = DefaultThid
  /\ UNCHANGED <<client, stopped, toolCards, watcher, asked, gatewayVars, wire, cards, advertised>>

\* The gateway answers with the transcript as it is now ...
HistoryAnswered(th) ==
  /\ th \in asked /\ client /\ Len(wire) < MaxWire
  /\ Send([kind |-> "history", thid |-> th, cards |-> MapHistoryMessages(th)])
  /\ asked' = asked \ {th}
  /\ UNCHANGED <<activeRun, activeThid, client, stopped, toolCards, watcher, gatewayVars,
                 walletVars>>

\* ... and an empty one is not sent on.
Replayed ==
  /\ client /\ wire # <<>> /\ Head(wire).kind = "history"
  /\ wire' = Tail(wire)
  /\ IF Head(wire).thid \in spoken THEN Restore(Head(wire).thid, Head(wire).cards)
     ELSE UNCHANGED cards
  /\ UNCHANGED <<adapterVars, gatewayVars, walletUp, left, advertised>>

-----------------------------------------------------------------------------
(* Turns, the gateway's work, and the connection.                          *)

\* A turn's run is accepted and takes the slot, which knows of no card yet;
\* what an older run of the thread still tells comes to it.  Bound: turns
\* begin while the agent has a call to make or to finish.
Unfinished(c) ==
  phase[c] = "started" \/ \E i \in 1..Len(wire) : wire[i].kind = "tool" /\ wire[i].call = c

TurnBegins(th) ==
  /\ client /\ walletUp /\ ~stopped
  /\ \E c \in calls : phase[c] \in {"none", "started"}
  /\ running' = running \cup {th} /\ spoken' = spoken \cup {th}
  /\ activeRun' = th
  /\ toolCards' = [c \in Tools |-> IF place[c] = th THEN <<>> ELSE toolCards[c]]
  /\ overtaken' = overtaken \cup {c \in Tools : place[c] = th /\ Unfinished(c)}
  /\ UNCHANGED <<activeThid, client, stopped, watcher, asked,
                 calls, place, phase, output, child, wire, walletVars>>

\* agent.wait meets its deadline or fails: the turn leaves the slot, its run
\* goes on.
TurnGivesUp(th) ==
  /\ activeRun = th
  /\ activeRun' = NoRun
  /\ UNCHANGED <<activeThid, client, stopped, toolCards, watcher, asked, gatewayVars, wire,
                 walletVars>>

\* It is over, its events before it; the turn leaves the slot if it has it.
TurnEnds(th) ==
  /\ th \in running /\ \A i \in 1..Len(wire) : wire[i].thid # th
  /\ \A c \in Calls : place[c] = th => phase[c] # "started"
  /\ running' = running \ {th}
  /\ activeRun' = IF activeRun = th THEN NoRun ELSE activeRun
  /\ UNCHANGED <<activeThid, client, stopped, toolCards, watcher, asked,
                 calls, overtaken, place, phase, output, child, spoken, wire, walletVars>>

CallStarts(c) ==
  /\ c \in calls /\ phase[c] = "none" /\ Len(wire) < MaxWire
  /\ \E th \in running :
       /\ place' = [place EXCEPT ![c] = th]
       /\ Send(ToolEvent(th, c, "start", <<>>, 0))
  /\ phase' = [phase EXCEPT ![c] = "started"]
  /\ UNCHANGED <<adapterVars, running, calls, overtaken, output, child, spoken, walletVars>>

ToolUpdates(c) ==
  /\ phase[c] = "started" /\ output[c] < MaxOutput /\ Len(wire) < MaxWire
  /\ output' = [output EXCEPT ![c] = @ + 1]
  /\ Send(ToolEvent(place[c], c, "update", Chunk(c, output[c] + 1), output[c] + 1))
  /\ UNCHANGED <<adapterVars, running, calls, overtaken, place, phase, child, spoken, walletVars>>

\* The result of a tool that tells snapshots is one more; after deltas it
\* repeats what they told, or a tail of it.
ToolEnds(c) ==
  /\ phase[c] = "started" /\ output[c] > 0 /\ Len(wire) < MaxWire
  /\ phase' = [phase EXCEPT ![c] = "done"]
  /\ \E from \in 1..output[c] :
       /\ c \in Deltas \/ from = 1
       /\ Send(ToolEvent(place[c], c, "result", Part(c, from, output[c]), output[c]))
  /\ UNCHANGED <<adapterVars, running, calls, overtaken, place, output, child, spoken, walletVars>>

SpawnEnds(c) ==
  /\ phase[c] = "started" /\ Len(wire) < MaxWire
  /\ \E verdict \in {"accepted", "rejected"} :
       /\ phase' = [phase EXCEPT ![c] = verdict]
       /\ child' = [child EXCEPT ![c] = IF verdict = "accepted" THEN "running" ELSE @]
       /\ Send(ToolEvent(place[c], c, verdict, <<>>, 0))
  /\ UNCHANGED <<adapterVars, running, calls, overtaken, place, output, spoken, walletVars>>

YieldEnds(c) ==
  /\ phase[c] = "started"
  /\ phase' = [phase EXCEPT ![c] = "done"]
  /\ UNCHANGED <<adapterVars, running, calls, overtaken, place, output, child, spoken, wire,
                 walletVars>>

ChildEnds(c) ==
  /\ child[c] = "running"
  /\ \E how \in {"ok", "error"} : child' = [child EXCEPT ![c] = how]
  /\ UNCHANGED <<adapterVars, running, calls, overtaken, place, phase, output, spoken, wire,
                 walletVars>>

\* The close drops what was on its way and rejects what waits.
Disconnect ==
  /\ client' = FALSE
  /\ wire' = <<>> /\ asked' = {} /\ activeRun' = NoRun
  /\ running' = {} /\ phase' = [c \in Calls |-> IF phase[c] = "started" THEN "done" ELSE phase[c]]
  /\ UNCHANGED <<activeThid, toolCards, watcher, calls, overtaken, place, output, child, spoken,
                 walletVars>>

GatewayCloses == client /\ Disconnect /\ UNCHANGED stopped
GatewayReady ==
  /\ ~client /\ ~stopped /\ client' = TRUE
  /\ UNCHANGED <<activeRun, activeThid, stopped, toolCards, watcher, asked, gatewayVars, wire,
                 walletVars>>
Stop == ~stopped /\ stopped' = TRUE /\ Disconnect

-----------------------------------------------------------------------------
CardsNext ==
  \/ CallEvent \/ Replayed \/ OnConnected \/ OnDisconnected \/ OnConversationClose
  \/ GatewayCloses \/ GatewayReady \/ Stop
  \/ \E th \in Threads :
       OnConversationOpen(th) \/ HistoryAnswered(th) \/ TurnBegins(th) \/ TurnEnds(th)
       \/ TurnGivesUp(th)
  \/ \E c \in Calls : CallStarts(c)
  \/ \E c \in Tools : ToolUpdates(c) \/ ToolEnds(c)
  \/ \E c \in Yields : YieldEnds(c)
  \/ \E c \in Spawns :
       \/ SpawnEnds(c) \/ ChildEnds(c)
       \/ WaitAnswered(c) \/ WaitRejected(c) \/ ResultRead(c)

\* The two deadlines of agent.wait and the timer of chat.history fire.
CardsFairness ==
  \A c \in Spawns :
    /\ WF_cardsVars(WaitAnswered(c) \/ WaitRejected(c))
    /\ WF_cardsVars(ResultRead(c))

CardsSpec == CardsInit /\ [][CardsNext]_cardsVars /\ CardsFairness

-----------------------------------------------------------------------------
(* Properties.                                                             *)

CardsOf(c) == {d \in cards : d.call = c}

CardsTypeOK ==
  /\ activeRun \in Threads \cup {NoRun} /\ activeThid \in Threads
  /\ {client, stopped, walletUp, left} \subseteq BOOLEAN
  /\ toolCards \in [Tools -> Outputs]
  /\ watcher \in [Spawns -> {"none", "waiting", "reading", "over"}]
  /\ asked \subseteq Threads /\ running \subseteq Threads /\ spoken \subseteq Threads
  /\ calls \subseteq Calls /\ overtaken \subseteq Tools
  /\ place \in [Calls -> Threads] /\ phase \in [Calls -> Phases]
  /\ output \in [Tools -> 0..MaxOutput]
  /\ child \in [Spawns -> {"none", "running", "ok", "error"}]
  /\ Len(wire) <= MaxWire /\ advertised \subseteq Threads
  /\ \A d \in cards : /\ d.thid \in Threads /\ d.call \in Calls /\ d.status \in Statuses
                      /\ d.out \in Outputs /\ d.result \in BOOLEAN

\* A call has one card, live and replayed alike, in the thread that made it,
\* whichever thread the wallet is in when it changes (328-339, 917-924).
OneCardPerCall ==
  \A c \in Calls : Cardinality(CardsOf(c)) <= 1 /\ \A d \in CardsOf(c) : d.thid = place[c]

\* Snapshots can always be told from what there was; deltas as long as none
\* repeats the one before it, and the run that has the slot has seen all of
\* them.
Repeats(c) == \E i \in 1..(MaxOutput - 1) : Text[c][i] = Text[c][i + 1]
Followed(c) == c \in Deltas => ~Repeats(c) /\ c \notin overtaken

\* What a card shows of a tool is a beginning of what the tool put out, in
\* order, nothing doubled or dropped, cut at the cap: past snapshots, deltas, a
\* result that repeats them or their tail, events for another run, and replays
\* (341-405).
OutputIsPrefix ==
  \A c \in Tools : Followed(c) =>
    \A d \in CardsOf(c) : \E n \in 0..output[c] : d.out = Truncate(Part(c, 1, n))

\* A result is shown of a task as completed only if its child completed
\* (958-1000).
ResultIsTrue ==
  \A c \in Spawns : \A d \in CardsOf(c) :
    d.status = "completed" /\ d.result => child[c] = "ok"

\* After stop() no card lands (848-853).
NothingAfterStop == [][stopped => cards' = cards]_cardsVars

\* A replay takes no tool card away that it should restore (490-496): what the
\* wallet saw of a tool stays, until the wallet itself is gone.
ToolCardsStay ==
  [][\A c \in Tools : CardsOf(c) # {} => {d \in cards' : d.call = c} # {}]_cardsVars

\* A task that is shown as running is settled, as long as the wallet stays.
TasksSettle ==
  \A c \in Spawns :
    (\E d \in CardsOf(c) : d.status = "running")
      ~> (\A d \in CardsOf(c) : d.status # "running") \/ stopped \/ left

\* mapHistoryMessages (512-515): "the run is long over by the time history is
\* replayed".
CompletedIsOver ==
  \A c \in Spawns : \A d \in CardsOf(c) : d.status = "completed" => child[c] # "running"
=============================================================================
