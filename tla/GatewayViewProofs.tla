-------------------------- MODULE GatewayViewProofs -------------------------
(***************************************************************************)
(* Theorems about what a wallet is shown through the gateway adapter: its  *)
(* turns (GatewayTurns) and then its cards (GatewayCards).  Of turns,      *)
(* Owned says whose words are where, in any behaviour; Calm, in a steady   *)
(* one, follows a run from the gateway to the wallet: one turn at a time,  *)
(* what is recorded, what is on its way, what is shown.                    *)
(***************************************************************************)
EXTENDS GatewayTurns, GatewayCards, FiniteSetTheorems, SequenceTheorems, TLAPS

Runs == [committed : SUBSET Segments, text : Texts, since : Nat]
Events == [kind : {"chat", "message"}, of : Turns, upto : 1..MaxSegments]
Bubbles == [thid : Threads, mid : Mids, segments : SUBSET Segments]

LEMMA InitTypes == Init => TypeOK
<1> SUFFICES ASSUME Init PROVE TypeOK
  OBVIOUS
<1>1. FreshRun \in [committed : SUBSET Segments, text : Texts, since : Nat]
  BY DEF FreshRun, Texts
<1>2. faults \subseteq FaultKinds
  BY ScenariosAssumption DEF Init
<1>3. <<>> \in Seq(Segments) /\ <<>> \in Seq(Events)
  OBVIOUS
<1> QED BY <1>1, <1>2, <1>3, ThreadsAssumption DEF Init, TypeOK, Labels, Jobs, Events

LEMMA TextSegments ==
  ASSUME NEW x \in Texts
  PROVE  SegmentsOf(x) \subseteq Segments /\ \A s \in SegmentsOf(x) : x # NoText /\ s[1] = x.of
  BY SegmentsAssumption DEF Texts, NoText, SegmentsOf, Segments

LEMMA FinalizeTypes ==
  ASSUME TypeOK, NEW th \in Threads, NEW mid \in Mids, NEW segments \in SUBSET Segments,
         Finalize(th, mid, segments)
  PROVE  bubbles' \subseteq Bubbles /\ preview' \subseteq Threads
<1>1. Bubble(th, mid, segments) \in Bubbles
  BY DEF Bubble, Bubbles
<1> QED BY <1>1 DEF TypeOK, Finalize, Bubbles

LEMMA FailureTypes ==
  ASSUME TypeOK, NEW t \in Turns, Failure(t)
  PROVE  bubbles' \subseteq Bubbles /\ preview' \subseteq Threads
<1>1. [turn |-> t] \in Mids /\ thid[t] \in Threads
  BY DEF Mids, TypeOK
<1> QED BY <1>1, FinalizeTypes DEF Failure

LEMMA SaidType ==
  ASSUME NEW u \in Turns, transcript[thid[u]] \in Seq(Segments)
  PROVE  Said(u) \in Nat
<1> DEFINE n == Len(transcript[thid[u]])
           S == {i \in 1..n : transcript[thid[u]][i][1] = u}
<1>1. n \in Nat
  OBVIOUS
<1> HIDE DEF n
<1>2. IsFiniteSet(1..n)
  BY <1>1, FS_Interval
<1>3. IsFiniteSet(S)
  <2>1. S \subseteq 1..n
    OBVIOUS
  <2> HIDE DEF S
  <2> QED BY <1>2, <2>1, FS_Subset
<1>4. Cardinality(S) \in Nat
  BY <1>3, FS_CardinalityType
<1> QED BY <1>4 DEF Said, n

LEMMA StepTypes == TypeOK /\ [Next]_vars => TypeOK'
<1> SUFFICES ASSUME TypeOK, [Next]_vars PROVE TypeOK'
  OBVIOUS
<1>p. /\ faults \subseteq FaultKinds
      /\ pc \in [Turns -> Labels] /\ thid \in [Turns -> Threads] /\ run \in [Turns -> Runs]
      /\ activeRun \in Turns \cup {NoTurn} /\ activeThid \in Threads
      /\ link \in {"none", "connecting", "ready"} /\ subscribed \subseteq Threads
      /\ job \in [Turns -> Jobs] /\ transcript \in [Threads -> Seq(Segments)]
      /\ events \in [Threads -> Seq(Events)] /\ walletUp \in BOOLEAN
      /\ bubbles \subseteq Bubbles /\ preview \subseteq Threads
  BY DEF TypeOK, Runs, Events, Bubbles
<1>g. ASSUME /\ faults' \subseteq FaultKinds
             /\ pc' \in [Turns -> Labels] /\ thid' \in [Turns -> Threads]
                /\ run' \in [Turns -> Runs]
             /\ activeRun' \in Turns \cup {NoTurn} /\ activeThid' \in Threads
             /\ link' \in {"none", "connecting", "ready"} /\ subscribed' \subseteq Threads
             /\ job' \in [Turns -> Jobs] /\ transcript' \in [Threads -> Seq(Segments)]
             /\ events' \in [Threads -> Seq(Events)] /\ walletUp' \in BOOLEAN
             /\ bubbles' \subseteq Bubbles /\ preview' \subseteq Threads
      PROVE  TypeOK'
  BY <1>g DEF TypeOK, Runs, Events, Bubbles
<1>c. ASSUME NEW t, NEW l \in Labels, Goto(t, l) PROVE pc' \in [Turns -> Labels]
  BY <1>c, <1>p DEF Goto
<1>l. Ended \subseteq Labels
      /\ {"ready", "subscribing", "agent", "wait", "grace", "history"} \subseteq Labels
      /\ Ended = {"ignored", "refused", "answered", "failed"}
  BY DEF Labels, Ended
<1>k. {"none", "queued", "running", "ok", "error"} = Jobs
  BY DEF Jobs
<1> USE DEF turnVars, slotVars, gateVars, shownVars
<1>1. ASSUME NEW t \in Turns, Ignored(t) \/ Ready(t) \/ RunDone(t) PROVE TypeOK'
  BY <1>1, <1>p, <1>g, <1>c, <1>l DEF Ignored, Ready, RunDone
<1>2. ASSUME NEW t \in Turns, Inbound(t) PROVE TypeOK'
  <2>1. PICK explicit \in Threads \cup {"none"} :
          LET th == Target(explicit)
          IN  /\ thid' = [thid EXCEPT ![t] = th]
              /\ IF link = "none"
                 THEN Goto(t, "refused") /\ Discard(th)
                 ELSE Goto(t, "ready") /\ Preview(th) /\ UNCHANGED bubbles
    BY <1>2 DEF Inbound
  <2>2. Target(explicit) \in Threads
    BY <1>p DEF Target
  <2>3. pc' \in [Turns -> Labels]
    BY <2>1, <1>c, <1>l
  <2>4. bubbles' \subseteq Bubbles /\ preview' \subseteq Threads /\ thid' \in [Turns -> Threads]
    BY <2>1, <2>2, <1>p DEF Discard, Preview
  <2> QED BY <1>2, <2>3, <2>4, <1>p, <1>g DEF Inbound
<1>3. ASSUME NEW t \in Turns, CallAgent(t) PROVE TypeOK'
  <2>1. PICK since \in Nat : Start(t, since)
    <3>1. Len(transcript[thid[t]]) \in Nat
      BY <1>p
    <3> QED BY <1>3, <3>1 DEF CallAgent
  <2>2. run' \in [Turns -> Runs]
    BY <2>1, <1>p DEF Start, Runs
  <2>3. subscribed' \subseteq Threads
    BY <1>3, <1>p DEF CallAgent
  <2> QED BY <1>3, <2>2, <2>3, <1>p, <1>g, <1>c, <1>l DEF CallAgent
<1>4. ASSUME NEW t \in Turns, AgentAnswers(t) PROVE TypeOK'
  BY <1>4, <1>p, <1>g, <1>c, <1>l, <1>k DEF AgentAnswers
<1>5. ASSUME NEW t \in Turns, AgentFails(t) PROVE TypeOK'
  <2>1. job' \in [Turns -> Jobs]
    BY <1>5, <1>p, <1>k DEF AgentFails
  <2>2. activeRun' \in Turns \cup {NoTurn}
    BY <1>5, <1>p DEF AgentFails, Detach
  <2> QED BY <1>5, <2>1, <2>2, FailureTypes, <1>p, <1>g, <1>c, <1>l DEF AgentFails
<1>6. ASSUME NEW t \in Turns, RunFails(t) PROVE TypeOK'
  <2>2. activeRun' \in Turns \cup {NoTurn}
    BY <1>6, <1>p DEF RunFails, Detach
  <2> QED BY <1>6, <2>2, FailureTypes, <1>p, <1>g, <1>c, <1>l DEF RunFails
<1>7. ASSUME NEW t \in Turns, GraceElapses(t) PROVE TypeOK'
  <2>1. activeRun' \in Turns \cup {NoTurn}
    BY <1>7, <1>p DEF GraceElapses, Detach
  <2>2. FinalizeRun(t)
    BY <1>7 DEF GraceElapses
  <2>3. run[t].text \in Texts /\ thid[t] \in Threads /\ [turn |-> t] \in Mids
    BY <1>p DEF Runs, Mids
  <2>4. SegmentsOf(run[t].text) \in SUBSET Segments
    BY <2>3, TextSegments
  <2>5. pc' \in [Turns -> Labels]
    BY <2>2, <1>c, <1>l DEF FinalizeRun
  <2>6. bubbles' \subseteq Bubbles /\ preview' \subseteq Threads
    BY <2>2, <2>3, <2>4, FinalizeTypes, <1>p DEF FinalizeRun, Discard
  <2> QED BY <1>7, <2>1, <2>5, <2>6, <1>p, <1>g DEF GraceElapses
<1>8. ASSUME NEW t \in Turns, HistoryReply(t) PROVE TypeOK'
  <2> DEFINE said == transcript[thid[t]]
  <2>1. said \in Seq(Segments) /\ thid[t] \in Threads /\ [turn |-> t] \in Mids
        /\ run[t].since \in Nat
    BY <1>p DEF Mids, Runs
  <2>2. bubbles' \subseteq Bubbles /\ preview' \subseteq Threads
    <3>1. CASE Len(said) > run[t].since
      <4>1. said[Len(said)] \in Segments
        BY <2>1, <3>1
      <4>2. {said[Len(said)]} \in SUBSET Segments
        BY <4>1
      <4> QED BY <1>8, <3>1, <4>2, <2>1, FinalizeTypes DEF HistoryReply
    <3>2. CASE ~(Len(said) > run[t].since)
      BY <1>8, <3>2, <1>p DEF HistoryReply, Discard
    <3> QED BY <3>1, <3>2
  <2> QED BY <1>8, <2>2, <1>p, <1>g, <1>c, <1>l DEF HistoryReply
<1>9. ASSUME NEW t \in Turns, HistoryFails(t) PROVE TypeOK'
  BY <1>9, <1>p, <1>g, <1>c, <1>l DEF HistoryFails, Discard
<1>10. ASSUME NEW th \in Threads, Event(th) PROVE TypeOK'
  <2> DEFINE e == Head(events[th])
             a == activeRun
  <2>1. events[th] \in Seq(Events) /\ events[th] # <<>>
    BY <1>10, <1>p DEF Event
  <2>2. e \in Events /\ Tail(events[th]) \in Seq(Events)
    BY <2>1
  <2>3. events' \in [Threads -> Seq(Events)]
    BY <1>10, <2>2, <1>p DEF Event
  <2>4. run' \in [Turns -> Runs] /\ bubbles' \subseteq Bubbles /\ preview' \subseteq Threads
    <3>1. CASE UNCHANGED <<run, shownVars>>
      BY <3>1, <1>p
    <3>2. CASE a # NoTurn /\ e.kind = "chat" /\ Typing(a, [of |-> e.of, upto |-> e.upto])
      <4>1. [of |-> e.of, upto |-> e.upto] \in Texts
        BY <2>2 DEF Events, Texts
      <4> HIDE DEF e
      <4>2. run' \in [Turns -> Runs]
        BY <3>2, <4>1, <1>p DEF Typing, Runs
      <4>3. thid[a] \in Threads
        BY <3>2, <1>p
      <4>4. bubbles' \subseteq Bubbles /\ preview' \subseteq Threads
        BY <3>2, <4>3, <1>p DEF Typing, Preview
      <4> QED BY <4>2, <4>4
    <3>3. CASE a # NoTurn /\ e.kind = "message" /\ CommitSegment(a, <<e.of, e.upto>>)
      <4> DEFINE s == <<e.of, e.upto>>
      <4>1. s \in Segments /\ a \in Turns /\ thid[a] \in Threads
        BY <2>2, <3>3, <1>p DEF Events, Segments
      <4>2. CommitSegment(a, s)
        BY <3>3
      <4> HIDE DEF s
      <4>3. CASE s \in run[a].committed
        BY <4>2, <4>3, <1>p DEF CommitSegment
      <4>4. CASE s \notin run[a].committed
        <5>1. run' = [run EXCEPT ![a].committed = @ \cup {s}]
              /\ Finalize(thid[a], [message |-> s], {s})
          BY <4>2, <4>4 DEF CommitSegment
        <5>2. [message |-> s] \in Mids /\ {s} \in SUBSET Segments
          BY <4>1 DEF Mids
        <5>3. run[a].committed \cup {s} \in SUBSET Segments
          BY <4>1, <1>p DEF Runs
        <5>4. run' \in [Turns -> Runs]
          BY <5>1, <5>3, <1>p DEF Runs
        <5> QED BY <5>1, <5>2, <5>4, <4>1, FinalizeTypes
      <4> QED BY <4>3, <4>4
    <3> QED BY <1>10, <3>1, <3>2, <3>3 DEF Event
  <2> QED BY <1>10, <2>3, <2>4, <1>p, <1>g DEF Event
<1>11. ASSUME NEW u \in Turns, RunStarts(u) \/ RunEnds(u) PROVE TypeOK'
  BY <1>11, <1>p, <1>g, <1>k DEF RunStarts, RunEnds
<1>12. ASSUME NEW u \in Turns, RunSays(u) PROVE TypeOK'
  <2> DEFINE k == Said(u) + 1
             th == thid[u]
             chat == IF "mute" \in faults THEN <<>> ELSE <<[kind |-> "chat", of |-> u, upto |-> k]>>
             message == IF thid[u] \notin subscribed THEN <<>>
                        ELSE <<[kind |-> "message", of |-> u, upto |-> k]>>
  <2>1. th \in Threads /\ k \in 1..MaxSegments
    <3>1. Said(u) \in Nat
      BY <1>p, SaidType
    <3> QED BY <1>12, <3>1, <1>p, SegmentsAssumption DEF RunSays
  <2> HIDE DEF k
  <2>2. Append(transcript[th], <<u, k>>) \in Seq(Segments)
    BY <2>1, <1>p DEF Segments
  <2>3. chat \in Seq(Events) /\ message \in Seq(Events)
    <3>1. \A kind \in {"chat", "message"} : [kind |-> kind, of |-> u, upto |-> k] \in Events
      BY <2>1 DEF Events
    <3>2. \A e \in Events : <<e>> \in Seq(Events)
      OBVIOUS
    <3> QED BY <3>1, <3>2
  <2>4. (events[th] \o chat) \o message \in Seq(Events)
    BY <2>1, <2>3, <1>p
  <2>5. /\ transcript' = [transcript EXCEPT ![th] = Append(@, <<u, k>>)]
        /\ events' = IF link # "ready" THEN events
                     ELSE [events EXCEPT ![th] = (@ \o chat) \o message]
    BY <1>12 DEF RunSays, k
  <2> HIDE DEF chat, message, th
  <2>6. transcript' \in [Threads -> Seq(Segments)] /\ events' \in [Threads -> Seq(Events)]
    BY <2>2, <2>4, <2>5, <1>p
  <2> QED BY <1>12, <2>6, <1>p, <1>g DEF RunSays
<1>13. CASE LinkReady
  BY <1>13, <1>p, <1>g DEF LinkReady
<1>14. CASE LinkCloses
  <2>1. pc' \in [Turns -> Labels]
    <3>1. ASSUME NEW t \in Turns PROVE pc'[t] \in Labels
      BY <1>14, <1>p, <1>l DEF LinkCloses
    <3> QED BY <3>1, <1>14 DEF LinkCloses
  <2>2. bubbles' \subseteq Bubbles
    <3>1. \A t \in Turns : Bubble(thid[t], [turn |-> t], {}) \in Bubbles
      BY <1>p DEF Bubble, Bubbles, Mids
    <3> QED BY <1>14, <3>1, <1>p DEF LinkCloses
  <2>3. preview' \subseteq Threads /\ events' \in [Threads -> Seq(Events)]
        /\ faults' \subseteq FaultKinds
    BY <1>14, <1>p DEF LinkCloses, FaultKinds
  <2> QED BY <1>14, <2>1, <2>2, <2>3, <1>p, <1>g DEF LinkCloses
<1>15. CASE WalletDisconnects
  <2>1. faults' \subseteq FaultKinds
    BY <1>15, <1>p DEF WalletDisconnects, FaultKinds
  <2> QED BY <1>15, <2>1, <1>p, <1>g, ThreadsAssumption DEF WalletDisconnects
<1>16. CASE WalletConnects \/ ClosesThread
  BY <1>16, <1>p, <1>g, ThreadsAssumption DEF WalletConnects, ClosesThread
<1>17. ASSUME NEW th \in Threads, OpensThread(th) PROVE TypeOK'
  BY <1>17, <1>p, <1>g DEF OpensThread
<1>18. CASE UNCHANGED vars
  BY <1>18, <1>p, <1>g DEF vars
<1> QED
  BY <1>1, <1>2, <1>3, <1>4, <1>5, <1>6, <1>7, <1>8, <1>9, <1>10, <1>11, <1>12, <1>13,
     <1>14, <1>15, <1>16, <1>17, <1>18 DEF Next, TurnStep, GatewayStep

\* The type invariant.
THEOREM TypeCorrect == Spec => []TypeOK
  BY InitTypes, StepTypes, PTL DEF Spec

-----------------------------------------------------------------------------
(* Nothing a run says leaves the thread of its turn.                       *)

\* The turns of a thread.  A turn has its thread from the moment it starts.
Of(th) == {t \in Turns : pc[t] # "new" /\ thid[t] = th}

LEMMA TurnStays ==
  ASSUME TypeOK, [Next]_vars, NEW t \in Turns, pc[t] # "new"
  PROVE  pc'[t] # "new" /\ thid'[t] = thid[t]
<1>1. pc \in [Turns -> Labels] /\ thid \in [Turns -> Threads]
  BY DEF TypeOK
<1>2. ASSUME NEW u \in Turns, NEW l, l # "new", Goto(u, l) PROVE pc'[t] # "new"
  BY <1>1, <1>2 DEF Goto
<1>3. ASSUME NEW u \in Turns, TurnStep(u) PROVE pc'[t] # "new" /\ thid'[t] = thid[t]
  <2>1. CASE Inbound(u)
    BY <2>1, <1>1, <1>2 DEF Inbound
  <2>2. CASE GraceElapses(u)
    BY <2>2, <1>2 DEF GraceElapses, FinalizeRun
  <2>3. CASE ~Inbound(u) /\ ~GraceElapses(u)
    BY <2>3, <1>3, <1>2 DEF TurnStep, Ignored, Ready, CallAgent, AgentAnswers, AgentFails, RunDone,
       RunFails, HistoryReply, HistoryFails
  <2> QED BY <2>1, <2>2, <2>3
<1>4. CASE LinkCloses
  BY <1>1, <1>4 DEF LinkCloses
<1>5. ASSUME [\E u \in Turns : GatewayStep(u)]_vars
             \/ (\E th \in Threads : Event(th) \/ OpensThread(th))
             \/ LinkReady \/ WalletDisconnects \/ WalletConnects \/ ClosesThread
      PROVE  UNCHANGED <<pc, thid>>
  BY <1>5 DEF GatewayStep, RunStarts, RunSays, RunEnds, Event, OpensThread, LinkReady,
     WalletDisconnects, WalletConnects, ClosesThread, vars, turnVars
<1> QED BY <1>3, <1>4, <1>5 DEF Next

LEMMA OfGrows ==
  ASSUME TypeOK, [Next]_vars, NEW th
  PROVE  Of(th) \subseteq Of(th)'
  BY TurnStays DEF Of

OwnBubbles == \A b \in bubbles : \A s \in b.segments : s[1] \in Of(b.thid)
OwnTranscript ==
  \A th \in Threads : \A i \in 1..Len(transcript[th]) : transcript[th][i][1] \in Of(th)
OwnEvents == \A th \in Threads : \A i \in 1..Len(events[th]) : events[th][i].of \in Of(th)
OwnText == \A t \in Turns : run[t].text # NoText => run[t].text.of \in Of(thid[t])
NotYet == \A t \in Turns : pc[t] = "new" => run[t].text = NoText /\ job[t] = "none"
OwnSlot == activeRun # NoTurn => pc[activeRun] # "new"
Owned == OwnBubbles /\ OwnTranscript /\ OwnEvents /\ OwnText /\ NotYet /\ OwnSlot

LEMMA OwnsBubbles ==
  ASSUME TypeOK, Owned, [Next]_vars, NEW b, bubbles' \subseteq bubbles \cup {b},
         \A s \in b.segments : s[1] \in Of(b.thid)
  PROVE  OwnBubbles'
<1>1. \A s \in b.segments : s[1] \in Of(b.thid)'
  BY OfGrows
<1>2. ASSUME NEW c \in bubbles PROVE \A s \in c.segments : s[1] \in Of(c.thid)'
  BY OfGrows DEF Owned, OwnBubbles
<1> QED BY <1>1, <1>2 DEF OwnBubbles

LEMMA OwnsFinalized ==
  ASSUME TypeOK, Owned, [Next]_vars, NEW th, NEW mid, NEW segments, Finalize(th, mid, segments),
         \A s \in segments : s[1] \in Of(th)
  PROVE  OwnBubbles'
<1> DEFINE b == Bubble(th, mid, segments)
<1>1. b.thid = th /\ b.segments = segments
  BY DEF Bubble
<1>2. bubbles' \subseteq bubbles \cup {b}
  BY DEF Finalize
<1> HIDE DEF b
<1> QED BY <1>1, <1>2, OwnsBubbles

LEMMA OwnsTranscript ==
  ASSUME TypeOK, Owned, [Next]_vars, UNCHANGED transcript
  PROVE  OwnTranscript'
  BY OfGrows DEF Owned, OwnTranscript

LEMMA OwnsEvents ==
  ASSUME TypeOK, Owned, [Next]_vars, UNCHANGED events
  PROVE  OwnEvents'
  BY OfGrows DEF Owned, OwnEvents

LEMMA OwnsText ==
  ASSUME TypeOK, Owned, [Next]_vars, \A t \in Turns : run'[t].text = run[t].text
  PROVE  OwnText'
<1> SUFFICES ASSUME NEW t \in Turns, run'[t].text # NoText PROVE run'[t].text.of \in Of(thid[t])'
  BY DEF OwnText
<1>1. pc[t] # "new" /\ run[t].text.of \in Of(thid[t])
  BY DEF Owned, OwnText, NotYet
<1> QED BY <1>1, TurnStays DEF Of

LEMMA NotYetStays ==
  ASSUME TypeOK, Owned, [Next]_vars, UNCHANGED job, \A t \in Turns : run'[t].text = run[t].text
  PROVE  NotYet'
  BY TurnStays DEF Owned, NotYet

LEMMA OwnsSlot ==
  ASSUME TypeOK, Owned, [Next]_vars, activeRun' \in {activeRun, NoTurn}
  PROVE  OwnSlot'
  BY TurnStays DEF Owned, OwnSlot, TypeOK

LEMMA InitOwned == Init => Owned
  BY ThreadsAssumption DEF Init, Owned, OwnBubbles, OwnTranscript, OwnEvents, OwnText, NotYet,
     OwnSlot, FreshRun

LEMMA StepOwned == TypeOK /\ Owned /\ [Next]_vars => Owned'
<1> SUFFICES ASSUME TypeOK, Owned, [Next]_vars PROVE Owned'
  OBVIOUS
<1>p. /\ pc \in [Turns -> Labels] /\ thid \in [Turns -> Threads] /\ run \in [Turns -> Runs]
      /\ activeRun \in Turns \cup {NoTurn}
      /\ job \in [Turns -> Jobs] /\ transcript \in [Threads -> Seq(Segments)]
      /\ events \in [Threads -> Seq(Events)]
  BY DEF TypeOK, Runs, Events
<1> USE DEF turnVars, slotVars, gateVars, shownVars
<1>1. ASSUME UNCHANGED <<run, bubbles, gateVars>>, activeRun' \in {activeRun, NoTurn} PROVE Owned'
  <2>1. OwnBubbles'
    BY <1>1, OfGrows DEF Owned, OwnBubbles
  <2> QED BY <1>1, <2>1, OwnsTranscript, OwnsEvents, OwnsText, NotYetStays, OwnsSlot DEF Owned
<1>2. ASSUME NEW t \in Turns, Ignored(t) \/ Inbound(t) \/ Ready(t) \/ RunDone(t) \/ HistoryFails(t)
      PROVE  Owned'
  BY <1>1, <1>2 DEF Ignored, Inbound, Ready, RunDone, HistoryFails, Discard
<1>3. ASSUME NEW t \in Turns, CallAgent(t) PROVE Owned'
  <2>1. \A u \in Turns : run'[u].text = run[u].text
    BY <1>3, <1>p DEF CallAgent, Start, Runs
  <2>2. UNCHANGED <<bubbles, activeRun, job, transcript, events>>
    BY <1>3 DEF CallAgent
  <2>3. OwnBubbles'
    BY <2>2, OfGrows DEF Owned, OwnBubbles
  <2> QED BY <2>1, <2>2, <2>3, OwnsTranscript, OwnsEvents, OwnsText, NotYetStays, OwnsSlot DEF Owned
<1>4. ASSUME NEW t \in Turns, AgentAnswers(t) PROVE Owned'
  <2>1. UNCHANGED <<run, bubbles, transcript, events>> /\ pc[t] = "agent"
    BY <1>4 DEF AgentAnswers
  <2>2. OwnBubbles'
    BY <2>1, OfGrows DEF Owned, OwnBubbles
  <2>3. NotYet' /\ OwnSlot'
    BY <1>4, <2>1, <1>p, TurnStays DEF Owned, NotYet, OwnSlot, AgentAnswers
  <2> QED BY <2>1, <2>2, <2>3, OwnsTranscript, OwnsEvents, OwnsText DEF Owned
<1>5. ASSUME NEW t \in Turns, Failure(t), UNCHANGED run PROVE OwnBubbles'
  BY <1>5, OwnsFinalized DEF Failure
<1>6. ASSUME NEW t \in Turns, AgentFails(t) PROVE Owned'
  <2>1. UNCHANGED <<run, transcript, events>> /\ pc[t] = "agent" /\ Failure(t)
        /\ activeRun' \in {activeRun, NoTurn}
    BY <1>6 DEF AgentFails, Detach
  <2>2. NotYet'
    BY <1>6, <2>1, <1>p, TurnStays DEF Owned, NotYet, AgentFails
  <2> QED BY <2>1, <2>2, <1>5, OwnsTranscript, OwnsEvents, OwnsText, OwnsSlot DEF Owned
<1>7. ASSUME NEW t \in Turns, RunFails(t) PROVE Owned'
  <2>1. UNCHANGED <<run, job, transcript, events>> /\ Failure(t)
        /\ activeRun' \in {activeRun, NoTurn}
    BY <1>7 DEF RunFails, Detach
  <2> QED BY <2>1, <1>5, OwnsTranscript, OwnsEvents, OwnsText, NotYetStays, OwnsSlot DEF Owned
<1>8. ASSUME NEW t \in Turns, GraceElapses(t) PROVE Owned'
  <2>1. UNCHANGED <<run, job, transcript, events>> /\ activeRun' \in {activeRun, NoTurn}
    BY <1>8 DEF GraceElapses, Detach
  <2>2. OwnBubbles'
    <3>1. CASE UNCHANGED bubbles
      BY <3>1, OfGrows DEF Owned, OwnBubbles
    <3>2. CASE run[t].text # NoText /\ Finalize(thid[t], [turn |-> t], SegmentsOf(run[t].text))
      <4>1. \A s \in SegmentsOf(run[t].text) : s[1] = run[t].text.of
        BY <1>p, TextSegments DEF Runs
      <4>2. run[t].text.of \in Of(thid[t])
        BY <3>2 DEF Owned, OwnText
      <4> QED BY <3>2, <4>1, <4>2, OwnsFinalized
    <3> QED BY <1>8, <3>1, <3>2 DEF GraceElapses, FinalizeRun, Discard
  <2> QED BY <2>1, <2>2, OwnsTranscript, OwnsEvents, OwnsText, NotYetStays, OwnsSlot DEF Owned
<1>9. ASSUME NEW t \in Turns, HistoryReply(t) PROVE Owned'
  <2> DEFINE said == transcript[thid[t]]
  <2>1. UNCHANGED <<run, job, transcript, events, activeRun>>
    BY <1>9 DEF HistoryReply
  <2>2. OwnBubbles'
    <3>1. CASE UNCHANGED bubbles
      BY <3>1, OfGrows DEF Owned, OwnBubbles
    <3>2. CASE Len(said) > run[t].since /\ Finalize(thid[t], [turn |-> t], {said[Len(said)]})
      <4>1. Len(said) \in 1..Len(said) /\ thid[t] \in Threads
        BY <3>2, <1>p DEF Runs
      <4>2. said[Len(said)][1] \in Of(thid[t])
        BY <4>1 DEF Owned, OwnTranscript
      <4> QED BY <3>2, <4>2, OwnsFinalized
    <3> QED BY <1>9, <3>1, <3>2 DEF HistoryReply, Discard
  <2> QED BY <2>1, <2>2, OwnsTranscript, OwnsEvents, OwnsText, NotYetStays, OwnsSlot DEF Owned
<1>10. ASSUME NEW th \in Threads, Event(th) PROVE Owned'
  <2> DEFINE e == Head(events[th])
             a == activeRun
  <2>1. UNCHANGED <<pc, thid, job, transcript, activeRun>> /\ events[th] # <<>>
        /\ events' = [events EXCEPT ![th] = Tail(@)]
    BY <1>10 DEF Event
  <2>2. e \in Events /\ e = events[th][1] /\ 1 \in 1..Len(events[th])
    BY <2>1, <1>p
  <2>3. e.of \in Of(th)
    BY <2>2 DEF Owned, OwnEvents
  <2>4. OwnEvents'
    <3> SUFFICES ASSUME NEW x \in Threads, NEW i \in 1..Len(events'[x])
                 PROVE  events'[x][i].of \in Of(x)'
      BY DEF OwnEvents
    <3>1. CASE x = th
      <4>1. i + 1 \in 1..Len(events[th]) /\ events'[x][i] = events[th][i + 1]
        BY <3>1, <2>1, <1>p
      <4> QED BY <4>1, <3>1, OfGrows DEF Owned, OwnEvents
    <3>2. CASE x # th
      BY <3>2, <2>1, <1>p, OfGrows DEF Owned, OwnEvents
    <3> QED BY <3>1, <3>2
  <2>5. OwnBubbles' /\ OwnText' /\ NotYet'
    <3>1. CASE UNCHANGED <<run, shownVars>>
      <4>1. OwnBubbles'
        BY <3>1, OfGrows DEF Owned, OwnBubbles
      <4> QED BY <3>1, <4>1, <2>1, OwnsText, NotYetStays
    <3>2. ASSUME a # NoTurn, Matches(e.of, a)
          PROVE  a \in Turns /\ pc[a] # "new" /\ thid[a] \in Threads /\ e.of \in Of(thid[a])
      BY <3>2, <2>3, <1>p DEF Owned, OwnSlot, Matches, Of
    <3>3. CASE a # NoTurn /\ Matches(e.of, a) /\ Typing(a, [of |-> e.of, upto |-> e.upto])
      <4> DEFINE text == [of |-> e.of, upto |-> e.upto]
      <4>1. UNCHANGED bubbles /\ run' = [run EXCEPT ![a].text = text]
        BY <3>3 DEF Typing
      <4>2. text.of \in Of(thid[a])
        BY <3>2, <3>3
      <4> HIDE DEF text, e
      <4>3. \A t \in Turns : run'[t].text = IF t = a THEN text ELSE run[t].text
        BY <4>1, <1>p DEF Runs
      <4>4. OwnText'
        <5> SUFFICES ASSUME NEW t \in Turns, run'[t].text # NoText
                     PROVE  run'[t].text.of \in Of(thid[t])'
          BY <2>1 DEF OwnText
        <5>1. (IF t = a THEN text ELSE run[t].text).of \in Of(thid[t])
          BY <4>2, <4>3 DEF Owned, OwnText
        <5> QED BY <4>3, <5>1, <2>1 DEF Of
      <4>5. NotYet'
        BY <4>3, <3>2, <3>3, <2>1 DEF Owned, NotYet
      <4>6. OwnBubbles'
        BY <4>1, OfGrows DEF Owned, OwnBubbles
      <4> QED BY <4>4, <4>5, <4>6
    <3>4. CASE a # NoTurn /\ Matches(e.of, a) /\ CommitSegment(a, <<e.of, e.upto>>)
      <4> DEFINE s == <<e.of, e.upto>>
      <4>1. CASE s \in run[a].committed
        BY <3>1, <3>4, <4>1 DEF CommitSegment
      <4>2. CASE s \notin run[a].committed
        <5>1. run' = [run EXCEPT ![a].committed = @ \cup {s}]
              /\ Finalize(thid[a], [message |-> s], {s})
          BY <3>4, <4>2 DEF CommitSegment
        <5>2. s[1] \in Of(thid[a])
          BY <3>2, <3>4
        <5> HIDE DEF s, e
        <5>3. \A t \in Turns : run'[t].text = run[t].text
          BY <5>1, <1>p DEF Runs
        <5>4. OwnBubbles'
          BY <5>1, <5>2, OwnsFinalized
        <5> QED BY <5>3, <5>4, <2>1, OwnsText, NotYetStays
      <4> QED BY <4>1, <4>2
    <3> QED BY <1>10, <3>1, <3>3, <3>4 DEF Event
  <2> QED BY <2>1, <2>4, <2>5, OwnsTranscript, OwnsSlot DEF Owned
<1>11. ASSUME NEW u \in Turns, RunStarts(u) \/ RunEnds(u) PROVE Owned'
  <2>1. UNCHANGED <<pc, run, bubbles, transcript, events, activeRun>> /\ job[u] # "none"
    BY <1>11 DEF RunStarts, RunEnds
  <2>2. OwnBubbles'
    BY <2>1, OfGrows DEF Owned, OwnBubbles
  <2>3. NotYet'
    BY <1>11, <2>1, <1>p DEF Owned, NotYet, RunStarts, RunEnds
  <2> QED BY <2>1, <2>2, <2>3, OwnsTranscript, OwnsEvents, OwnsText, OwnsSlot DEF Owned
<1>12. ASSUME NEW u \in Turns, RunSays(u) PROVE Owned'
  <2> DEFINE k == Said(u) + 1
             th == thid[u]
             chat == IF "mute" \in faults THEN <<>> ELSE <<[kind |-> "chat", of |-> u, upto |-> k]>>
             message == IF thid[u] \notin subscribed THEN <<>>
                        ELSE <<[kind |-> "message", of |-> u, upto |-> k]>>
  <2>1. UNCHANGED <<run, job, bubbles, activeRun>>
        /\ transcript' = [transcript EXCEPT ![th] = Append(@, <<u, k>>)]
        /\ events' = IF link # "ready" THEN events
                     ELSE [events EXCEPT ![th] = (@ \o chat) \o message]
    BY <1>12 DEF RunSays
  <2>2. th \in Threads /\ u \in Of(th) /\ u \in Of(th)'
    BY <1>12, <1>p, OfGrows DEF RunSays, Owned, NotYet, Of
  <2>3. OwnTranscript'
    <3> SUFFICES ASSUME NEW x \in Threads, NEW i \in 1..Len(transcript'[x])
                 PROVE  transcript'[x][i][1] \in Of(x)'
      BY DEF OwnTranscript
    <3> HIDE DEF k, th, chat, message
    <3>1. CASE x = th /\ i = Len(transcript[th]) + 1
      <4>1. transcript'[x][i] = <<u, k>>
        BY <3>1, <2>1, <2>2, <1>p
      <4>2. u \in Of(x)'
        BY <3>1, <2>2, OfGrows
      <4> QED BY <4>1, <4>2
    <3>2. CASE ~(x = th /\ i = Len(transcript[th]) + 1)
      <4>1. i \in 1..Len(transcript[x]) /\ transcript'[x][i] = transcript[x][i]
        BY <3>2, <2>1, <2>2, <1>p
      <4> QED BY <4>1, OfGrows DEF Owned, OwnTranscript
    <3> QED BY <3>1, <3>2
  <2>4. OwnEvents'
    <3>1. CASE link # "ready"
      BY <3>1, <2>1, OwnsEvents
    <3>2. CASE link = "ready"
      <4> DEFINE ByRun == [kind : {"chat", "message"}, of : Turns, upto : {k}]
      <4>1. chat \in Seq(ByRun) /\ message \in Seq(ByRun)
        <5>1. \A kind \in {"chat", "message"} : [kind |-> kind, of |-> u, upto |-> k] \in ByRun
          OBVIOUS
        <5>2. <<>> \in Seq(ByRun) /\ \A e \in ByRun : <<e>> \in Seq(ByRun)
          OBVIOUS
        <5> HIDE DEF ByRun
        <5> QED BY <5>1, <5>2
      <4>2. (\A i \in 1..Len(chat) : chat[i].of = u)
            /\ (\A i \in 1..Len(message) : message[i].of = u)
        OBVIOUS
      <4>3. events' = [events EXCEPT ![th] = (@ \o chat) \o message]
        BY <2>1, <3>2
      <4> HIDE DEF ByRun, chat, message, th, k
      <4> SUFFICES ASSUME NEW x \in Threads, NEW i \in 1..Len(events'[x])
                   PROVE  events'[x][i].of \in Of(x)'
        BY DEF OwnEvents
      <4>4. CASE x = th
        <5>1. events'[x] = (events[x] \o chat) \o message /\ events[x] \in Seq(Events)
          BY <4>3, <4>4, <1>p
        <5>2. \/ i \in 1..Len(events[x]) /\ events'[x][i] = events[x][i]
              \/ \E j \in 1..Len(chat) : events'[x][i] = chat[j]
              \/ \E j \in 1..Len(message) : events'[x][i] = message[j]
          <6> DEFINE All == Events \cup ByRun
                     old == events[x]
                     new == events'[x]
          <6>1. old \in Seq(All) /\ chat \in Seq(All) /\ message \in Seq(All)
            BY <5>1, <4>1
          <6>2. new = (old \o chat) \o message /\ i \in 1..Len(new)
            BY <5>1
          <6> HIDE DEF All, old, new
          <6>3. \/ i \in 1..Len(old) /\ new[i] = old[i]
                \/ \E j \in 1..Len(chat) : new[i] = chat[j]
                \/ \E j \in 1..Len(message) : new[i] = message[j]
            <7>1. \A n \in 1..Len((old \o chat) \o message) :
                    \/ n \in 1..Len(old) /\ ((old \o chat) \o message)[n] = old[n]
                    \/ \E j \in 1..Len(chat) : ((old \o chat) \o message)[n] = chat[j]
                    \/ \E j \in 1..Len(message) : ((old \o chat) \o message)[n] = message[j]
              <8> DEFINE front == old \o chat
              <8>1. front \in Seq(All) /\ Len(front) = Len(old) + Len(chat)
                BY <6>1
              <8>2. \A n \in 1..Len(front) :
                      \/ n \in 1..Len(old) /\ front[n] = old[n]
                      \/ \E j \in 1..Len(chat) : front[n] = chat[j]
                <9>1. \A n \in 1..Len(front) : n > Len(old) =>
                        n - Len(old) \in 1..Len(chat) /\ front[n] = chat[n - Len(old)]
                  BY <6>1
                <9>2. \A n \in 1..Len(front) : n <= Len(old) =>
                        n \in 1..Len(old) /\ front[n] = old[n]
                  BY <6>1
                <9> QED BY <6>1, <8>1, <9>1, <9>2
              <8>3. \A n \in 1..Len(front \o message) :
                      \/ n \in 1..Len(front) /\ (front \o message)[n] = front[n]
                      \/ \E j \in 1..Len(message) : (front \o message)[n] = message[j]
                <9> HIDE DEF front
                <9>1. \A n \in 1..Len(front \o message) : n > Len(front) =>
                        /\ n - Len(front) \in 1..Len(message)
                        /\ (front \o message)[n] = message[n - Len(front)]
                  BY <6>1, <8>1
                <9>2. \A n \in 1..Len(front \o message) : n <= Len(front) =>
                        n \in 1..Len(front) /\ (front \o message)[n] = front[n]
                  BY <6>1, <8>1
                <9> QED BY <6>1, <8>1, <9>1, <9>2
              <8> QED BY <8>2, <8>3, Zenon
            <7> QED BY <7>1, <6>2, Zenon
          <6> QED BY <6>3 DEF old, new
        <5>3. CASE i \in 1..Len(events[x]) /\ events'[x][i] = events[x][i]
          BY <5>3, OfGrows DEF Owned, OwnEvents
        <5>4. CASE events'[x][i].of = u
          <6>1. u \in Of(x)'
            BY <4>4, <2>2, OfGrows
          <6> QED BY <5>4, <6>1
        <5> QED BY <5>2, <5>3, <5>4, <4>2
      <4>5. CASE x # th
        BY <4>5, <4>3, <1>p, OfGrows DEF Owned, OwnEvents
      <4> QED BY <4>4, <4>5
    <3> QED BY <3>1, <3>2
  <2>5. OwnBubbles'
    BY <2>1, OfGrows DEF Owned, OwnBubbles
  <2> QED BY <2>1, <2>3, <2>4, <2>5, OwnsText, NotYetStays, OwnsSlot DEF Owned
<1>13. CASE LinkReady \/ WalletDisconnects \/ WalletConnects \/ ClosesThread \/ UNCHANGED vars
  BY <1>13, <1>1 DEF LinkReady, WalletDisconnects, WalletConnects, ClosesThread, vars
<1>14. ASSUME NEW th \in Threads, OpensThread(th) PROVE Owned'
  BY <1>14, <1>1 DEF OpensThread
<1>15. CASE LinkCloses
  <2>1. UNCHANGED <<run, job, transcript>> /\ activeRun' \in {activeRun, NoTurn}
    BY <1>15 DEF LinkCloses
  <2>2. OwnEvents'
    BY <1>15 DEF LinkCloses, OwnEvents
  <2>3. OwnBubbles'
    <3>1. ASSUME NEW b \in bubbles' PROVE b \in bubbles \/ b.segments = {}
      BY <1>15, <3>1 DEF LinkCloses, Bubble
    <3> QED BY <3>1, OfGrows DEF Owned, OwnBubbles
  <2> QED BY <2>1, <2>2, <2>3, OwnsTranscript, OwnsText, NotYetStays, OwnsSlot DEF Owned
<1> QED
  BY <1>2, <1>3, <1>4, <1>6, <1>7, <1>8, <1>9, <1>10, <1>11, <1>12, <1>13, <1>14, <1>15
     DEF Next, TurnStep, GatewayStep

\* Whatever overlaps, fails or comes late, what a run said is shown in the
\* thread that asked.
THEOREM RightThreadHolds == Spec => []RightThread
<1>1. Owned => RightThread
  BY DEF Owned, OwnBubbles, RightThread, Of
<1>2. TypeOK /\ Owned /\ [Next]_vars => (TypeOK /\ Owned)'
  BY StepTypes, StepOwned
<1> QED BY <1>1, <1>2, InitTypes, InitOwned, PTL DEF Spec

-----------------------------------------------------------------------------
(* The slot and the previews, in any behaviour.                            *)

\* The slot is of a turn that waits for its run or for the last of its words,
\* and a preview that is on has a turn that is under way.
SlotWaits == activeRun # NoTurn => pc[activeRun] \in {"wait", "grace"}
Held == SlotWaits /\ NoStuckPreview

LEMMA InitHeld == Init => Held
  BY DEF Init, Held, SlotWaits, NoStuckPreview

\* A turn that ends takes its preview along.
LEMMA EndHolds ==
  ASSUME TypeOK, Held, NEW t \in Turns, NEW l \in Ended, Goto(t, l), Detach(t),
         preview' = preview \ {thid[t]}, thid' = thid
  PROVE  Held'
<1>p. pc \in [Turns -> Labels] /\ activeRun \in Turns \cup {NoTurn} /\ NoTurn \notin Turns
  BY NoTurnAssumption DEF TypeOK
<1>1. SlotWaits'
  BY <1>p DEF Held, SlotWaits, Goto, Detach
<1>2. NoStuckPreview'
  <2>1. SUFFICES ASSUME NEW th \in preview' PROVE \E u \in Turns : Underway(u)' /\ thid[u] = th
    BY DEF NoStuckPreview
  <2>2. PICK u \in Turns : Underway(u) /\ thid[u] = th
    BY <2>1 DEF Held, NoStuckPreview
  <2>3. u # t
    BY <2>1, <2>2
  <2> QED BY <1>p, <2>2, <2>3 DEF Goto, Underway
<1> QED BY <1>1, <1>2 DEF Held

\* A turn that goes on is under way still.
LEMMA GoesOnHolds ==
  ASSUME TypeOK, Held, NEW t \in Turns, NEW l \in Labels, Goto(t, l), Underway(t),
         Underway(t)', SlotWaits', preview' \subseteq preview, thid' = thid
  PROVE  Held'
<1>p. pc \in [Turns -> Labels]
  BY DEF TypeOK
<1>1. \A u \in Turns : Underway(u) => Underway(u)'
  BY <1>p DEF Goto, Underway
<1> QED BY <1>1 DEF Held, NoStuckPreview

LEMMA StepHeld ==
  ASSUME TypeOK, Held, [Next]_vars
  PROVE  Held'
<1>p. /\ pc \in [Turns -> Labels] /\ activeRun \in Turns \cup {NoTurn} /\ NoTurn \notin Turns
      /\ preview \subseteq Threads /\ thid \in [Turns -> Threads]
  BY NoTurnAssumption DEF TypeOK
<1>h. SlotWaits /\ NoStuckPreview
  BY DEF Held
<1>e. {"ignored", "refused", "answered", "failed"} = Ended
  BY DEF Ended
<1> USE DEF turnVars, slotVars, gateVars, shownVars
<1>1. ASSUME NEW t \in Turns, Ignored(t) PROVE Held'
  <2>1. \A u \in Turns : Underway(u) => Underway(u)'
    BY <1>p, <1>1 DEF Ignored, Goto, Underway
  <2>2. SlotWaits'
    BY <1>p, <1>h, <1>1 DEF Ignored, Goto, SlotWaits
  <2> QED BY <1>h, <1>1, <2>1, <2>2 DEF Ignored, Held, NoStuckPreview
<1>2. ASSUME NEW t \in Turns, Inbound(t) PROVE Held'
  <2>1. SlotWaits'
    BY <1>p, <1>h, <1>2 DEF Inbound, Goto, SlotWaits
  <2>2. PICK th : /\ thid' = [thid EXCEPT ![t] = th] /\ pc[t] = "new"
                  /\ \/ Goto(t, "refused") /\ preview' = preview \ {th}
                     \/ Goto(t, "ready") /\ preview' \subseteq preview \cup {th}
    BY <1>2 DEF Inbound, Discard, Preview
  <2>3. \A u \in Turns : Underway(u) => Underway(u)' /\ thid'[u] = thid[u]
    BY <1>p, <2>2 DEF Goto, Underway
  <2>4. Goto(t, "ready") => Underway(t)' /\ thid'[t] = th
    BY <1>p, <2>2 DEF Goto, Underway, Ended
  <2>5. NoStuckPreview'
    BY <1>h, <2>2, <2>3, <2>4 DEF NoStuckPreview
  <2> QED BY <2>1, <2>5 DEF Held
<1>3. ASSUME NEW t \in Turns, Ready(t) \/ CallAgent(t) \/ RunDone(t) PROVE Held'
  <2>1. PICK l \in {"subscribing", "agent", "grace"} :
           /\ Goto(t, l) /\ pc[t] \in {"ready", "subscribing", "wait"}
           /\ l = "grace" <=> pc[t] = "wait"
           /\ UNCHANGED <<activeRun, preview, thid>>
    BY <1>3 DEF Ready, CallAgent, RunDone
  <2>2. Underway(t) /\ Underway(t)' /\ l \in Labels
    BY <1>p, <2>1 DEF Goto, Underway, Ended, Labels
  <2>3. SlotWaits'
    BY <1>p, <1>h, <2>1 DEF Goto, SlotWaits
  <2> QED BY <2>1, <2>2, <2>3, GoesOnHolds
<1>4. ASSUME NEW t \in Turns, AgentAnswers(t) PROVE Held'
  <2>1. Goto(t, "wait") /\ pc[t] = "agent" /\ activeRun' = t /\ UNCHANGED <<preview, thid>>
    BY <1>4 DEF AgentAnswers
  <2>2. Underway(t) /\ Underway(t)' /\ "wait" \in Labels
    BY <1>p, <2>1 DEF Goto, Underway, Ended, Labels
  <2>3. SlotWaits'
    BY <1>p, <2>1 DEF Goto, SlotWaits
  <2> QED BY <2>1, <2>2, <2>3, GoesOnHolds
<1>5. ASSUME NEW t \in Turns, AgentFails(t) \/ RunFails(t) PROVE Held'
  <2>1. Goto(t, "failed") /\ Detach(t) /\ preview' = preview \ {thid[t]} /\ thid' = thid
    BY <1>5 DEF AgentFails, RunFails, Failure, Finalize
  <2> QED BY <2>1, <1>e, EndHolds
<1>6. ASSUME NEW t \in Turns, GraceElapses(t) PROVE Held'
  <2>1. /\ Detach(t) /\ pc[t] = "grace" /\ thid' = thid
        /\ \/ Goto(t, "answered") /\ preview' = preview \ {thid[t]}
           \/ Goto(t, "history") /\ preview' = preview
    BY <1>6 DEF GraceElapses, FinalizeRun, Discard, Finalize
  <2>2. CASE Goto(t, "history") /\ preview' = preview
    <3>1. Underway(t) /\ Underway(t)' /\ "history" \in Labels
      BY <1>p, <2>1, <2>2 DEF Goto, Underway, Ended, Labels
    <3>2. SlotWaits'
      BY <1>p, <1>h, <2>1, <2>2 DEF Goto, Detach, SlotWaits
    <3> QED BY <2>1, <2>2, <3>1, <3>2, GoesOnHolds
  <2> QED BY <2>1, <2>2, <1>e, EndHolds
<1>7. ASSUME NEW t \in Turns, HistoryReply(t) \/ HistoryFails(t) PROVE Held'
  <2>1. /\ Goto(t, "answered") /\ preview' = preview \ {thid[t]}
        /\ pc[t] = "history" /\ UNCHANGED <<activeRun, thid>>
    BY <1>7 DEF HistoryReply, HistoryFails, Discard, Finalize
  <2>2. Detach(t)
    BY <1>h, <1>p, <2>1 DEF Detach, SlotWaits
  <2> QED BY <2>1, <2>2, <1>e, EndHolds
<1>8. ASSUME NEW th \in Threads, Event(th) PROVE Held'
  <2>1. UNCHANGED <<pc, thid, activeRun>>
    BY <1>8 DEF Event
  <2>2. \/ preview' \subseteq preview
        \/ activeRun # NoTurn /\ preview' \subseteq preview \cup {thid[activeRun]}
    BY <1>8 DEF Event, Typing, CommitSegment, Preview, Finalize
  <2>3. activeRun # NoTurn => activeRun \in Turns /\ Underway(activeRun)
    BY <1>h, <1>p DEF SlotWaits, Underway, Ended
  <2>4. NoStuckPreview'
    BY <1>h, <2>1, <2>2, <2>3 DEF NoStuckPreview, Underway
  <2> QED BY <1>h, <2>1, <2>4 DEF Held, SlotWaits
<1>9. CASE LinkCloses
  <2>1. activeRun' = NoTurn /\ thid' = thid
    BY <1>9 DEF LinkCloses
  <2>2. \A u \in Turns : Underway(u) /\ pc'[u] = pc[u] => Underway(u)'
    BY DEF Underway
  <2>3. preview' = preview \ {thid[t] : t \in {x \in Turns : pc'[x] # pc[x]}}
    BY <1>9 DEF LinkCloses
  <2>4. NoStuckPreview'
    BY <1>h, <2>1, <2>2, <2>3 DEF NoStuckPreview
  <2> QED BY <2>1, <2>4 DEF Held, SlotWaits
<1>10. CASE WalletDisconnects
  BY <1>10 DEF WalletDisconnects, Held, SlotWaits, NoStuckPreview
<1>11. ASSUME UNCHANGED <<pc, thid, activeRun, preview>> PROVE Held'
  BY <1>h, <1>11 DEF Held, SlotWaits, NoStuckPreview, Underway
<1>12. CASE LinkReady \/ WalletConnects \/ ClosesThread \/ UNCHANGED vars
  BY <1>11, <1>12 DEF LinkReady, WalletConnects, ClosesThread, vars
<1>13. ASSUME NEW th \in Threads, OpensThread(th) PROVE Held'
  BY <1>11, <1>13 DEF OpensThread
<1>14. ASSUME NEW t \in Turns, GatewayStep(t) PROVE Held'
  BY <1>11, <1>14 DEF GatewayStep, RunStarts, RunSays, RunEnds
<1> QED
  BY <1>1, <1>2, <1>3, <1>4, <1>5, <1>6, <1>7, <1>8, <1>9, <1>10, <1>12, <1>13, <1>14
     DEF Next, TurnStep

LEMMA AlwaysHeld == Spec => [](TypeOK /\ Held)
<1>1. TypeOK /\ Held /\ [Next]_vars => (TypeOK /\ Held)'
  BY StepTypes, StepHeld
<1> QED BY <1>1, InitTypes, InitHeld, PTL DEF Spec

\* The wallet is never left spinning: whatever fails, overlaps or comes late,
\* a preview that is on has a turn that will take it back.
THEOREM NoPreviewStuck == Spec => []NoStuckPreview
<1>1. TypeOK /\ Held => NoStuckPreview
  BY DEF Held
<1> QED BY <1>1, AlwaysHeld, PTL

\* An older turn that ends leaves the slot of a newer one alone: the slot is
\* emptied by the turn that has it, or by the end of a connection.
THEOREM SlotIsGuarded == Spec => SlotGuard
<1>1. ASSUME TypeOK, Held, [Next]_vars, activeRun # NoTurn, activeRun' = NoTurn
      PROVE  pc'[activeRun] # pc[activeRun] \/ link' # link \/ walletUp' # walletUp
  <2>p. /\ pc \in [Turns -> Labels] /\ activeRun \in Turns /\ NoTurn \notin Turns
        /\ pc[activeRun] \in {"wait", "grace"}
    BY <1>1, NoTurnAssumption DEF TypeOK, Held, SlotWaits
  <2> USE DEF turnVars, slotVars, gateVars, shownVars
  <2>1. ASSUME NEW t \in Turns, NEW l \in {"failed", "answered", "history"}, Goto(t, l), Detach(t)
        PROVE  pc'[activeRun] # pc[activeRun]
    BY <1>1, <2>1, <2>p DEF Goto, Detach
  <2>2. ASSUME NEW t \in Turns, TurnStep(t) PROVE pc'[activeRun] # pc[activeRun]
    <3>1. CASE AgentFails(t) \/ RunFails(t) \/ GraceElapses(t)
      <4>1. \E l \in {"failed", "answered", "history"} : Goto(t, l) /\ Detach(t)
        BY <3>1 DEF AgentFails, RunFails, GraceElapses, FinalizeRun
      <4> QED BY <2>1, <4>1
    <3>2. CASE AgentAnswers(t)
      BY <1>1, <2>p, <3>2 DEF AgentAnswers
    <3> QED
      BY <1>1, <2>2, <3>1, <3>2
      DEF TurnStep, Ignored, Inbound, Ready, CallAgent, RunDone, HistoryReply, HistoryFails
  <2>3. CASE LinkCloses
    BY <2>3 DEF LinkCloses
  <2>4. CASE WalletDisconnects
    BY <2>4 DEF WalletDisconnects
  <2> QED
    BY <1>1, <2>2, <2>3, <2>4
    DEF Next, GatewayStep, RunStarts, RunSays, RunEnds, Event, OpensThread,
        LinkReady, WalletConnects, ClosesThread, vars
<1>2. TypeOK /\ Held /\ [Next]_vars
        => (activeRun # NoTurn /\ activeRun' = NoTurn =>
              pc'[activeRun] # pc[activeRun] \/ link' # link \/ walletUp' # walletUp)
  BY <1>1
<1>3. TypeOK /\ Held /\ [Next]_vars
        => [activeRun # NoTurn /\ activeRun' = NoTurn =>
              pc'[activeRun] # pc[activeRun] \/ link' # link \/ walletUp' # walletUp]_vars
  BY <1>2
<1> QED BY <1>3, AlwaysHeld, PTL DEF Spec, SlotGuard

-----------------------------------------------------------------------------
(* A steady behaviour: one turn at a time, over connections that stay.     *)

LEMMA SteadyStays ==
  ASSUME [Next]_vars, Steady'
  PROVE  Steady /\ UNCHANGED faults /\ ~LinkCloses /\ ~WalletDisconnects
<1>1. ~LinkCloses /\ ~WalletDisconnects
  BY DEF Steady, LinkCloses, WalletDisconnects
<1>2. ASSUME NEW u \in Turns, TurnStep(u) \/ GatewayStep(u) PROVE UNCHANGED faults
  BY <1>2 DEF TurnStep, GatewayStep, Ignored, Inbound, Ready, CallAgent, AgentAnswers, AgentFails,
     RunDone, RunFails, GraceElapses, HistoryReply, HistoryFails, RunStarts, RunSays, RunEnds
<1>3. UNCHANGED faults
  BY <1>1, <1>2 DEF Next, Event, OpensThread, ClosesThread, LinkReady, WalletConnects, vars
<1> QED BY <1>1, <1>3 DEF Steady

Mine(t) == pc[t] \in {"agent", "wait", "grace", "history"}
Alone == \A t, u \in Turns : Underway(t) /\ Underway(u) => t = u
Connected == walletUp /\ link # "none" /\ \A t \in Turns : Mine(t) => link = "ready"
HasSlot == \A t \in Turns : activeRun = t <=> pc[t] \in {"wait", "grace"}
JobRuns == \A t \in Turns : job[t] \in {"queued", "running"} => pc[t] = "wait"
Control == Alone /\ Connected /\ HasSlot /\ JobRuns

LEMMA InitControl == Init => Control
  BY NoTurnAssumption DEF Init, Control, Alone, Connected, HasSlot, JobRuns, Mine, Underway

LEMMA AloneStays ==
  ASSUME TypeOK, Alone, NEW t \in Turns, NEW l, Goto(t, l),
         Underway(t) \/ \A u \in Turns : ~Underway(u)
  PROVE  Alone'
  BY DEF TypeOK, Alone, Goto, Underway

LEMMA StepControl ==
  ASSUME TypeOK, Control, [Next]_vars, Steady, ~LinkCloses, ~WalletDisconnects
  PROVE  Control'
<1>p. /\ pc \in [Turns -> Labels] /\ activeRun \in Turns \cup {NoTurn} /\ NoTurn \notin Turns
      /\ job \in [Turns -> Jobs] /\ link \in {"none", "connecting", "ready"}
  BY NoTurnAssumption DEF TypeOK
<1>c. Alone /\ Connected /\ HasSlot /\ JobRuns
  BY DEF Control
<1>s. faults \cap {"overlap", "timeout"} = {}
  BY DEF Steady
<1> USE DEF turnVars, slotVars, gateVars
<1>1. ASSUME NEW t \in Turns, Ignored(t) PROVE Control'
  <2>1. Alone'
    BY <1>1, <1>p, <1>c DEF Ignored, Goto, Alone, Underway, Ended
  <2> QED BY <2>1, <1>1, <1>p, <1>c DEF Ignored, Goto, Control, Connected, HasSlot, JobRuns, Mine
<1>2. ASSUME NEW t \in Turns, Inbound(t) PROVE Control'
  <2>1. Goto(t, "ready") /\ pc[t] = "new" /\ UNCHANGED <<activeRun, link, job, walletUp>>
    BY <1>2, <1>c DEF Inbound, Connected
  <2>2. Alone'
    BY <1>2, <2>1, <1>s, <1>c, AloneStays DEF Inbound
  <2> QED BY <2>1, <2>2, <1>p, <1>c DEF Goto, Control, Connected, HasSlot, JobRuns, Mine
<1>3. ASSUME NEW t \in Turns, Ready(t) PROVE Control'
  <2>1. Alone'
    BY <1>3, <1>c, AloneStays DEF Ready, Underway, Ended
  <2> QED BY <2>1, <1>3, <1>p, <1>c DEF Ready, Goto, Control, Connected, HasSlot, JobRuns, Mine
<1>4. ASSUME NEW t \in Turns, CallAgent(t) PROVE Control'
  <2>1. Alone'
    BY <1>4, <1>c, AloneStays DEF CallAgent, Underway, Ended
  <2> QED BY <2>1, <1>4, <1>p, <1>c DEF CallAgent, Goto, Control, Connected, HasSlot, JobRuns, Mine
<1>5. ASSUME NEW t \in Turns, AgentAnswers(t) PROVE Control'
  <2>1. Alone' /\ Underway(t)
    BY <1>5, <1>c, AloneStays DEF AgentAnswers, Underway, Ended
  <2>2. \A u \in Turns : u # t => pc[u] \notin {"wait", "grace"}
    BY <2>1, <1>c DEF Alone, Underway, Ended
  <2> QED BY <2>1, <2>2, <1>5, <1>p, <1>c
          DEF AgentAnswers, Goto, Control, Connected, HasSlot, JobRuns, Mine
<1>6. ASSUME NEW t \in Turns, AgentFails(t) PROVE Control'
  <2>1. Alone'
    BY <1>6, <1>c, AloneStays DEF AgentFails, Underway, Ended
  <2>2. job' = job
    BY <1>6, <1>p, <1>s DEF AgentFails
  <2> QED BY <2>1, <2>2, <1>6, <1>p, <1>c
          DEF AgentFails, Detach, Goto, Control, Connected, HasSlot, JobRuns, Mine
<1>7. ASSUME NEW t \in Turns, RunDone(t) PROVE Control'
  <2>1. Alone'
    BY <1>7, <1>c, AloneStays DEF RunDone, Underway, Ended
  <2> QED BY <2>1, <1>7, <1>p, <1>c DEF RunDone, Goto, Control, Connected, HasSlot, JobRuns, Mine
<1>8. ASSUME NEW t \in Turns, RunFails(t) PROVE Control'
  <2>1. Alone' /\ job[t] = "error"
    BY <1>8, <1>c, <1>s, AloneStays DEF RunFails, Underway, Ended
  <2> QED BY <2>1, <1>8, <1>p, <1>c
          DEF RunFails, Detach, Goto, Control, Connected, HasSlot, JobRuns, Mine
<1>9. ASSUME NEW t \in Turns, GraceElapses(t) PROVE Control'
  <2>1. PICK l \in {"answered", "history"} : Goto(t, l)
    BY <1>9 DEF GraceElapses, FinalizeRun
  <2>2. Alone'
    BY <1>9, <1>c, <2>1, AloneStays DEF GraceElapses, Underway, Ended
  <2>3. UNCHANGED <<job, link, walletUp>> /\ Detach(t) /\ pc[t] = "grace"
    BY <1>9 DEF GraceElapses
  <2> QED BY <2>1, <2>2, <2>3, <1>p, <1>c
          DEF Detach, Goto, Control, Connected, HasSlot, JobRuns, Mine
<1>10. ASSUME NEW t \in Turns, HistoryReply(t) \/ HistoryFails(t) PROVE Control'
  <2>1. /\ pc[t] = "history" /\ Goto(t, "answered") /\ UNCHANGED <<job, link, walletUp, activeRun>>
    BY <1>10 DEF HistoryReply, HistoryFails
  <2>2. Alone'
    BY <2>1, <1>c, AloneStays DEF Underway, Ended
  <2> QED BY <2>1, <2>2, <1>p, <1>c DEF Goto, Control, Connected, HasSlot, JobRuns, Mine
<1>11. ASSUME NEW u \in Turns, RunStarts(u) \/ RunEnds(u) PROVE Control'
  <2>1. UNCHANGED <<pc, link, walletUp, activeRun>>
        /\ \A t \in Turns : job'[t] \in {"queued", "running"} => job[t] \in {"queued", "running"}
    BY <1>11, <1>p DEF RunStarts, RunEnds
  <2> QED BY <2>1, <1>c DEF Control, Alone, Underway, Connected, HasSlot, JobRuns, Mine
<1>12. ASSUME UNCHANGED <<pc, activeRun, job>>, walletUp' = walletUp \/ walletUp',
              link' = link \/ link' = "ready"
       PROVE  Control'
  BY <1>12, <1>c DEF Control, Alone, Underway, Connected, HasSlot, JobRuns, Mine
<1>13. ASSUME NEW u \in Turns, RunSays(u) PROVE Control'
  BY <1>12, <1>13 DEF RunSays
<1>14. ASSUME NEW th \in Threads, Event(th) \/ OpensThread(th) PROVE Control'
  BY <1>12, <1>14 DEF Event, OpensThread
<1>15. CASE LinkReady \/ WalletConnects \/ ClosesThread \/ UNCHANGED vars
  BY <1>12, <1>15, <1>c DEF LinkReady, WalletConnects, ClosesThread, vars, Connected
<1> QED
  BY <1>1, <1>2, <1>3, <1>4, <1>5, <1>6, <1>7, <1>8, <1>9, <1>10, <1>11, <1>13, <1>14, <1>15
     DEF Next, TurnStep, GatewayStep

\* What its run says follows, in order, what was recorded when a turn began.
Unsaid(t) ==
  \A th \in Threads : \A i \in 1..Len(transcript[th]) : transcript[th][i][1] # t
Recorded(t) ==
  /\ run[t].since <= Len(transcript[thid[t]])
  /\ \A i \in 1..Len(transcript[thid[t]]) :
       IF i <= run[t].since THEN transcript[thid[t]][i][1] # t
       ELSE transcript[thid[t]][i] = <<t, i - run[t].since>>
Early(t) == pc[t] \in {"new", "ready", "subscribing", "agent"}
Recording == \A t \in Turns : (Early(t) => Unsaid(t)) /\ (Mine(t) => Recorded(t))

\* How much that is.
Spoken(t) == Len(transcript[thid[t]]) - run[t].since

LEMMA RecordedCount ==
  ASSUME TypeOK, NEW t \in Turns, Recorded(t)
  PROVE  Said(t) = Spoken(t) /\ Spoken(t) \in Nat
<1> DEFINE n == Len(transcript[thid[t]])
           since == run[t].since
           S == {i \in 1..n : transcript[thid[t]][i][1] = t}
<1>1. n \in Nat /\ since \in Nat /\ since <= n
  BY DEF TypeOK, Recorded
<1>2. S = (since + 1)..n
  BY <1>1 DEF Recorded
<1> HIDE DEF n, since, S
<1>3. Cardinality(S) = IF since + 1 > n THEN 0 ELSE n - (since + 1) + 1
  BY <1>1, <1>2, FS_Interval
<1>4. Cardinality(S) = n - since
  BY <1>1, <1>3
<1> QED BY <1>1, <1>4 DEF Said, Spoken, S, n, since

LEMMA InitRecording == Init => Recording
  BY ThreadsAssumption DEF Init, Recording, Early, Unsaid, Mine

LEMMA RecordingStays ==
  ASSUME Recording, UNCHANGED transcript, \A t \in Turns : run'[t].since = run[t].since,
         \A t \in Turns : Early(t)' => Early(t),
         \A t \in Turns : Mine(t)' => Mine(t) /\ thid'[t] = thid[t]
  PROVE  Recording'
<1> SUFFICES ASSUME NEW t \in Turns PROVE (Early(t)' => Unsaid(t)') /\ (Mine(t)' => Recorded(t)')
  BY DEF Recording
<1>1. Unsaid(t) => Unsaid(t)'
  BY DEF Unsaid
<1>2. Recorded(t) /\ thid'[t] = thid[t] => Recorded(t)'
  BY DEF Recorded
<1> QED BY <1>1, <1>2 DEF Recording

LEMMA StepRecording ==
  ASSUME TypeOK, Control, Recording, [Next]_vars, Steady, ~LinkCloses, ~WalletDisconnects
  PROVE  Recording'
<1>p. /\ pc \in [Turns -> Labels] /\ thid \in [Turns -> Threads] /\ run \in [Turns -> Runs]
      /\ transcript \in [Threads -> Seq(Segments)]
  BY DEF TypeOK, Runs
<1> USE DEF turnVars, slotVars, gateVars
<1>1. ASSUME UNCHANGED <<pc, thid, run, transcript>> PROVE Recording'
  BY <1>1 DEF Recording, Early, Unsaid, Mine, Recorded
<1>2. ASSUME NEW t \in Turns, NEW l, Goto(t, l), UNCHANGED <<run, transcript>>,
             \/ l \in Ended
             \/ l \in {"grace", "history"} /\ Mine(t)
             \/ l \in {"ready", "subscribing"} /\ Early(t)
             \/ l = "wait" /\ Mine(t),
             \A u \in Turns : Mine(u) => thid'[u] = thid[u]
      PROVE  Recording'
  <2>1. \A u \in Turns : (Early(u)' => Early(u)) /\ (Mine(u)' => Mine(u) /\ thid'[u] = thid[u])
    BY <1>2, <1>p DEF Goto, Early, Mine, Ended
  <2> QED BY <2>1, <1>2, RecordingStays
<1>3. ASSUME NEW t \in Turns, Inbound(t) PROVE Recording'
  <2>1. pc[t] = "new" /\ UNCHANGED <<run, transcript>>
    BY <1>3 DEF Inbound
  <2>2. PICK l \in {"refused", "ready"} : Goto(t, l)
    BY <1>3 DEF Inbound
  <2>3. \A u \in Turns : Mine(u) => thid'[u] = thid[u]
    BY TurnStays DEF Mine
  <2> QED BY <2>1, <2>2, <2>3, <1>2 DEF Ended, Early
<1>4. ASSUME NEW t \in Turns, Ignored(t) \/ Ready(t) \/ AgentAnswers(t) \/ AgentFails(t)
             \/ RunDone(t)
                              \/ RunFails(t) \/ HistoryReply(t) \/ HistoryFails(t)
      PROVE  Recording'
  <2>1. UNCHANGED <<thid, run, transcript>>
    BY <1>4 DEF Ignored, Ready, AgentAnswers, AgentFails, RunDone, RunFails, HistoryReply,
       HistoryFails
  <2>2. \/ \E l \in Ended : Goto(t, l)
        \/ Goto(t, "grace") /\ Mine(t)
        \/ Goto(t, "subscribing") /\ Early(t)
        \/ Goto(t, "wait") /\ Mine(t)
    BY <1>4 DEF Ignored, Ready, AgentAnswers, AgentFails, RunDone, RunFails, HistoryReply,
       HistoryFails, Ended, Mine, Early
  <2> QED BY <2>1, <2>2, <1>2
<1>5. ASSUME NEW t \in Turns, GraceElapses(t) PROVE Recording'
  <2>1. UNCHANGED <<thid, run, transcript>> /\ Mine(t)
    BY <1>5 DEF GraceElapses, Mine
  <2>2. Goto(t, "answered") \/ Goto(t, "history")
    BY <1>5 DEF GraceElapses, FinalizeRun
  <2> QED BY <2>1, <2>2, <1>2 DEF Ended
<1>6. ASSUME NEW t \in Turns, CallAgent(t) PROVE Recording'
  <2> DEFINE n == Len(transcript[thid[t]])
  <2>1. Goto(t, "agent") /\ Start(t, n) /\ UNCHANGED <<thid, transcript>> /\ pc[t] = "subscribing"
    BY <1>6 DEF CallAgent, Steady
  <2>2. Unsaid(t) /\ transcript[thid[t]] \in Seq(Segments) /\ thid[t] \in Threads
    BY <2>1, <1>p DEF Recording, Early
  <2>3. run'[t].since = n /\ \A u \in Turns \ {t} : run'[u] = run[u] /\ pc'[u] = pc[u]
    BY <2>1, <1>p DEF Start, Runs, Goto
  <2>4. Unsaid(t)' /\ Recorded(t)'
    BY <2>1, <2>2, <2>3 DEF Recorded, Unsaid
  <2>5. ASSUME NEW u \in Turns, u # t PROVE (Early(u)' => Unsaid(u)') /\ (Mine(u)' => Recorded(u)')
    BY <2>1, <2>3, <2>5 DEF Recording, Early, Mine, Recorded, Unsaid
  <2> QED BY <2>4, <2>5 DEF Recording
<1>7. ASSUME NEW th \in Threads, Event(th) PROVE Recording'
  <2>1. UNCHANGED <<pc, thid, transcript>>
    BY <1>7 DEF Event
  <2>2. \A t \in Turns : run'[t].since = run[t].since
    <3>1. \/ UNCHANGED run
          \/ \E a, text : run' = [run EXCEPT ![a].text = text]
          \/ \E a, s : run' = [run EXCEPT ![a].committed = @ \cup {s}]
      BY <1>7 DEF Event, Typing, CommitSegment
    <3>2. ASSUME NEW a, NEW text, run' = [run EXCEPT ![a].text = text]
          PROVE  \A t \in Turns : run'[t].since = run[t].since
      BY <3>2, <1>p DEF Runs
    <3>3. ASSUME NEW a, NEW s, run' = [run EXCEPT ![a].committed = @ \cup {s}]
          PROVE  \A t \in Turns : run'[t].since = run[t].since
      BY <3>3, <1>p DEF Runs
    <3> QED BY <3>1, <3>2, <3>3
  <2> QED BY <2>1, <2>2, RecordingStays DEF Early, Mine
<1>8. ASSUME NEW u \in Turns, RunSays(u) PROVE Recording'
  <2> DEFINE th == thid[u]
  <2>1. UNCHANGED <<pc, thid, run>> /\ job[u] = "running"
        /\ transcript' = [transcript EXCEPT ![th] = Append(@, <<u, Said(u) + 1>>)]
    BY <1>8 DEF RunSays
  <2>2. pc[u] = "wait" /\ Underway(u) /\ Recorded(u) /\ th \in Threads
    BY <2>1, <1>p DEF Control, JobRuns, Underway, Ended, Recording, Mine
  <2>3. Said(u) = Spoken(u) /\ Spoken(u) \in Nat
    BY <2>2, RecordedCount
  <2>4. ASSUME NEW t \in Turns, t # u PROVE ~Mine(t)
    BY <2>2, <2>4 DEF Control, Alone, Underway, Ended, Mine
  <2>5. transcript'[th] = Append(transcript[th], <<u, Said(u) + 1>>)
        /\ transcript[th] \in Seq(Segments)
        /\ \A x \in Threads \ {th} : transcript'[x] = transcript[x]
    BY <2>1, <2>2, <1>p
  <2>6. ASSUME NEW t \in Turns, Early(t)' PROVE Unsaid(t)'
    <3>1. t # u /\ Unsaid(t)
      BY <2>6, <2>1, <2>2 DEF Recording, Early
    <3>2. ASSUME NEW x \in Threads, NEW i \in 1..Len(transcript'[x]) PROVE transcript'[x][i][1] # t
      <4>1. CASE x = th /\ i = Len(transcript[th]) + 1
        BY <4>1, <3>1, <2>5
      <4>2. CASE ~(x = th /\ i = Len(transcript[th]) + 1)
        <5>1. CASE x = th
          <6>1. i \in 1..Len(transcript[x]) /\ transcript'[x][i] = transcript[x][i]
            BY <4>2, <5>1, <2>5
          <6> QED BY <6>1, <3>1 DEF Unsaid
        <5>2. CASE x # th
          BY <5>2, <2>5, <3>1 DEF Unsaid
        <5> QED BY <5>1, <5>2
      <4> QED BY <4>1, <4>2
    <3> QED BY <3>2 DEF Unsaid
  <2>7. Recorded(u)'
    <3> DEFINE said == transcript[th]
               since == run[u].since
    <3>1. since \in Nat /\ since <= Len(said) /\ Said(u) = Len(said) - since
          /\ said \in Seq(Segments)
      BY <2>2, <2>3, <2>5, <1>p DEF Recorded, Spoken, Runs
    <3>2. transcript'[th] = Append(said, <<u, (Len(said) - since) + 1>>)
      BY <2>5, <3>1
    <3>3. \A i \in 1..Len(said) : IF i <= since THEN said[i][1] # u ELSE said[i] = <<u, i - since>>
      BY <2>2 DEF Recorded
    <3> HIDE DEF said, since
    <3>4. ASSUME NEW i \in 1..Len(transcript'[th])
          PROVE  IF i <= since THEN transcript'[th][i][1] # u
                 ELSE transcript'[th][i] = <<u, i - since>>
      <4>1. CASE i = Len(said) + 1
        <5>1. ~(i <= since) /\ i - since = (Len(said) - since) + 1
          BY <4>1, <3>1
        <5>2. transcript'[th][i] = <<u, (Len(said) - since) + 1>>
          BY <4>1, <3>1, <3>2
        <5> QED BY <5>1, <5>2
      <4>2. CASE i # Len(said) + 1
        <5>1. i \in 1..Len(said) /\ transcript'[th][i] = said[i]
          BY <4>2, <3>1, <3>2
        <5> QED BY <5>1, <3>3
      <4> QED BY <4>1, <4>2
    <3>5. since <= Len(transcript'[th])
      BY <3>1, <3>2
    <3> QED BY <3>4, <3>5, <2>1 DEF Recorded, since
  <2>8. ASSUME NEW t \in Turns, Mine(t)' PROVE Recorded(t)'
    <3>1. t = u
      BY <2>8, <2>1, <2>4 DEF Mine
    <3> QED BY <3>1, <2>7
  <2> QED BY <2>6, <2>8 DEF Recording
<1>9. ASSUME NEW u \in Turns, RunStarts(u) \/ RunEnds(u) PROVE Recording'
  BY <1>9, <1>1 DEF RunStarts, RunEnds
<1>10. ASSUME NEW th \in Threads, OpensThread(th) PROVE Recording'
  BY <1>10, <1>1 DEF OpensThread
<1>11. CASE LinkReady \/ WalletConnects \/ ClosesThread \/ UNCHANGED vars
  BY <1>11, <1>1 DEF LinkReady, WalletConnects, ClosesThread, vars
<1> QED
  BY <1>3, <1>4, <1>5, <1>6, <1>7, <1>8, <1>9, <1>10, <1>11 DEF Next, TurnStep, GatewayStep

-----------------------------------------------------------------------------
(* What is on its way to a turn is its own, and nothing is missing.        *)

ChatOf(t, k) == [kind |-> "chat", of |-> t, upto |-> k]
MessageOf(t, k) == [kind |-> "message", of |-> t, upto |-> k]
Active(t) == pc[t] \in {"wait", "grace"}

EventsMine ==
  \A t \in Turns : Active(t) =>
    \A i \in 1..Len(events[thid[t]]) : events[thid[t]][i].of = t
Subscribed ==
  IF "silent" \in faults THEN subscribed = {}
  ELSE \A t \in Turns : Mine(t) => thid[t] \in subscribed
NoMessages == "silent" \in faults =>
  /\ \A t \in Turns : run[t].committed = {}
  /\ \A th \in Threads : \A i \in 1..Len(events[th]) : events[th][i].kind # "message"
NoChats == "mute" \in faults =>
  /\ \A t \in Turns : run[t].text = NoText
  /\ \A th \in Threads : \A i \in 1..Len(events[th]) : events[th][i].kind # "chat"
OwnWords == \A t \in Turns : run[t].text # NoText => run[t].text.of = t
Pending(t, k) == \E i \in 1..Len(events[thid[t]]) : events[thid[t]][i] = MessageOf(t, k)
Full == "silent" \notin faults =>
  \A t \in Turns : Active(t) =>
    \A k \in 1..Spoken(t) : <<t, k>> \in run[t].committed \/ Pending(t, k)
NoChatFrom(t, n) ==
  \A i \in 1..Len(events[thid[t]]) : i >= n => events[thid[t]][i].kind # "chat"
Streamed(t) ==
  \/ run[t].text = [of |-> t, upto |-> Spoken(t)] /\ NoChatFrom(t, 1)
  \/ \E i \in 1..Len(events[thid[t]]) :
       events[thid[t]][i] = ChatOf(t, Spoken(t)) /\ NoChatFrom(t, i + 1)
AllStreamed == "mute" \notin faults =>
  \A t \in Turns : Active(t) /\ Spoken(t) > 0 => Streamed(t)
HistoryFirst == \A t \in Turns : pc[t] = "history" =>
  run[t].committed = {} /\ ("silent" \notin faults => Spoken(t) = 0)
Delivery ==
  /\ EventsMine /\ Subscribed /\ NoMessages /\ NoChats /\ OwnWords
  /\ Full /\ AllStreamed /\ HistoryFirst

LEMMA InitDelivery == Init => Delivery
  BY DEF Init, Delivery, EventsMine, Subscribed, NoMessages, NoChats, OwnWords, Full, AllStreamed,
     HistoryFirst, Active, Mine, FreshRun

LEMMA DeliveryStays ==
  ASSUME Delivery, UNCHANGED <<faults, run, events, transcript, subscribed>>,
         \A t \in Turns : Active(t)' => Active(t) /\ thid'[t] = thid[t],
         \A t \in Turns : Mine(t)' => Mine(t) /\ thid'[t] = thid[t],
         HistoryFirst'
  PROVE  Delivery'
<1>1. EventsMine' /\ NoMessages' /\ NoChats' /\ OwnWords'
  BY DEF Delivery, EventsMine, NoMessages, NoChats, OwnWords
<1>2. Subscribed'
  BY DEF Delivery, Subscribed
<1>3. ASSUME NEW t \in Turns, thid'[t] = thid[t]
      PROVE  /\ Spoken(t)' = Spoken(t) /\ (Streamed(t) => Streamed(t)')
             /\ \A k : Pending(t, k) => Pending(t, k)'
  BY <1>3 DEF Spoken, Streamed, NoChatFrom, Pending
<1>4. Full'
  <2> SUFFICES ASSUME "silent" \notin faults, NEW t \in Turns, Active(t)', NEW k \in 1..Spoken(t)'
               PROVE  <<t, k>> \in run[t].committed \/ Pending(t, k)'
    BY DEF Full
  <2>1. k \in 1..Spoken(t) /\ Active(t)
    BY <1>3
  <2> QED BY <2>1, <1>3 DEF Delivery, Full
<1>5. AllStreamed'
  BY <1>3 DEF Delivery, AllStreamed
<1> QED BY <1>1, <1>2, <1>4, <1>5 DEF Delivery

\* An event queue after a run has said something: a chat event unless A, then a
\* session message unless B.
Grown(q, c, m, A, B) == (q \o (IF A THEN <<>> ELSE <<c>>)) \o (IF B THEN <<>> ELSE <<m>>)
GrownBy(q, c, m, A, B, new) ==
  /\ Len(new) \in Nat /\ Len(new) >= Len(q)
  /\ \A i \in 1..Len(q) : new[i] = q[i]
  /\ \A i \in 1..Len(new) : i <= Len(q) \/ (~A /\ new[i] = c) \/ (~B /\ new[i] = m)
  /\ ~A => /\ Len(q) + 1 \in 1..Len(new) /\ new[Len(q) + 1] = c
           /\ \A i \in 1..Len(new) : i >= Len(q) + 2 => new[i] = m
  /\ ~B => \E i \in 1..Len(new) : new[i] = m

LEMMA GrowsBy ==
  ASSUME NEW S, NEW q \in Seq(S), NEW c \in S, NEW m \in S, NEW A \in BOOLEAN, NEW B \in BOOLEAN
  PROVE  GrownBy(q, c, m, A, B, Grown(q, c, m, A, B))
<1> DEFINE new == Grown(q, c, m, A, B)
<1> SUFFICES GrownBy(q, c, m, A, B, new)
  OBVIOUS
<1> USE DEF Grown, GrownBy
<1> DEFINE n == Len(q)
<1>0. n \in Nat /\ n + 1 \in 1..(n + 1) /\ n + 1 \in 1..(n + 2) /\ n + 2 \in 1..(n + 2)
  OBVIOUS
<1>1. CASE A /\ B
  BY <1>1
<1>2. CASE ~A /\ B
  <2>1. new = q \o <<c>> /\ Len(new) = Len(q) + 1
    BY <1>2
  <2> QED BY <1>2, <2>1
<1>3. CASE A /\ ~B
  <2>1. new = q \o <<m>> /\ Len(new) = Len(q) + 1 /\ new[Len(q) + 1] = m
    BY <1>3
  <2>2. Len(q) + 1 \in 1..Len(new)
    BY <2>1, <1>0
  <2> QED BY <1>3, <2>1, <2>2
<1>4. CASE ~A /\ ~B
  <2>1. new = (q \o <<c>>) \o <<m>> /\ Len(new) = Len(q) + 2 /\ new[Len(q) + 1] = c
        /\ new[Len(q) + 2] = m
    BY <1>4
  <2>2. Len(q) + 1 \in 1..Len(new) /\ Len(q) + 2 \in 1..Len(new)
    BY <2>1, <1>0
  <2> QED BY <1>4, <2>1, <2>2
<1> QED BY <1>1, <1>2, <1>3, <1>4

\* The active turn takes the next event of its session.
LEMMA TakesEvent ==
  ASSUME TypeOK, Delivery, NEW a \in Turns, Active(a), events[thid[a]] # <<>>,
         UNCHANGED <<faults, thid, transcript>>,
         events' = [events EXCEPT ![thid[a]] = Tail(@)],
         NEW e, e = Head(events[thid[a]]),
         \/ e.kind = "chat" /\ run' = [run EXCEPT ![a].text = [of |-> a, upto |-> e.upto]]
         \/ e.kind = "message" /\ run' = [run EXCEPT ![a].committed = @ \cup {<<a, e.upto>>}]
  PROVE  /\ \A i \in 1..Len(events'[thid[a]]) : events'[thid[a]][i].of = a
         /\ "silent" \notin faults =>
              \A k \in 1..Spoken(a) : <<a, k>> \in run'[a].committed \/ Pending(a, k)'
         /\ "mute" \notin faults /\ Spoken(a) > 0 => Streamed(a)'
<1> DEFINE th == thid[a]
           q == events[th]
           new == events'[th]
<1>1. /\ q \in Seq(Events) /\ q # <<>> /\ th \in Threads /\ new = Tail(q) /\ e = q[1]
      /\ run[a] \in Runs /\ run \in [Turns -> Runs]
  <2>1. events \in [Threads -> Seq(Events)] /\ thid \in [Turns -> Threads]
        /\ run \in [Turns -> Runs]
    BY DEF TypeOK, Runs, Events
  <2>2. q \in Seq(Events) /\ th \in Threads /\ q # <<>> /\ e = Head(q) /\ new = Tail(q)
    BY <2>1
  <2> QED BY <2>1, <2>2
<1> HIDE DEF th, q, new
<1>2. /\ Len(q) \in Nat /\ Len(q) >= 1 /\ Len(new) = Len(q) - 1
      /\ \A i \in 1..Len(new) : i + 1 \in 1..Len(q) /\ new[i] = q[i + 1]
      /\ \A i \in 1..Len(q) : i # 1 => i - 1 \in 1..Len(new) /\ new[i - 1] = q[i]
  <2>1. Len(q) \in Nat /\ Len(q) >= 1 /\ Len(new) = Len(q) - 1
        /\ \A i \in 1..Len(new) : new[i] = q[i + 1]
    BY <1>1
  <2>2. \A i \in 1..Len(new) : i + 1 \in 1..Len(q)
    BY <2>1
  <2>3. ASSUME NEW i \in 1..Len(q), i # 1 PROVE i - 1 \in 1..Len(new) /\ new[i - 1] = q[i]
    <3>1. i - 1 \in 1..Len(new) /\ (i - 1) + 1 = i
      BY <2>1, <2>3
    <3>2. new[i - 1] = q[(i - 1) + 1]
      BY <3>1, <2>1
    <3> QED BY <3>1, <3>2
  <2> QED BY <2>1, <2>2, <2>3
<1>3. Spoken(a)' = Spoken(a) /\ th' = th
  <2>1. run'[a].since = run[a].since
    BY <1>1 DEF Runs
  <2> QED BY <2>1 DEF Spoken, th
<1>o. \A i \in 1..Len(q) : q[i].of = a
  BY DEF Delivery, EventsMine, q, th
<1>4. e \in Events /\ e.of = a
  BY <1>1, <1>2, <1>o
<1>5. \/ e.kind = "chat" /\ run'[a].text = [of |-> a, upto |-> e.upto]
         /\ run'[a].committed = run[a].committed
      \/ e.kind = "message" /\ run'[a].text = run[a].text
         /\ run'[a].committed = run[a].committed \cup {<<a, e.upto>>}
  BY <1>1 DEF Runs
<1>6. \A i \in 1..Len(new) : new[i].of = a
  BY <1>2, <1>o
<1>7. ASSUME "silent" \notin faults, NEW k \in 1..Spoken(a)
      PROVE  <<a, k>> \in run'[a].committed \/ Pending(a, k)'
  <2>1. CASE <<a, k>> \in run[a].committed
    BY <2>1, <1>5
  <2>2. CASE Pending(a, k)
    <3>1. PICK i \in 1..Len(q) : q[i] = MessageOf(a, k)
      BY <2>2 DEF Pending, q, th
    <3>2. CASE i = 1
      <4>1. e.kind = "message" /\ e.upto = k
        BY <3>1, <3>2, <1>1 DEF MessageOf, q, th
      <4> QED BY <4>1, <1>5
    <3>3. CASE i # 1
      <4>1. i - 1 \in 1..Len(new) /\ new[i - 1] = MessageOf(a, k)
        BY <3>1, <3>3, <1>2
      <4> QED BY <4>1, <1>3 DEF Pending, MessageOf, new, th
    <3> QED BY <3>2, <3>3
  <2> QED BY <1>7, <2>1, <2>2 DEF Delivery, Full
<1>8. ASSUME "mute" \notin faults, Spoken(a) > 0 PROVE Streamed(a)'
  <2>n. ASSUME NEW n \in Nat, \A i \in 1..Len(q) : i >= n + 1 => q[i].kind # "chat"
        PROVE  \A i \in 1..Len(new) : i >= n => new[i].kind # "chat"
    BY <2>n, <1>2
  <2>1. CASE run[a].text = [of |-> a, upto |-> Spoken(a)] /\ NoChatFrom(a, 1)
    <3>1. \A i \in 1..Len(q) : i >= 1 => q[i].kind # "chat"
      BY <2>1 DEF NoChatFrom, q, th
    <3>2. \A i \in 1..Len(q) : q[i].kind # "chat"
      BY <3>1, <1>2
    <3>3. e.kind # "chat"
      BY <3>2, <1>1, <1>2 DEF q, th
    <3>4. \A i \in 1..Len(new) : new[i].kind # "chat"
      BY <3>2, <1>2
    <3> QED BY <3>3, <3>4, <2>1, <1>3, <1>5 DEF Streamed, NoChatFrom, new, th
  <2>2. CASE \E i \in 1..Len(q) : q[i] = ChatOf(a, Spoken(a)) /\ NoChatFrom(a, i + 1)
    <3>1. PICK i \in 1..Len(q) : q[i] = ChatOf(a, Spoken(a)) /\ NoChatFrom(a, i + 1)
      BY <2>2
    <3>2. \A j \in 1..Len(q) : j >= i + 1 => q[j].kind # "chat"
      BY <3>1 DEF NoChatFrom, q, th
    <3>3. \A j \in 1..Len(new) : j >= i => new[j].kind # "chat"
      BY <3>2, <2>n
    <3>4. CASE i = 1
      <4>1. run'[a].text = [of |-> a, upto |-> Spoken(a)]
        BY <3>1, <3>4, <1>1, <1>5 DEF ChatOf, q, th
      <4> QED BY <4>1, <3>3, <3>4, <1>3 DEF Streamed, NoChatFrom, new, th
    <3>5. CASE i # 1
      <4>1. i - 1 \in 1..Len(new) /\ new[i - 1] = ChatOf(a, Spoken(a)) /\ (i - 1) + 1 = i
        BY <3>1, <3>5, <1>2
      <4> QED BY <4>1, <3>3, <1>3 DEF Streamed, NoChatFrom, ChatOf, new, th
    <3> QED BY <3>4, <3>5
  <2> QED BY <1>8, <2>1, <2>2 DEF Delivery, AllStreamed, Streamed, q, th
<1> QED BY <1>6, <1>7, <1>8 DEF new, th

\* The run of the active turn says something.
LEMMA SaysMore ==
  ASSUME TypeOK, Delivery, NEW u \in Turns, RunSays(u), Active(u), Mine(u), link = "ready",
         Said(u) = Spoken(u), Spoken(u) \in Nat
  PROVE  /\ \A i \in 1..Len(events'[thid[u]]) : events'[thid[u]][i].of = u
         /\ \A th \in Threads : \A i \in 1..Len(events'[th]) :
              \/ \E j \in 1..Len(events[th]) : events'[th][i] = events[th][j]
              \/ "mute" \notin faults /\ events'[th][i] = ChatOf(u, Spoken(u) + 1)
              \/ "silent" \notin faults /\ events'[th][i] = MessageOf(u, Spoken(u) + 1)
         /\ "silent" \notin faults =>
              \A k \in 1..Spoken(u)' : <<u, k>> \in run'[u].committed \/ Pending(u, k)'
         /\ "mute" \notin faults /\ Spoken(u)' > 0 => Streamed(u)'
<1> DEFINE th == thid[u]
           k == Spoken(u) + 1
           q == events[th]
           new == events'[th]
           A == "mute" \in faults
           B == thid[u] \notin subscribed
<1>1. /\ th \in Threads /\ q \in Seq(Events) /\ UNCHANGED <<thid, run, faults>>
      /\ k \in 1..MaxSegments
      /\ events \in [Threads -> Seq(Events)] /\ transcript[th] \in Seq(Segments)
      /\ transcript \in [Threads -> Seq(Segments)]
  <2>1. events \in [Threads -> Seq(Events)] /\ transcript \in [Threads -> Seq(Segments)]
        /\ thid \in [Turns -> Threads]
    BY DEF TypeOK, Events
  <2>2. UNCHANGED <<thid, run, faults>> /\ Said(u) < MaxSegments
    BY DEF RunSays, turnVars
  <2>3. k \in 1..MaxSegments
    BY <2>2, SegmentsAssumption
  <2> QED BY <2>1, <2>2, <2>3
<1>2. ChatOf(u, k) \in Events /\ MessageOf(u, k) \in Events
  BY <1>1 DEF ChatOf, MessageOf, Events
<1>3. events' = [events EXCEPT ![th] =
         (@ \o (IF A THEN <<>> ELSE <<ChatOf(u, k)>>)) \o (IF B THEN <<>> ELSE <<MessageOf(u, k)>>)]
  BY DEF RunSays, ChatOf, MessageOf
<1>4. Spoken(u)' = k /\ th' = th
  <2>1. transcript'[th] = Append(transcript[th], <<u, k>>) /\ run[u].since \in Nat
    BY <1>1 DEF RunSays, TypeOK
  <2>2. Len(transcript'[th]) = Len(transcript[th]) + 1
    BY <2>1, <1>1
  <2>3. Spoken(u) = Len(transcript[th]) - run[u].since
    BY DEF Spoken
  <2>4. Spoken(u)' = Len(transcript'[th]) - run[u].since
    BY <1>1 DEF Spoken
  <2>5. Len(transcript[th]) \in Nat
    BY <1>1
  <2> QED BY <2>1, <2>2, <2>3, <2>4, <2>5, <1>1
<1>5. B <=> "silent" \in faults
  BY DEF Delivery, Subscribed
<1>6. new = Grown(q, ChatOf(u, k), MessageOf(u, k), A, B)
      /\ \A x \in Threads \ {th} : events'[x] = events[x]
  BY <1>1, <1>3 DEF Grown
<1>7. A \in BOOLEAN /\ B \in BOOLEAN
  OBVIOUS
<1> HIDE DEF th, k, q, new, A, B
<1>8. GrownBy(q, ChatOf(u, k), MessageOf(u, k), A, B, new)
  BY <1>1, <1>2, <1>6, <1>7, GrowsBy
<1>9. Len(q) \in Nat /\ Len(new) \in Nat /\ \A i \in 1..Len(new) : i <= Len(q) => i \in 1..Len(q)
  BY <1>1, <1>8 DEF GrownBy
<1>10. \A i \in 1..Len(new) : new[i].of = u
  <2>1. \A i \in 1..Len(q) : q[i].of = u
    BY DEF Delivery, EventsMine, q, th
  <2>2. ChatOf(u, k).of = u /\ MessageOf(u, k).of = u
    BY DEF ChatOf, MessageOf
  <2> QED BY <2>1, <2>2, <1>8, <1>9 DEF GrownBy
<1>11. ASSUME NEW x \in Threads, NEW i \in 1..Len(events'[x])
       PROVE  \/ \E j \in 1..Len(events[x]) : events'[x][i] = events[x][j]
              \/ "mute" \notin faults /\ events'[x][i] = ChatOf(u, k)
              \/ "silent" \notin faults /\ events'[x][i] = MessageOf(u, k)
  <2>1. CASE x = th
    <3>1. i \in 1..Len(new) /\ events'[x][i] = new[i] /\ events[x] = q
      BY <2>1 DEF new, q
    <3>2. \/ \E j \in 1..Len(q) : new[i] = q[j]
          \/ ~A /\ new[i] = ChatOf(u, k)
          \/ ~B /\ new[i] = MessageOf(u, k)
      BY <3>1, <1>8, <1>9 DEF GrownBy
    <3> QED BY <3>1, <3>2, <1>5 DEF A
  <2>2. CASE x # th
    BY <2>2, <1>6
  <2> QED BY <2>1, <2>2
<1>12. ASSUME "silent" \notin faults, NEW n \in 1..Spoken(u)'
       PROVE  <<u, n>> \in run'[u].committed \/ Pending(u, n)'
  <2>0. Pending(u, n)' <=> \E i \in 1..Len(new) : new[i] = MessageOf(u, n)
    BY <1>4 DEF Pending, MessageOf, new, th
  <2>1. CASE n = k
    BY <2>0, <2>1, <1>5, <1>8, <1>12 DEF GrownBy
  <2>2. CASE n # k
    <3>1. n \in 1..Spoken(u)
      BY <2>2, <1>4 DEF k
    <3>2. <<u, n>> \in run[u].committed \/ \E i \in 1..Len(q) : q[i] = MessageOf(u, n)
      BY <3>1, <1>12 DEF Delivery, Full, Pending, q, th
    <3>3. \A i \in 1..Len(q) : i \in 1..Len(new) /\ new[i] = q[i]
      BY <1>8, <1>9 DEF GrownBy
    <3> QED BY <3>2, <3>3, <2>0, <1>1
  <2> QED BY <2>1, <2>2
<1>13. ASSUME "mute" \notin faults PROVE Streamed(u)'
  <2>1. Len(q) + 1 \in 1..Len(new) /\ new[Len(q) + 1] = ChatOf(u, k)
        /\ \A i \in 1..Len(new) : i >= (Len(q) + 1) + 1 => new[i].kind # "chat"
    <3>1. MessageOf(u, k).kind # "chat"
      BY DEF MessageOf
    <3> QED BY <3>1, <1>8, <1>9, <1>13 DEF A, GrownBy
  <2> QED BY <2>1, <1>4 DEF Streamed, NoChatFrom, ChatOf, new, th
<1> QED BY <1>10, <1>11, <1>12, <1>13 DEF new, th, k

LEMMA OthersRest ==
  ASSUME Control, NEW t \in Turns, Underway(t), NEW u \in Turns, u # t
  PROVE  ~Mine(u) /\ ~Active(u) /\ pc[u] # "history"
  BY DEF Control, Alone, Underway, Ended, Mine, Active

LEMMA StepDelivery ==
  ASSUME TypeOK, Owned, Control, Recording, Delivery, [Next]_vars, Steady, UNCHANGED faults,
         ~LinkCloses, ~WalletDisconnects
  PROVE  Delivery'
<1>p. /\ pc \in [Turns -> Labels] /\ thid \in [Turns -> Threads] /\ run \in [Turns -> Runs]
      /\ transcript \in [Threads -> Seq(Segments)] /\ events \in [Threads -> Seq(Events)]
  BY DEF TypeOK, Runs, Events
<1>d. /\ EventsMine /\ Subscribed /\ NoMessages /\ NoChats /\ OwnWords
      /\ Full /\ AllStreamed /\ HistoryFirst
  BY DEF Delivery
<1> USE DEF turnVars, slotVars, gateVars
<1>1. ASSUME UNCHANGED <<pc, thid, run, events, transcript, subscribed>> PROVE Delivery'
  BY <1>1, <1>d, DeliveryStays DEF Active, Mine, HistoryFirst, Spoken
<1>2. ASSUME NEW t \in Turns, NEW l, Goto(t, l), UNCHANGED <<run, events, transcript, subscribed>>,
             l \in Ended \cup {"ready", "subscribing"} \/ (l = "grace" /\ Active(t)),
             \A u \in Turns : Mine(u) => thid'[u] = thid[u]
      PROVE  Delivery'
  <2>1. ASSUME NEW u \in Turns
        PROVE  /\ Active(u)' => Active(u) /\ thid'[u] = thid[u]
               /\ Mine(u)' => Mine(u) /\ thid'[u] = thid[u]
               /\ pc'[u] = "history" => pc[u] = "history" /\ thid'[u] = thid[u]
    BY <1>2, <1>p DEF Goto, Active, Mine, Ended
  <2>2. HistoryFirst'
    <3> SUFFICES ASSUME NEW u \in Turns, pc'[u] = "history"
                 PROVE  run'[u].committed = {} /\ ("silent" \notin faults => Spoken(u)' = 0)
      BY DEF HistoryFirst
    <3>1. Spoken(u)' = Spoken(u)
      BY <1>2, <2>1 DEF Spoken
    <3> QED BY <3>1, <2>1, <1>2, <1>d DEF HistoryFirst
  <2> QED BY <2>1, <2>2, <1>2, DeliveryStays
<1>3. ASSUME NEW t \in Turns, Inbound(t) PROVE Delivery'
  <2>1. pc[t] = "new" /\ UNCHANGED <<run, events, transcript, subscribed>>
    BY <1>3 DEF Inbound
  <2>2. PICK l \in {"refused", "ready"} : Goto(t, l)
    BY <1>3 DEF Inbound
  <2>3. \A u \in Turns : Mine(u) => thid'[u] = thid[u]
    BY TurnStays DEF Mine
  <2> QED BY <2>1, <2>2, <2>3, <1>2 DEF Ended
<1>4. ASSUME NEW t \in Turns, Ignored(t) \/ Ready(t) \/ AgentFails(t) \/ RunDone(t)
                              \/ RunFails(t) \/ HistoryReply(t) \/ HistoryFails(t)
      PROVE  Delivery'
  <2>1. UNCHANGED <<thid, run, events, transcript, subscribed>>
    BY <1>4 DEF Ignored, Ready, AgentFails, RunDone, RunFails, HistoryReply, HistoryFails
  <2>2. (\E l \in Ended \cup {"subscribing"} : Goto(t, l)) \/ (Goto(t, "grace") /\ Active(t))
    BY <1>4 DEF Ignored, Ready, AgentFails, RunDone, RunFails, HistoryReply, HistoryFails,
       Ended, Active
  <2> QED BY <2>1, <2>2, <1>2
<1>5. ASSUME NEW t \in Turns, GraceElapses(t) PROVE Delivery'
  <2>1. /\ UNCHANGED <<thid, run, events, transcript, subscribed>>
        /\ Active(t) /\ Underway(t) /\ Mine(t)
        /\ pc[t] = "grace" /\ events[thid[t]] = <<>> /\ FinalizeRun(t)
    BY <1>5 DEF GraceElapses, Active, Mine, Underway, Ended, InOrder, Steady
  <2>2. CASE Goto(t, "answered")
    BY <2>1, <2>2, <1>2 DEF Ended
  <2>3. CASE Goto(t, "history") /\ run[t].committed = {}
    <3>1. ASSUME "silent" \notin faults PROVE Spoken(t) = 0
      <4>1. Recorded(t) /\ Spoken(t) \in Nat
        BY <2>1, RecordedCount DEF Recording
      <4>2. \A k \in 1..Spoken(t) : FALSE
        <5>1. \A k : ~Pending(t, k)
          BY <2>1 DEF Pending
        <5> QED BY <5>1, <2>1, <2>3, <3>1, <1>d DEF Full
      <4> QED BY <4>1, <4>2
    <3>2. HistoryFirst'
      BY <2>1, <2>3, <3>1, <1>d, <1>p DEF HistoryFirst, Goto, Spoken
    <3>3. \A u \in Turns : (Active(u)' => Active(u)) /\ (Mine(u)' => Mine(u))
      BY <2>1, <2>3, <1>p DEF Goto, Active, Mine
    <3> QED BY <2>1, <3>2, <3>3, DeliveryStays
  <2> QED BY <2>1, <2>2, <2>3 DEF FinalizeRun
<1>6. ASSUME NEW t \in Turns, CallAgent(t) PROVE Delivery'
  <2>1. /\ pc[t] = "subscribing" /\ Goto(t, "agent") /\ UNCHANGED <<thid, events, transcript>>
        /\ subscribed' = IF "silent" \in faults THEN subscribed ELSE subscribed \cup {thid[t]}
        /\ \E since : Start(t, since)
    BY <1>6 DEF CallAgent
  <2>2. \A u \in Turns : run'[u].committed = run[u].committed /\ run'[u].text = run[u].text
    BY <2>1, <1>p DEF Start, Runs
  <2>3. \A u \in Turns : ~Active(u)' /\ pc'[u] # "history" /\ (u # t => ~Mine(u)')
    <3>1. Underway(t)
      BY <2>1 DEF Underway, Ended
    <3>2. ASSUME NEW u \in Turns, u # t PROVE ~Mine(u) /\ ~Active(u) /\ pc[u] # "history"
                 /\ pc'[u] = pc[u]
      BY <3>1, <3>2, <2>1, <1>p, OthersRest DEF Goto
    <3>3. pc'[t] = "agent"
      BY <2>1, <1>p DEF Goto
    <3> QED BY <3>2, <3>3 DEF Mine, Active
  <2>4. Subscribed'
    BY <2>1, <2>3, <1>d DEF Subscribed
  <2>5. NoMessages' /\ NoChats' /\ OwnWords'
    BY <2>1, <2>2, <1>d DEF NoMessages, NoChats, OwnWords
  <2> QED BY <2>3, <2>4, <2>5 DEF Delivery, EventsMine, Full, AllStreamed, HistoryFirst
<1>7. ASSUME NEW t \in Turns, AgentAnswers(t) PROVE Delivery'
  <2>1. /\ pc[t] = "agent" /\ Goto(t, "wait") /\ events[thid[t]] = <<>>
        /\ UNCHANGED <<thid, run, events, transcript, subscribed>>
    BY <1>7 DEF AgentAnswers, InOrder, Steady
  <2>2. Underway(t) /\ Mine(t) /\ Early(t)
    BY <2>1 DEF Underway, Ended, Mine, Early
  <2>3. \A u \in Turns :
          /\ Active(u)' => u = t
          /\ Mine(u)' => Mine(u)
          /\ pc'[u] = "history" => pc[u] = "history"
    <3>1. \A u \in Turns : u # t => ~Active(u)
      BY <2>2, OthersRest
    <3> QED BY <3>1, <2>1, <2>2, <1>p DEF Goto, Active, Mine
  <2>4. Spoken(t)' = 0
    <3>1. Recorded(t) /\ Unsaid(t) /\ Spoken(t) \in Nat /\ Said(t) = Spoken(t)
      BY <2>2, RecordedCount DEF Recording
    <3>2. Len(transcript[thid[t]]) \in Nat /\ run[t].since \in Nat /\ thid[t] \in Threads
      BY <1>p DEF Runs
    <3>3. ~(Len(transcript[thid[t]]) > run[t].since)
      <4>1. SUFFICES ASSUME Len(transcript[thid[t]]) > run[t].since PROVE FALSE
        OBVIOUS
      <4>2. Len(transcript[thid[t]]) \in 1..Len(transcript[thid[t]])
        BY <3>2, <4>1
      <4> QED BY <3>1, <3>2, <4>1, <4>2 DEF Recorded, Unsaid
    <3> QED BY <3>1, <3>2, <3>3, <2>1 DEF Spoken
  <2>5. EventsMine' /\ Full' /\ AllStreamed'
    BY <2>1, <2>3, <2>4 DEF EventsMine, Full, AllStreamed
  <2>6. HistoryFirst'
    <3>1. \A u \in Turns : Spoken(u)' = Spoken(u)
      BY <2>1 DEF Spoken
    <3> QED BY <3>1, <2>1, <2>3, <1>d DEF HistoryFirst
  <2>7. Subscribed' /\ NoMessages' /\ NoChats' /\ OwnWords'
    BY <2>1, <2>3, <1>d DEF Subscribed, NoMessages, NoChats, OwnWords
  <2> QED BY <2>5, <2>6, <2>7 DEF Delivery
<1>8. ASSUME NEW th \in Threads, Event(th) PROVE Delivery'
  <2> DEFINE e == Head(events[th])
             a == activeRun
  <2>1. /\ UNCHANGED <<pc, thid, transcript, subscribed>> /\ events[th] # <<>>
        /\ events' = [events EXCEPT ![th] = Tail(@)]
    BY <1>8 DEF Event
  <2>2. events[th] \in Seq(Events) /\ e = events[th][1] /\ 1 \in 1..Len(events[th]) /\ e \in Events
    BY <2>1, <1>p
  <2>3. e.of \in Turns /\ thid[e.of] = th
    BY <2>2 DEF Owned, OwnEvents, Of
  <2>4. ASSUME NEW x \in Threads, NEW i \in 1..Len(events'[x])
        PROVE  \E j \in 1..Len(events[x]) : events'[x][i] = events[x][j]
    <3>1. CASE x = th
      <4>1. i + 1 \in 1..Len(events[x]) /\ events'[x][i] = events[x][i + 1]
        BY <3>1, <2>1, <2>2, <1>p
      <4> QED BY <4>1
    <3>2. CASE x # th
      BY <3>2, <2>1, <1>p
    <3> QED BY <3>1, <3>2
  <2>k. ASSUME NEW kind,
               \A x \in Threads : \A i \in 1..Len(events[x]) : events[x][i].kind # kind
        PROVE  \A x \in Threads : \A i \in 1..Len(events'[x]) : events'[x][i].kind # kind
    <3> SUFFICES ASSUME NEW x \in Threads, NEW i \in 1..Len(events'[x])
                 PROVE  events'[x][i].kind # kind
      OBVIOUS
    <3>1. PICK j \in 1..Len(events[x]) : events'[x][i] = events[x][j]
      BY <2>4
    <3> QED BY <3>1, <2>k
  <2>5. CASE UNCHANGED run /\ ~(\E t \in Turns : Active(t) /\ thid[t] = th)
    <3>1. ASSUME NEW t \in Turns, Active(t)'
          PROVE  /\ Active(t) /\ events'[thid[t]] = events[thid[t]] /\ Spoken(t)' = Spoken(t)
                 /\ (Streamed(t) => Streamed(t)') /\ \A k : Pending(t, k) => Pending(t, k)'
      <4>1. Active(t) /\ thid[t] # th /\ thid[t] \in Threads
        BY <3>1, <2>1, <2>5, <1>p DEF Active
      <4>2. events'[thid[t]] = events[thid[t]] /\ Spoken(t)' = Spoken(t) /\ thid' = thid
        BY <4>1, <2>1, <2>5, <1>p DEF Spoken
      <4> QED BY <4>1, <4>2, <2>5 DEF Streamed, NoChatFrom, Pending
    <3>2. EventsMine'
      BY <3>1, <2>1, <1>d DEF EventsMine
    <3>3. Full'
      BY <3>1, <2>1, <2>5, <1>d DEF Full
    <3>4. AllStreamed'
      BY <3>1, <2>1, <1>d DEF AllStreamed
    <3>5. HistoryFirst' /\ Subscribed' /\ OwnWords'
      BY <2>1, <2>5, <1>d DEF HistoryFirst, Spoken, Subscribed, Mine, OwnWords
    <3>6. NoMessages'
      BY <2>k, <2>5, <1>d DEF NoMessages
    <3>7. NoChats'
      BY <2>k, <2>5, <1>d DEF NoChats
    <3> QED BY <3>2, <3>3, <3>4, <3>5, <3>6, <3>7 DEF Delivery
  <2>6. ASSUME NEW b \in Turns, b = activeRun, NEW f, f = e, Matches(f.of, b)
        PROVE  Delivery'
    <3>1. b \in Turns /\ Active(b) /\ th = thid[b] /\ Underway(b)
      BY <2>3, <2>6 DEF TypeOK, Control, HasSlot, Active, Matches, Underway, Ended
    <3>2. f.of = b
      BY <3>1, <2>2, <2>6, <1>d DEF EventsMine
    <3>3. \/ f.kind = "chat" /\ run' = [run EXCEPT ![b].text = [of |-> b, upto |-> f.upto]]
          \/ f.kind = "message" /\ run' = [run EXCEPT ![b].committed = @ \cup {<<b, f.upto>>}]
      <4>1. CASE f.kind = "chat" /\ Typing(b, [of |-> f.of, upto |-> f.upto])
        BY <4>1, <3>2 DEF Typing
      <4>2. CASE f.kind = "message" /\ CommitSegment(b, <<f.of, f.upto>>)
        <5>1. CASE <<b, f.upto>> \in run[b].committed
          <6>1. run' = run /\ run[b].committed \cup {<<b, f.upto>>} = run[b].committed
            BY <4>2, <3>2, <5>1 DEF CommitSegment
          <6>2. [run EXCEPT ![b].committed = @ \cup {<<b, f.upto>>}] = run
            BY <6>1, <3>1, <1>p DEF Runs
          <6> QED BY <6>1, <6>2, <4>2
        <5>2. CASE <<b, f.upto>> \notin run[b].committed
          BY <4>2, <3>2, <5>2 DEF CommitSegment
        <5> QED BY <5>1, <5>2
      <4> QED BY <1>8, <2>6, <4>1, <4>2, NoTurnAssumption DEF Event
    <3> HIDE DEF e, a
    <3>4. /\ \A i \in 1..Len(events'[thid[b]]) : events'[thid[b]][i].of = b
          /\ "silent" \notin faults =>
               \A k \in 1..Spoken(b) : <<b, k>> \in run'[b].committed \/ Pending(b, k)'
          /\ "mute" \notin faults /\ Spoken(b) > 0 => Streamed(b)'
      <4>1. events[thid[b]] # <<>> /\ events' = [events EXCEPT ![thid[b]] = Tail(@)]
            /\ f = Head(events[thid[b]])
        BY <2>1, <2>6, <3>1 DEF e
      <4> QED BY <4>1, <3>1, <3>3, <2>1, TakesEvent
    <3>5. \A t \in Turns : Active(t)' => t = b
      BY <3>1, <2>1, OthersRest DEF Active
    <3>6. ASSUME NEW t \in Turns
          PROVE  /\ run'[t].since = run[t].since
                 /\ t # b => run'[t] = run[t]
      <4>1. CASE run' = [run EXCEPT ![b].text = [of |-> b, upto |-> f.upto]]
        BY <4>1, <1>p DEF Runs
      <4>2. CASE run' = [run EXCEPT ![b].committed = @ \cup {<<b, f.upto>>}]
        BY <4>2, <1>p DEF Runs
      <4> QED BY <3>3, <4>1, <4>2
    <3>7. \A t \in Turns : Spoken(t)' = Spoken(t)
      BY <3>6, <2>1 DEF Spoken
    <3>8. EventsMine' /\ Full' /\ AllStreamed'
      <4>1. EventsMine'
        BY <3>4, <3>5, <2>1 DEF EventsMine
      <4>2. Spoken(b)' = Spoken(b)
        BY <3>1, <3>7
      <4>3. Full'
        <5> SUFFICES ASSUME "silent" \notin faults, NEW t \in Turns, Active(t)',
                            NEW k \in 1..Spoken(t)'
                     PROVE  <<t, k>> \in run'[t].committed \/ Pending(t, k)'
          BY DEF Full
        <5>1. t = b /\ k \in 1..Spoken(b)
          BY <3>5, <3>7
        <5> QED BY <5>1, <3>4
      <4>4. AllStreamed'
        <5> SUFFICES ASSUME "mute" \notin faults, NEW t \in Turns, Active(t)', Spoken(t)' > 0
                     PROVE  Streamed(t)'
          BY DEF AllStreamed
        <5>1. t = b /\ Spoken(b) > 0
          BY <3>5, <3>7
        <5> QED BY <5>1, <3>4
      <4> QED BY <4>1, <4>3, <4>4
    <3>9. HistoryFirst'
      <4> SUFFICES ASSUME NEW t \in Turns, pc'[t] = "history"
                   PROVE  run'[t].committed = {} /\ ("silent" \notin faults => Spoken(t)' = 0)
        BY DEF HistoryFirst
      <4>1. t # b /\ pc[t] = "history"
        BY <3>1, <2>1 DEF Active
      <4> QED BY <4>1, <3>6, <3>7, <1>d DEF HistoryFirst
    <3>10. Subscribed'
      BY <2>1, <1>d DEF Subscribed, Mine
    <3>11. OwnWords' /\ (\A t \in Turns : ("silent" \in faults => run'[t].committed = {}) /\
                                           ("mute" \in faults => run'[t].text = NoText))
      <4>1. ("silent" \in faults => f.kind # "message") /\ ("mute" \in faults => f.kind # "chat")
        BY <2>2, <2>6, <1>d DEF NoMessages, NoChats
      <4>2. CASE f.kind = "chat" /\ run' = [run EXCEPT ![b].text = [of |-> b, upto |-> f.upto]]
        BY <4>1, <4>2, <3>1, <1>p, <1>d DEF OwnWords, NoMessages, NoChats, Runs
      <4>3. CASE f.kind = "message" /\ run' = [run EXCEPT ![b].committed = @ \cup {<<b, f.upto>>}]
        BY <4>1, <4>3, <3>1, <1>p, <1>d DEF OwnWords, NoMessages, NoChats, Runs
      <4> QED BY <3>3, <4>2, <4>3
    <3>12. NoMessages' /\ NoChats'
      <4>1. NoMessages'
        BY <2>k, <3>11, <1>d DEF NoMessages
      <4>2. NoChats'
        BY <2>k, <3>11, <1>d DEF NoChats
      <4> QED BY <4>1, <4>2
    <3> QED BY <3>8, <3>9, <3>10, <3>11, <3>12 DEF Delivery
  <2>7. CASE a = NoTurn
    <3>1. \A t \in Turns : ~Active(t)
      BY <2>7, NoTurnAssumption DEF Control, HasSlot, Active
    <3> QED BY <1>8, <2>5, <2>7, <3>1 DEF Event
  <2>8. CASE a # NoTurn /\ ~Matches(e.of, a)
    <3>1. \A t \in Turns : Active(t) => t = a
      BY DEF Control, HasSlot, Active
    <3>2. thid[a] # th
      BY <2>3, <2>8 DEF Matches
    <3> QED BY <1>8, <2>5, <2>8, <3>1, <3>2 DEF Event
  <2>9. CASE a # NoTurn /\ Matches(e.of, a)
    BY <2>6, <2>9 DEF TypeOK
  <2> QED BY <2>7, <2>8, <2>9
<1>9. ASSUME NEW u \in Turns, RunSays(u) PROVE Delivery'
  <2>1. UNCHANGED <<pc, thid, run, subscribed>> /\ job[u] = "running"
    BY <1>9 DEF RunSays
  <2>2. Active(u) /\ Mine(u) /\ Underway(u) /\ link = "ready"
    BY <2>1 DEF Control, JobRuns, Connected, Active, Mine, Underway, Ended
  <2>3. Said(u) = Spoken(u) /\ Spoken(u) \in Nat
    BY <2>2, RecordedCount DEF Recording
  <2>4. /\ \A i \in 1..Len(events'[thid[u]]) : events'[thid[u]][i].of = u
        /\ \A th \in Threads : \A i \in 1..Len(events'[th]) :
             \/ \E j \in 1..Len(events[th]) : events'[th][i] = events[th][j]
             \/ "mute" \notin faults /\ events'[th][i] = ChatOf(u, Spoken(u) + 1)
             \/ "silent" \notin faults /\ events'[th][i] = MessageOf(u, Spoken(u) + 1)
        /\ "silent" \notin faults =>
             \A k \in 1..Spoken(u)' : <<u, k>> \in run'[u].committed \/ Pending(u, k)'
        /\ "mute" \notin faults /\ Spoken(u)' > 0 => Streamed(u)'
    BY <1>9, <2>2, <2>3, SaysMore
  <2>5. \A t \in Turns : t # u => ~Active(t)' /\ pc'[t] # "history"
    BY <2>1, <2>2, OthersRest DEF Active
  <2>6. EventsMine' /\ Full' /\ AllStreamed'
    BY <2>1, <2>4, <2>5 DEF EventsMine, Full, AllStreamed
  <2>7. HistoryFirst'
    BY <2>1, <2>2, <2>5 DEF HistoryFirst, Active
  <2>8. Subscribed' /\ OwnWords'
    BY <2>1, <1>d DEF Subscribed, OwnWords, Mine
  <2>9. NoMessages' /\ NoChats'
    <3>1. ChatOf(u, Spoken(u) + 1).kind = "chat" /\ MessageOf(u, Spoken(u) + 1).kind = "message"
      BY DEF ChatOf, MessageOf
    <3> QED BY <3>1, <2>1, <2>4, <1>d DEF NoMessages, NoChats
  <2> QED BY <2>6, <2>7, <2>8, <2>9 DEF Delivery
<1>10. ASSUME NEW u \in Turns, RunStarts(u) \/ RunEnds(u) PROVE Delivery'
  BY <1>10, <1>1 DEF RunStarts, RunEnds
<1>11. ASSUME NEW th \in Threads, OpensThread(th) PROVE Delivery'
  BY <1>11, <1>1 DEF OpensThread
<1>12. CASE LinkReady \/ WalletConnects \/ ClosesThread \/ UNCHANGED vars
  BY <1>12, <1>1 DEF LinkReady, WalletConnects, ClosesThread, vars
<1> QED
  BY <1>3, <1>4, <1>5, <1>6, <1>7, <1>8, <1>9, <1>10, <1>11, <1>12 DEF Next, TurnStep, GatewayStep

-----------------------------------------------------------------------------
(* What the wallet shows.                                                  *)

Shown(s) == \E b \in bubbles : s \in b.segments
ShowsMessage(b, s) == b = Bubble(thid[s[1]], [message |-> s], {s}) /\ s \in run[s[1]].committed
ShowsTurn(b, t) ==
  /\ pc[t] \in Ended /\ b.mid = [turn |-> t]
  /\ b.segments # {} => run[t].committed = {} /\ \A s \in b.segments : s[1] = t
Known(b) == (\E s \in Segments : ShowsMessage(b, s)) \/ (\E t \in Turns : ShowsTurn(b, t))
AnsweredShown(t) ==
  /\ Said(t) > 0 => Shown(<<t, Said(t)>>)
  /\ "silent" \notin faults => \A k \in 1..Said(t) : Shown(<<t, k>>)

CommittedShown == \A t \in Turns : \A s \in run[t].committed : Shown(s)
AllKnown == \A b \in bubbles : Known(b)
OnePerTurn ==
  \A t \in Turns : \A b, c \in bubbles : b.mid = [turn |-> t] /\ c.mid = [turn |-> t] => b = c
AllAnswered == \A t \in Turns : pc[t] = "answered" => AnsweredShown(t)
Display == CommittedShown /\ AllKnown /\ OnePerTurn /\ AllAnswered

LEMMA InitDisplay == Init => Display
  BY DEF Init, Display, CommittedShown, AllKnown, OnePerTurn, AllAnswered, FreshRun

\* A turn that has ended is over: nothing changes it.
LEMMA EndedStays ==
  ASSUME TypeOK, Control, [Next]_vars, ~LinkCloses, NEW t \in Turns
  PROVE  /\ pc[t] \in Ended => pc'[t] = pc[t] /\ run'[t] = run[t]
         /\ run[t].committed \subseteq run'[t].committed
<1>p. pc \in [Turns -> Labels] /\ run \in [Turns -> Runs]
  BY DEF TypeOK, Runs
<1> USE DEF turnVars, slotVars, gateVars, shownVars
<1>1. CASE UNCHANGED <<pc, run>>
  BY <1>1
<1>2. ASSUME NEW u \in Turns, NEW l, Goto(u, l), pc[u] \notin Ended, UNCHANGED run
      PROVE  pc[t] \in Ended => pc'[t] = pc[t]
  BY <1>2, <1>p DEF Goto
<1>3. ASSUME NEW u \in Turns, Ignored(u) \/ Inbound(u) \/ Ready(u) \/ AgentAnswers(u)
             \/ AgentFails(u)
                              \/ RunDone(u) \/ RunFails(u) \/ HistoryReply(u) \/ HistoryFails(u)
      PROVE  UNCHANGED run /\ (pc[t] \in Ended => pc'[t] = pc[t])
  <2>1. UNCHANGED run /\ pc[u] \notin Ended /\ \E l : Goto(u, l)
    BY <1>3 DEF Ignored, Inbound, Ready, AgentAnswers, AgentFails, RunDone, RunFails, HistoryReply,
       HistoryFails, Ended
  <2> QED BY <2>1, <1>2
<1>4. ASSUME NEW u \in Turns, GraceElapses(u)
      PROVE  UNCHANGED run /\ (pc[t] \in Ended => pc'[t] = pc[t])
  <2>1. UNCHANGED run /\ pc[u] \notin Ended /\ \E l : Goto(u, l)
    BY <1>4 DEF GraceElapses, FinalizeRun, Ended
  <2> QED BY <2>1, <1>2
<1>5. ASSUME NEW u \in Turns, CallAgent(u)
      PROVE  /\ pc[t] \in Ended => pc'[t] = pc[t] /\ run'[t] = run[t]
             /\ run[t].committed = run'[t].committed
  <2>1. /\ pc[u] = "subscribing" /\ Goto(u, "agent") /\ \E since : Start(u, since)
    BY <1>5 DEF CallAgent
  <2>2. u # t => pc'[t] = pc[t] /\ run'[t] = run[t]
    BY <2>1, <1>p DEF Goto, Start
  <2>3. run'[t].committed = run[t].committed
    BY <2>1, <1>p DEF Start, Runs
  <2> QED BY <2>1, <2>2, <2>3 DEF Ended
<1>6. ASSUME NEW th \in Threads, Event(th)
      PROVE  /\ pc'[t] = pc[t] /\ (pc[t] \in Ended => run'[t] = run[t])
             /\ run[t].committed \subseteq run'[t].committed
  <2>1. UNCHANGED pc
    BY <1>6 DEF Event
  <2>2. \/ UNCHANGED run
        \/ \E text : run' = [run EXCEPT ![activeRun].text = text]
        \/ \E s : run' = [run EXCEPT ![activeRun].committed = @ \cup {s}]
    BY <1>6 DEF Event, Typing, CommitSegment
  <2>3. pc[t] \in Ended => activeRun # t
    BY DEF Control, HasSlot, Ended
  <2>4. ASSUME NEW text, run' = [run EXCEPT ![activeRun].text = text]
        PROVE  (activeRun # t => run'[t] = run[t]) /\ run'[t].committed = run[t].committed
    BY <2>4, <1>p DEF Runs
  <2>5. ASSUME NEW s, run' = [run EXCEPT ![activeRun].committed = @ \cup {s}]
        PROVE  (activeRun # t => run'[t] = run[t]) /\ run[t].committed \subseteq run'[t].committed
    BY <2>5, <1>p DEF Runs
  <2> QED BY <2>1, <2>2, <2>3, <2>4, <2>5
<1>7. ASSUME NEW u \in Turns, GatewayStep(u) PROVE UNCHANGED <<pc, run>>
  BY <1>7 DEF GatewayStep, RunStarts, RunSays, RunEnds
<1>8. ASSUME NEW th \in Threads, OpensThread(th) PROVE UNCHANGED <<pc, run>>
  BY <1>8 DEF OpensThread
<1>9. CASE LinkReady \/ WalletDisconnects \/ WalletConnects \/ ClosesThread \/ UNCHANGED vars
  BY <1>1, <1>9 DEF LinkReady, WalletDisconnects, WalletConnects, ClosesThread, vars
<1> QED BY <1>1, <1>3, <1>4, <1>5, <1>6, <1>7, <1>8, <1>9 DEF Next, TurnStep

\* Nor does its run say more.
LEMMA SaidStays ==
  ASSUME TypeOK, Control, [Next]_vars, NEW t \in Turns, pc[t] \in Ended \cup {"grace", "history"}
  PROVE  Said(t)' = Said(t)
<1>p. transcript \in [Threads -> Seq(Segments)] /\ thid \in [Turns -> Threads]
  BY DEF TypeOK
<1>1. thid'[t] = thid[t]
  BY TurnStays DEF Ended
<1>2. CASE UNCHANGED transcript
  BY <1>1, <1>2 DEF Said
<1>3. ASSUME NEW u \in Turns, RunSays(u) PROVE Said(t)' = Said(t)
  <2>1. pc[u] = "wait"
    BY <1>3 DEF RunSays, Control, JobRuns
  <2>2. u # t
    BY <2>1 DEF Ended
  <2> DEFINE old == transcript[thid[t]]
             new == transcript'[thid[t]]
             k == Said(u) + 1
  <2>3. old \in Seq(Segments) /\ (new = old \/ new = Append(old, <<u, k>>))
    BY <1>3, <1>p DEF RunSays
  <2> HIDE DEF old, new, k
  <2>4. {i \in 1..Len(new) : new[i][1] = t} = {i \in 1..Len(old) : old[i][1] = t}
    <3>1. CASE new = old
      BY <3>1
    <3>2. CASE new = Append(old, <<u, k>>)
      <4>1. Len(new) = Len(old) + 1 /\ Len(old) \in Nat /\ new[Len(old) + 1] = <<u, k>>
            /\ \A i \in 1..Len(old) : new[i] = old[i]
        BY <3>2, <2>3
      <4>2. new[Len(old) + 1][1] # t
        BY <4>1, <2>2
      <4>3. \A i : i \in 1..Len(new) <=> i \in 1..Len(old) \/ i = Len(old) + 1
        BY <4>1
      <4> QED BY <4>1, <4>2, <4>3
    <3> QED BY <2>3, <3>1, <3>2
  <2> QED BY <2>4, <1>1 DEF Said, old, new
<1>4. ASSUME NEW u \in Turns, TurnStep(u) \/ RunStarts(u) \/ RunEnds(u) PROVE UNCHANGED transcript
  BY <1>4 DEF TurnStep, Ignored, Inbound, Ready, CallAgent, AgentAnswers, AgentFails, RunDone,
     RunFails, GraceElapses, HistoryReply, HistoryFails, RunStarts, RunEnds, gateVars
<1>5. ASSUME NEW th \in Threads, Event(th) \/ OpensThread(th) PROVE UNCHANGED transcript
  BY <1>5 DEF Event, OpensThread, gateVars
<1>6. CASE LinkReady \/ LinkCloses \/ WalletDisconnects \/ WalletConnects \/ ClosesThread
           \/ UNCHANGED vars
  BY <1>2, <1>6 DEF LinkReady, LinkCloses, WalletDisconnects, WalletConnects, ClosesThread,
     vars, gateVars
<1> QED BY <1>2, <1>3, <1>4, <1>5, <1>6 DEF Next, GatewayStep

\* It is enough to look at the bubbles a step adds.
LEMMA DisplayGrows ==
  ASSUME TypeOK, Owned, Control, Display, [Next]_vars, ~LinkCloses, UNCHANGED faults,
         bubbles \subseteq bubbles',
         \A b \in bubbles' \ bubbles :
           /\ Known(b)'
           /\ \A t \in Turns : b.mid = [turn |-> t] =>
                pc[t] \notin Ended /\ \A c \in bubbles' \ bubbles : c = b,
         \A t \in Turns : \A s \in run'[t].committed : s \in run[t].committed \/ Shown(s)',
         \A t \in Turns : pc'[t] = "answered" => pc[t] = "answered" \/ AnsweredShown(t)'
  PROVE  Display'
<1>d. CommittedShown /\ AllKnown /\ OnePerTurn /\ AllAnswered
  BY DEF Display
<1>1. \A s : Shown(s) => Shown(s)'
  BY DEF Shown
<1>2. CommittedShown'
  BY <1>1, <1>d DEF CommittedShown
<1>3. AllKnown'
  <2> SUFFICES ASSUME NEW b \in bubbles PROVE Known(b)'
    BY DEF AllKnown
  <2>1. CASE \E s \in Segments : ShowsMessage(b, s)
    <3>1. PICK s \in Segments : ShowsMessage(b, s)
      BY <2>1
    <3>2. b.thid = thid[s[1]] /\ b.segments = {s} /\ s[1] \in Turns
      BY <3>1 DEF ShowsMessage, Bubble, Segments
    <3>3. pc[s[1]] # "new"
      BY <3>2 DEF Owned, OwnBubbles, Of
    <3>4. thid'[s[1]] = thid[s[1]]
      BY <3>2, <3>3, TurnStays
    <3>5. s \in run'[s[1]].committed
      BY <3>1, <3>2, EndedStays DEF ShowsMessage
    <3> QED BY <3>1, <3>4, <3>5 DEF Known, ShowsMessage
  <2>2. CASE \E t \in Turns : ShowsTurn(b, t)
    <3>1. PICK t \in Turns : ShowsTurn(b, t)
      BY <2>2
    <3>2. pc'[t] = pc[t] /\ run'[t] = run[t]
      BY <3>1, EndedStays DEF ShowsTurn
    <3> QED BY <3>1, <3>2 DEF Known, ShowsTurn
  <2> QED BY <2>1, <2>2, <1>d DEF AllKnown, Known
<1>4. OnePerTurn'
  <2>1. ASSUME NEW b \in bubbles, NEW t \in Turns, b.mid = [turn |-> t] PROVE pc[t] \in Ended
    <3>1. ASSUME NEW s \in Segments, ShowsMessage(b, s) PROVE FALSE
      <4>1. [turn |-> t] = [message |-> s]
        BY <2>1, <3>1 DEF ShowsMessage, Bubble
      <4>2. DOMAIN [turn |-> t] = {"turn"} /\ DOMAIN [message |-> s] = {"message"}
        OBVIOUS
      <4> QED BY <4>1, <4>2
    <3>2. ASSUME NEW u \in Turns, ShowsTurn(b, u) PROVE pc[t] \in Ended
      <4>1. [turn |-> t].turn = [turn |-> u].turn
        BY <2>1, <3>2 DEF ShowsTurn
      <4> QED BY <4>1, <3>2 DEF ShowsTurn
    <3> QED BY <3>1, <3>2, <1>d DEF AllKnown, Known
  <2>2. ASSUME NEW t \in Turns, NEW b \in bubbles', NEW c \in bubbles', b.mid = [turn |-> t],
               c.mid = [turn |-> t]
        PROVE  b = c
    <3>1. CASE b \in bubbles /\ c \in bubbles
      BY <2>2, <3>1, <1>d DEF OnePerTurn
    <3>2. CASE b \notin bubbles /\ c \notin bubbles
      BY <2>2, <3>2
    <3>3. CASE b \in bubbles /\ c \notin bubbles
      BY <2>1, <2>2, <3>3
    <3>4. CASE b \notin bubbles /\ c \in bubbles
      BY <2>1, <2>2, <3>4
    <3> QED BY <3>1, <3>2, <3>3, <3>4
  <2> QED BY <2>2 DEF OnePerTurn
<1>5. AllAnswered'
  <2>1. ASSUME NEW t \in Turns, pc[t] = "answered" PROVE AnsweredShown(t)'
    <3>1. Said(t)' = Said(t)
      BY <2>1, SaidStays DEF Ended
    <3>2. AnsweredShown(t)
      BY <2>1, <1>d DEF AllAnswered
    <3> QED BY <3>1, <3>2, <1>1 DEF AnsweredShown
  <2> QED BY <2>1 DEF AllAnswered
<1> QED BY <1>2, <1>3, <1>4, <1>5 DEF Display

LEMMA FinalizeShows ==
  ASSUME TypeOK, walletUp, NEW th, NEW mid, NEW segments, Finalize(th, mid, segments)
  PROVE  /\ bubbles' = bubbles \cup {Bubble(th, mid, segments)}
         /\ \A s \in segments : Shown(s)'
<1>1. bubbles' = bubbles \cup {Bubble(th, mid, segments)}
  BY DEF Finalize
<1>2. Bubble(th, mid, segments).segments = segments
  BY DEF Bubble
<1> QED BY <1>1, <1>2 DEF Shown

LEMMA StepDisplay ==
  ASSUME TypeOK, Owned, Control, Recording, Delivery, Display, [Next]_vars, Steady,
         UNCHANGED faults,
         ~LinkCloses, ~WalletDisconnects
  PROVE  Display'
<1>p. /\ pc \in [Turns -> Labels] /\ thid \in [Turns -> Threads] /\ run \in [Turns -> Runs]
      /\ transcript \in [Threads -> Seq(Segments)] /\ events \in [Threads -> Seq(Events)]
  BY DEF TypeOK, Runs, Events
<1>d. CommittedShown /\ AllKnown /\ OnePerTurn /\ AllAnswered
  BY DEF Display
<1>w. walletUp
  BY DEF Control, Connected
<1> USE DEF turnVars, slotVars, gateVars, shownVars
<1>1. ASSUME UNCHANGED bubbles, \A t \in Turns : run'[t].committed = run[t].committed,
             \A t \in Turns : pc'[t] = "answered" => pc[t] = "answered" \/ AnsweredShown(t)'
      PROVE  Display'
  BY <1>1, DisplayGrows
\* The one bubble a turn ends with.
<1>2. ASSUME NEW t \in Turns, NEW l \in Ended, NEW segments, Goto(t, l), pc[t] \notin Ended,
             Finalize(thid[t], [turn |-> t], segments), UNCHANGED <<run, thid>>,
             segments # {} => run[t].committed = {} /\ \A s \in segments : s[1] = t,
             l = "answered" => AnsweredShown(t)'
      PROVE  Display'
  <2>0. PICK b : b = Bubble(thid[t], [turn |-> t], segments)
    OBVIOUS
  <2>1. b.mid = [turn |-> t] /\ b.segments = segments
    BY <2>0 DEF Bubble
  <2>2. bubbles' = bubbles \cup {b}
    BY <1>2, <1>w, <2>0, FinalizeShows
  <2>3. pc'[t] = l /\ \A u \in Turns : u # t => pc'[u] = pc[u]
    BY <1>2, <1>p DEF Goto
  <2>4. Known(b)'
    BY <1>2, <2>1, <2>3 DEF Known, ShowsTurn
  <2>5. \A u \in Turns : b.mid = [turn |-> u] => u = t
    <3>1. ASSUME NEW u \in Turns, [turn |-> t] = [turn |-> u] PROVE u = t
      <4>1. [turn |-> t].turn = [turn |-> u].turn
        BY <3>1
      <4> QED BY <4>1
    <3> QED BY <2>1, <3>1
  <2> QED BY <1>2, <2>2, <2>3, <2>4, <2>5, DisplayGrows
<1>3. ASSUME NEW t \in Turns, Ignored(t) \/ Inbound(t) \/ Ready(t) \/ RunDone(t) PROVE Display'
  <2>1. UNCHANGED <<bubbles, run>>
    BY <1>3, <1>w DEF Ignored, Inbound, Ready, RunDone, Control, Connected, Discard
  <2>2. \A u \in Turns : pc'[u] = "answered" => pc[u] = "answered"
    BY <1>3, <1>p DEF Ignored, Inbound, Ready, RunDone, Goto
  <2> QED BY <2>1, <2>2, <1>1
<1>4. ASSUME NEW t \in Turns, CallAgent(t) PROVE Display'
  <2>1. Goto(t, "agent") /\ UNCHANGED bubbles /\ \E since : Start(t, since)
    BY <1>4 DEF CallAgent
  <2>2. \A u \in Turns : (pc'[u] = "answered" => pc[u] = "answered")
          /\ run'[u].committed = run[u].committed
    BY <2>1, <1>p DEF Goto, Start, Runs
  <2> QED BY <2>1, <2>2, <1>1
<1>5. ASSUME NEW t \in Turns, AgentAnswers(t) PROVE Display'
  <2>1. UNCHANGED <<bubbles, run>> /\ Goto(t, "wait")
    BY <1>5 DEF AgentAnswers
  <2>2. \A u \in Turns : pc'[u] = "answered" => pc[u] = "answered"
    BY <2>1, <1>p DEF Goto
  <2> QED BY <2>1, <2>2, <1>1
<1>6. ASSUME NEW t \in Turns, AgentFails(t) \/ RunFails(t) PROVE Display'
  <2>1. Goto(t, "failed") /\ Failure(t) /\ UNCHANGED <<run, thid>> /\ pc[t] \notin Ended
    BY <1>6 DEF AgentFails, RunFails, Ended
  <2> QED BY <2>1, <1>2 DEF Failure, Ended
<1>7. ASSUME NEW t \in Turns, GraceElapses(t) PROVE Display'
  <2>1. /\ pc[t] = "grace" /\ UNCHANGED <<run, thid, transcript>> /\ FinalizeRun(t)
        /\ events[thid[t]] = <<>> /\ Active(t) /\ Mine(t) /\ pc[t] \notin Ended
    BY <1>7 DEF GraceElapses, InOrder, Steady, Active, Mine, Ended
  <2>2. Said(t) = Spoken(t) /\ Spoken(t) \in Nat
    BY <2>1, RecordedCount DEF Recording
  <2>3. Said(t)' = Said(t)
    BY <2>1, SaidStays
  <2>4. \A k : ~Pending(t, k)
    BY <2>1 DEF Pending
  <2>5. "silent" \notin faults => \A k \in 1..Spoken(t) : <<t, k>> \in run[t].committed
    BY <2>1, <2>4 DEF Delivery, Full
  <2>6. CASE run[t].committed # {} /\ Goto(t, "answered") /\ Discard(thid[t])
    <3>1. "silent" \notin faults
      BY <2>6 DEF Delivery, NoMessages
    <3>2. UNCHANGED bubbles
      BY <2>6 DEF Discard
    <3>3. \A k \in 1..Said(t) : Shown(<<t, k>>)'
      BY <3>1, <3>2, <2>2, <2>5, <1>d DEF CommittedShown, Shown
    <3>4. AnsweredShown(t)'
      BY <3>3, <2>2, <2>3 DEF AnsweredShown
    <3>5. \A u \in Turns : pc'[u] = "answered" => pc[u] = "answered" \/ AnsweredShown(u)'
      BY <3>4, <2>6, <1>p DEF Goto
    <3> QED BY <3>2, <3>5, <2>1, <1>1
  <2>7. CASE /\ run[t].committed = {} /\ run[t].text # NoText
             /\ Goto(t, "answered") /\ Finalize(thid[t], [turn |-> t], SegmentsOf(run[t].text))
    <3>1. \A s \in SegmentsOf(run[t].text) : s[1] = t /\ Shown(s)'
      <4>1. \A s \in SegmentsOf(run[t].text) : s[1] = run[t].text.of
        BY <1>p, TextSegments DEF Runs
      <4>2. run[t].text.of = t
        BY <2>7 DEF Delivery, OwnWords
      <4> QED BY <4>1, <4>2, <2>7, <1>w, FinalizeShows
    <3>2. "silent" \notin faults => Said(t) = 0
      BY <2>2, <2>5, <2>7
    <3>3. ASSUME NEW n, n = Said(t), n > 0 PROVE Shown(<<t, n>>)'
      <4>1. "mute" \notin faults
        BY <2>7 DEF Delivery, NoChats
      <4>2. Streamed(t)
        BY <3>3, <4>1, <2>1, <2>2 DEF Delivery, AllStreamed
      <4>3. run[t].text = [of |-> t, upto |-> Spoken(t)]
        BY <4>2, <2>1 DEF Streamed
      <4>4. <<t, n>> \in SegmentsOf(run[t].text)
        BY <4>3, <3>3, <2>2 DEF SegmentsOf
      <4> QED BY <4>4, <3>1
    <3>4. AnsweredShown(t)'
      BY <3>2, <3>3, <2>2, <2>3 DEF AnsweredShown
    <3> QED BY <3>1, <3>4, <2>1, <2>7, <1>2 DEF Ended
  <2>8. CASE Goto(t, "history") /\ UNCHANGED shownVars
    <3>1. \A u \in Turns : pc'[u] = "answered" => pc[u] = "answered"
      BY <2>8, <1>p DEF Goto
    <3> QED BY <3>1, <2>1, <2>8, <1>1
  <2>9. link # "none"
    BY DEF Control, Connected
  <2> QED BY <2>1, <2>6, <2>7, <2>8, <2>9 DEF FinalizeRun
<1>8. ASSUME NEW t \in Turns, HistoryReply(t) PROVE Display'
  <2> DEFINE said == transcript[thid[t]]
  <2>1. /\ pc[t] = "history" /\ UNCHANGED <<run, thid>> /\ Mine(t) /\ pc[t] \notin Ended
        /\ Goto(t, "answered")
        /\ IF Len(said) > run[t].since THEN Finalize(thid[t], [turn |-> t], {said[Len(said)]})
           ELSE Discard(thid[t])
    BY <1>8 DEF HistoryReply, Mine, Ended
  <2>2. Said(t) = Spoken(t) /\ Spoken(t) \in Nat /\ Said(t)' = Said(t)
    BY <2>1, RecordedCount, SaidStays DEF Recording
  <2>3. run[t].committed = {} /\ ("silent" \notin faults => Said(t) = 0)
    BY <2>1, <2>2 DEF Delivery, HistoryFirst
  <2>4. Len(said) \in Nat /\ run[t].since \in Nat
    BY <1>p DEF Runs
  <2>5. CASE Len(said) > run[t].since
    <3>1. said[Len(said)] = <<t, Said(t)>>
      <4>1. Len(said) \in 1..Len(said) /\ ~(Len(said) <= run[t].since)
        BY <2>4, <2>5
      <4>2. Recorded(t)
        BY <2>1 DEF Recording
      <4> QED BY <4>1, <4>2, <2>2 DEF Recorded, Spoken
    <3> PICK n : n = Said(t)
      OBVIOUS
    <3>2. Finalize(thid[t], [turn |-> t], {<<t, n>>})
      BY <2>1, <2>5, <3>1
    <3>3. Shown(<<t, n>>)'
      BY <3>2, <1>w, FinalizeShows
    <3>4. AnsweredShown(t)'
      BY <3>3, <2>2, <2>3 DEF AnsweredShown
    <3>5. "answered" \in Ended /\ \A s \in {<<t, n>>} : s[1] = t
      BY DEF Ended
    <3>6. Goto(t, "answered") /\ pc[t] \notin Ended /\ UNCHANGED <<run, thid>>
          /\ run[t].committed = {}
      BY <2>1, <2>3
    <3> QED BY <3>2, <3>4, <3>5, <3>6, <1>2
  <2>6. CASE ~(Len(said) > run[t].since)
    <3>1. Said(t) = 0
      BY <2>2, <2>4, <2>6 DEF Spoken
    <3>2. AnsweredShown(t)'
      BY <3>1, <2>2 DEF AnsweredShown
    <3>3. UNCHANGED bubbles
      BY <2>1, <2>6 DEF Discard
    <3>4. \A u \in Turns : pc'[u] = "answered" => pc[u] = "answered" \/ AnsweredShown(u)'
      BY <3>2, <2>1, <1>p DEF Goto
    <3> QED BY <3>3, <3>4, <2>1, <1>1
  <2> QED BY <2>5, <2>6
<1>9. ASSUME NEW t \in Turns, HistoryFails(t) PROVE FALSE
  BY <1>9 DEF HistoryFails, Control, Connected, Mine, Steady
<1>10. ASSUME NEW th \in Threads, Event(th) PROVE Display'
  <2>1. UNCHANGED <<pc, thid>>
    BY <1>10 DEF Event
  <2>2. CASE UNCHANGED bubbles /\ \A t \in Turns : run'[t].committed = run[t].committed
    BY <2>1, <2>2, <1>1
  <2>3. ASSUME NEW b \in Turns, b = activeRun, NEW e \in Events, e = Head(events[th]),
               Matches(e.of, b)
        PROVE  Display'
    <3>1. Active(b) /\ th = thid[b] /\ events[th] # <<>> /\ events[th] \in Seq(Events)
      <4>1. events[th] # <<>> /\ events[th] \in Seq(Events)
        BY <1>10, <1>p DEF Event
      <4>2. 1 \in 1..Len(events[th]) /\ e = events[th][1]
        BY <2>3, <4>1
      <4>3. thid[e.of] = th
        BY <4>2 DEF Owned, OwnEvents, Of
      <4> QED BY <4>1, <4>3, <2>3 DEF Control, HasSlot, Active, Matches
    <3>2. e.of = b
      <4>1. 1 \in 1..Len(events[th]) /\ e = events[th][1]
        BY <2>3, <3>1
      <4> QED BY <4>1, <3>1 DEF Delivery, EventsMine
    <3>3. CASE Typing(b, [of |-> e.of, upto |-> e.upto])
      <4>1. UNCHANGED bubbles /\ \A t \in Turns : run'[t].committed = run[t].committed
        BY <3>3, <1>p DEF Typing, Runs
      <4> QED BY <4>1, <2>2
    <3>4. CASE CommitSegment(b, <<b, e.upto>>)
      <4> DEFINE s == <<b, e.upto>>
      <4>1. CASE s \in run[b].committed
        BY <3>4, <4>1, <2>2 DEF CommitSegment
      <4>2. CASE s \notin run[b].committed
        <5>1. s \in Segments /\ s[1] = b
          BY DEF Segments, Events
        <5>2. run' = [run EXCEPT ![b].committed = @ \cup {s}]
              /\ Finalize(thid[b], [message |-> s], {s})
          BY <3>4, <4>2 DEF CommitSegment
        <5> HIDE DEF s
        <5>0. PICK new : new = Bubble(thid[b], [message |-> s], {s})
          OBVIOUS
        <5>3. bubbles' = bubbles \cup {new} /\ Shown(s)'
          BY <5>0, <5>2, <1>w, FinalizeShows
        <5>4. /\ run'[b].committed = run[b].committed \cup {s}
              /\ \A t \in Turns : t # b => run'[t] = run[t]
          BY <5>2, <1>p DEF Runs
        <5>5. Known(new)'
          BY <5>0, <5>1, <5>4, <2>1 DEF Known, ShowsMessage
        <5>6. \A t \in Turns : new.mid # [turn |-> t]
          <6>1. ASSUME NEW t \in Turns, [message |-> s] = [turn |-> t] PROVE FALSE
            <7>1. DOMAIN [turn |-> t] = {"turn"} /\ DOMAIN [message |-> s] = {"message"}
              OBVIOUS
            <7> QED BY <6>1, <7>1
          <6> QED BY <6>1, <5>0 DEF Bubble
        <5>7. \A t \in Turns : \A x \in run'[t].committed : x \in run[t].committed \/ Shown(x)'
          BY <5>3, <5>4
        <5> QED BY <5>3, <5>5, <5>6, <5>7, <2>1, DisplayGrows
      <4> QED BY <4>1, <4>2
    <3> QED BY <1>10, <2>2, <2>3, <3>2, <3>3, <3>4 DEF Event
  <2>4. Head(events[th]) \in Events
    BY <1>10, <1>p DEF Event
  <2>5. CASE activeRun # NoTurn /\ Matches(Head(events[th]).of, activeRun)
    BY <2>3, <2>4, <2>5 DEF TypeOK
  <2>6. CASE ~(activeRun # NoTurn /\ Matches(Head(events[th]).of, activeRun))
    BY <1>10, <2>2, <2>6 DEF Event
  <2> QED BY <2>5, <2>6
<1>11. ASSUME NEW u \in Turns, GatewayStep(u) PROVE Display'
  BY <1>11, <1>1 DEF GatewayStep, RunStarts, RunSays, RunEnds
<1>12. ASSUME NEW th \in Threads, OpensThread(th) PROVE Display'
  BY <1>12, <1>1 DEF OpensThread
<1>13. CASE LinkReady \/ WalletConnects \/ ClosesThread \/ UNCHANGED vars
  BY <1>13, <1>1 DEF LinkReady, WalletConnects, ClosesThread, vars
<1> QED
  BY <1>3, <1>4, <1>5, <1>6, <1>7, <1>8, <1>9, <1>10, <1>11, <1>12, <1>13 DEF Next, TurnStep

-----------------------------------------------------------------------------
(* The invariant, and what it says.                                        *)

Calm == Control /\ Recording /\ Delivery /\ Display
Inv == TypeOK /\ Owned /\ (Steady => Calm)

LEMMA Invariance == Spec => []Inv
<1>1. Init => Inv
  BY InitTypes, InitOwned, InitControl, InitRecording, InitDelivery, InitDisplay DEF Inv, Calm
<1>2. Inv /\ [Next]_vars => Inv'
  <2> SUFFICES ASSUME Inv, [Next]_vars PROVE Inv'
    OBVIOUS
  <2>1. TypeOK' /\ Owned'
    BY StepTypes, StepOwned DEF Inv
  <2>2. ASSUME Steady' PROVE Calm'
    <3>1. Steady /\ UNCHANGED faults /\ ~LinkCloses /\ ~WalletDisconnects
      BY <2>2, SteadyStays
    <3>2. TypeOK /\ Owned /\ Control /\ Recording /\ Delivery /\ Display
      BY <3>1 DEF Inv, Calm
    <3>3. Control' /\ Recording'
      BY <3>1, <3>2, StepControl, StepRecording
    <3>4. Delivery' /\ Display'
      BY <3>1, <3>2, StepDelivery, StepDisplay
    <3> QED BY <3>3, <3>4 DEF Calm
  <2> QED BY <2>1, <2>2 DEF Inv
<1> QED BY <1>1, <1>2, PTL DEF Spec

\* No segment is in two bubbles: a message bubble stands for a segment its run
\* committed, the bubble a turn ends with is there only if it committed none.
LEMMA OnceShown ==
  ASSUME Owned, AllKnown, OnePerTurn, NEW b \in bubbles, NEW c \in bubbles,
         NEW s \in b.segments, s \in c.segments
  PROVE  b = c
<1>1. Known(b) /\ Known(c)
  BY DEF AllKnown
<1>2. ASSUME NEW x \in bubbles, NEW m \in Segments, ShowsMessage(x, m) PROVE x.segments = {m}
  BY <1>2 DEF ShowsMessage, Bubble
<1>3. CASE \E m, n \in Segments : ShowsMessage(b, m) /\ ShowsMessage(c, n)
  BY <1>2, <1>3 DEF ShowsMessage
<1>4. ASSUME NEW x \in bubbles, NEW y \in bubbles, s \in x.segments, s \in y.segments,
             NEW m \in Segments, ShowsMessage(x, m), NEW t \in Turns, ShowsTurn(y, t)
      PROVE  FALSE
  <2>1. s = m /\ s[1] = t
    BY <1>2, <1>4 DEF ShowsTurn
  <2> QED BY <1>4, <2>1 DEF ShowsMessage, ShowsTurn
<1>5. CASE \E t, u \in Turns : ShowsTurn(b, t) /\ ShowsTurn(c, u)
  <2>1. PICK t \in Turns, u \in Turns : ShowsTurn(b, t) /\ ShowsTurn(c, u)
    BY <1>5
  <2>2. t = u
    BY <2>1 DEF ShowsTurn
  <2> QED BY <2>1, <2>2 DEF ShowsTurn, OnePerTurn
<1> QED BY <1>1, <1>3, <1>4, <1>5 DEF Known

\* Undisturbed, what a run said is shown in full; and as long as turns do not
\* overlap and nothing is late or lost, no part of it is shown twice, whether
\* the gateway sends messages, streams, or only records.
THEOREM CalmIsExactHolds == Spec => []CalmIsExact
<1>1. ASSUME Inv, faults = {} PROVE Complete
  <2>1. AllAnswered
    BY <1>1 DEF Inv, Steady, Calm, Display
  <2> QED BY <1>1, <2>1 DEF AllAnswered, AnsweredShown, Shown, Complete
<1>2. ASSUME Inv, Steady PROVE ShownOnce
  <2>1. Owned /\ AllKnown /\ OnePerTurn
    BY <1>2 DEF Inv, Calm, Display
  <2> QED BY <2>1, OnceShown DEF ShownOnce
<1>3. Inv => CalmIsExact
  BY <1>1, <1>2 DEF CalmIsExact, CalmIsComplete, CalmIsOnce
<1> QED BY <1>3, Invariance, PTL

\* A turn that was answered shows the last thing its run said, also if the
\* gateway sends no messages and only the stream or the history tells.
THEOREM LastIsShownHolds == Spec => []LastIsShown
<1>1. Inv => LastIsShown
  BY DEF Inv, Calm, Display, AllAnswered, AnsweredShown, Shown, LastIsShown
<1> QED BY <1>1, Invariance, PTL

-----------------------------------------------------------------------------
(***************************************************************************)
(* The cards of the same wallet (GatewayCards).  The arguments: CardTypes  *)
(* are the types; Filing says that cards, shown or on their way, are those *)
(* of calls that were made, filed where they were made, one each; Told     *)
(* that a result is read only after the child's end; Growing that the      *)
(* frames of a tool come in the order in which it put out, and that what   *)
(* is kept of its output is a beginning of it from which they go on: for   *)
(* deltas, as long as the slot hears of the tool, without a gap.           *)
(***************************************************************************)
\* What is assumed of the constants.
LEMMA CardsConstants ==
  /\ DefaultThid \in Threads /\ NoRun \notin Threads
  /\ Tools \cap Spawns = {} /\ Tools \cap Yields = {} /\ Spawns \cap Yields = {}
  /\ CallSets \subseteq SUBSET Calls
  /\ Cap \in Nat \ {0} /\ MaxOutput \in Nat /\ MaxWire \in Nat
  /\ Text \in [Tools -> [1..MaxOutput -> 1..MaxOutput]]
  BY ThreadsAssumption, NoRunAssumption, CallsAssumption, CallSetsAssumption, BoundsAssumption,
     TextAssumption

-----------------------------------------------------------------------------
(* Outputs.                                                                *)

Pieces == {More} \cup 1..MaxOutput

LEMMA PrefixIs ==
  ASSUME NEW S, NEW s \in Seq(S), NEW t \in Seq(S)
  PROVE  IsPrefix(s, t) <=> Len(s) <= Len(t) /\ \A i \in 1..Len(s) : s[i] = t[i]
<1>1. CASE Len(s) <= Len(t)
  <2> DEFINE a == SubSeq(s, 1, Len(s))
             b == SubSeq(t, 1, Len(s))
  <2>1. /\ a \in Seq(S) /\ Len(a) = Len(s) /\ \A i \in 1..Len(s) : a[i] = s[i]
        /\ b \in Seq(S) /\ Len(b) = Len(s) /\ \A i \in 1..Len(s) : b[i] = t[i]
    BY <1>1, SubSeqProperties
  <2>2. IsPrefix(s, t) <=> a = b
    BY <1>1 DEF IsPrefix
  <2> HIDE DEF a, b
  <2>3. (\A i \in 1..Len(s) : s[i] = t[i]) => a = b
    BY <2>1, SeqEqual
  <2> QED BY <1>1, <2>1, <2>2, <2>3
<1>2. CASE ~(Len(s) <= Len(t))
  BY <1>2 DEF IsPrefix
<1> QED BY <1>1, <1>2

LEMMA SuffixIs ==
  ASSUME NEW S, NEW s \in Seq(S), NEW t \in Seq(S)
  PROVE  IsSuffix(s, t) <=>
           Len(s) <= Len(t) /\ \A i \in 1..Len(s) : s[i] = t[Len(t) - Len(s) + i]
<1> DEFINE rs == Reverse(s)
           rt == Reverse(t)
<1>1. /\ rs \in Seq(S) /\ Len(rs) = Len(s) /\ \A i \in 1..Len(s) : rs[i] = s[Len(s) - i + 1]
      /\ rt \in Seq(S) /\ Len(rt) = Len(t) /\ \A i \in 1..Len(t) : rt[i] = t[Len(t) - i + 1]
  BY DEF Reverse
<1>2. IsSuffix(s, t) <=> IsPrefix(rs, rt)
  BY DEF IsSuffix
<1> HIDE DEF rs, rt
<1>3. IsPrefix(rs, rt) <=> Len(s) <= Len(t) /\ \A i \in 1..Len(s) : rs[i] = rt[i]
  BY <1>1, PrefixIs
<1>4. CASE Len(s) <= Len(t)
  <2>1. ASSUME \A i \in 1..Len(s) : rs[i] = rt[i], NEW i \in 1..Len(s)
        PROVE  s[i] = t[Len(t) - Len(s) + i]
    <3> DEFINE k == Len(s) - i + 1
    <3>1. /\ k \in 1..Len(s) /\ k \in 1..Len(t)
          /\ Len(s) - k + 1 = i /\ Len(t) - k + 1 = Len(t) - Len(s) + i
      BY <1>4
    <3> HIDE DEF k
    <3>2. rs[k] = s[Len(s) - k + 1] /\ rt[k] = t[Len(t) - k + 1]
      BY <1>1, <3>1
    <3> QED BY <2>1, <3>1, <3>2
  <2>2. ASSUME \A i \in 1..Len(s) : s[i] = t[Len(t) - Len(s) + i], NEW i \in 1..Len(s)
        PROVE  rs[i] = rt[i]
    <3> DEFINE k == Len(s) - i + 1
    <3>1. /\ k \in 1..Len(s) /\ i \in 1..Len(t)
          /\ Len(t) - Len(s) + k = Len(t) - i + 1
      BY <1>4
    <3>2. rs[i] = s[k] /\ rt[i] = t[Len(t) - i + 1]
      BY <1>1, <3>1
    <3> HIDE DEF k
    <3> QED BY <2>2, <3>1, <3>2
  <2> QED BY <1>2, <1>3, <1>4, <2>1, <2>2
<1>5. CASE ~(Len(s) <= Len(t))
  BY <1>2, <1>3, <1>5
<1> QED BY <1>4, <1>5

LEMMA PartIs ==
  ASSUME NEW c \in Tools, NEW from \in Nat \ {0}, NEW n \in 0..MaxOutput, from <= n + 1
  PROVE  /\ Part(c, from, n) \in Seq(1..MaxOutput) /\ Len(Part(c, from, n)) = n - from + 1
         /\ \A i \in 1..(n - from + 1) : Part(c, from, n)[i] = Text[c][from + i - 1]
<1>1. \A i \in from..n : Text[c][i] \in 1..MaxOutput
  BY CardsConstants
<1>2. from \in Int /\ n \in Int
  BY CardsConstants
<1> QED BY <1>1, <1>2, SubSeqProperties DEF Part

LEMMA WholeIs ==
  ASSUME NEW c \in Tools, NEW n \in 0..MaxOutput
  PROVE  /\ Part(c, 1, n) \in Seq(1..MaxOutput) /\ Len(Part(c, 1, n)) = n
         /\ \A i \in 1..n : Part(c, 1, n)[i] = Text[c][i] /\ Text[c][i] \in 1..MaxOutput
<1>1. \A i \in 1..n : Text[c][i] \in 1..MaxOutput
  BY CardsConstants
<1>2. n \in Int /\ 1 \in Int /\ n - 1 + 1 = n /\ n + 1 >= 1 /\ \A i \in 1..n : 1 + i - 1 = i
  BY CardsConstants
<1>3. /\ SubSeq(Text[c], 1, n) \in Seq(1..MaxOutput)
      /\ Len(SubSeq(Text[c], 1, n)) = IF 1 <= n THEN n - 1 + 1 ELSE 0
      /\ \A i \in 1..(n - 1 + 1) : SubSeq(Text[c], 1, n)[i] = Text[c][1 + i - 1]
  BY <1>1, <1>2, SubSeqProperties
<1>4. Len(SubSeq(Text[c], 1, n)) = n
  BY <1>2, <1>3, CardsConstants
<1> QED BY <1>1, <1>2, <1>3, <1>4 DEF Part

LEMMA OutputIs ==
  ASSUME Cap \in Nat, NEW out
  PROVE  out \in Outputs <=> out \in Seq(Pieces) /\ Len(out) <= Cap + 1
<1>1. ASSUME out \in Outputs PROVE out \in Seq(Pieces) /\ Len(out) <= Cap + 1
  BY <1>1 DEF Outputs, Pieces, More
<1>2. ASSUME out \in Seq(Pieces), Len(out) <= Cap + 1 PROVE out \in Outputs
  <2>1. Len(out) \in 0..(Cap + 1) /\ out \in [1..Len(out) -> Pieces]
    BY <1>2
  <2> QED BY <2>1 DEF Outputs, Pieces, More
<1> QED BY <1>1, <1>2

LEMMA TruncatedIs ==
  ASSUME Cap \in Nat, NEW out \in Seq(Pieces)
  PROVE  Truncate(out) \in Outputs
<1>1. CASE Len(out) > Cap
  <2>1. SubSeq(out, 1, Cap) \in Seq(Pieces) /\ Len(SubSeq(out, 1, Cap)) = Cap
    BY <1>1, SubSeqProperties
  <2> DEFINE cut == Append(SubSeq(out, 1, Cap), More)
  <2>2. cut \in Seq(Pieces) /\ Len(cut) <= Cap + 1
    BY <2>1 DEF Pieces
  <2>3. Truncate(out) = cut
    BY <1>1 DEF Truncate
  <2> HIDE DEF cut
  <2> QED BY <2>2, <2>3, OutputIs
<1>2. CASE ~(Len(out) > Cap)
  BY <1>2, OutputIs DEF Truncate
<1> QED BY <1>1, <1>2

LEMMA MergedIs ==
  ASSUME Cap \in Nat, NEW prev \in Seq(Pieces), NEW chunk \in Seq(Pieces)
  PROVE  MergeToolOutput(prev, chunk) \in Outputs
<1>1. prev \o chunk \in Seq(Pieces)
  OBVIOUS
<1> QED BY <1>1, TruncatedIs DEF MergeToolOutput

LEMMA ChunkIs ==
  ASSUME NEW chunk \in Seq(1..MaxOutput)
  PROVE  chunk \in Seq(Pieces)
<1> DEFINE Output == 1..MaxOutput
<1>1. chunk \in Seq(Output) /\ Output \subseteq Pieces
  BY DEF Pieces
<1> HIDE DEF Output
<1> QED BY <1>1

\* What is shown of the first m pieces of c.
Beginning(c, m) == Truncate(Part(c, 1, m))

LEMMA BeginningWhole ==
  ASSUME NEW c \in Tools, NEW m \in 0..MaxOutput, m <= Cap
  PROVE  Beginning(c, m) = Part(c, 1, m)
<1>1. Len(Part(c, 1, m)) = m
  BY WholeIs
<1> QED BY <1>1, CardsConstants DEF Beginning, Truncate

LEMMA BeginningCut ==
  ASSUME NEW c \in Tools, NEW m \in 0..MaxOutput, m > Cap
  PROVE  /\ Beginning(c, m) = Append(Part(c, 1, Cap), More)
         /\ Beginning(c, m) \in Seq(Pieces) /\ Len(Beginning(c, m)) = Cap + 1
         /\ Beginning(c, m)[Cap + 1] = More
         /\ \A i \in 1..Cap : Beginning(c, m)[i] = Text[c][i]
<1>0. Cap \in Nat \ {0} /\ Cap \in 0..MaxOutput
  BY CardsConstants
<1> DEFINE begin == Part(c, 1, Cap)
           all == Part(c, 1, m)
<1>1. begin \in Seq(1..MaxOutput) /\ Len(begin) = Cap /\ \A i \in 1..Cap : begin[i] = Text[c][i]
  BY <1>0, WholeIs
<1>2. all \in Seq(1..MaxOutput) /\ Len(all) = m /\ \A i \in 1..m : all[i] = Text[c][i]
  BY WholeIs
<1>3. Beginning(c, m) = Append(SubSeq(all, 1, Cap), More)
  BY <1>2 DEF Beginning, Truncate
<1> HIDE DEF begin, all
<1>e. \A i \in 1..Cap : all[i] \in 1..MaxOutput
  BY <1>0, <1>2, WholeIs
<1>4. /\ SubSeq(all, 1, Cap) \in Seq(1..MaxOutput) /\ Len(SubSeq(all, 1, Cap)) = Cap
      /\ \A i \in 1..Cap : SubSeq(all, 1, Cap)[i] = all[i]
  BY <1>0, <1>e, SubSeqProperties
<1>5. SubSeq(all, 1, Cap) = begin
  BY <1>0, <1>1, <1>2, <1>4, SeqEqual
<1>6. Beginning(c, m) = Append(begin, More)
  BY <1>3, <1>5
<1>7. begin \in Seq(Pieces) /\ More \in Pieces
  BY <1>1, ChunkIs DEF Pieces
<1>8. /\ Append(begin, More) \in Seq(Pieces) /\ Len(Append(begin, More)) = Cap + 1
      /\ Append(begin, More)[Cap + 1] = More
      /\ \A i \in 1..Cap : Append(begin, More)[i] = begin[i]
  BY <1>0, <1>1, <1>7
<1> QED BY <1>1, <1>6, <1>8 DEF begin

\* Onto an output that was cut nothing more is merged.
LEMMA CutAbsorbs ==
  ASSUME NEW c \in Tools, NEW m \in 0..MaxOutput, m > Cap,
         NEW chunk \in Seq(1..MaxOutput), chunk # <<>>
  PROVE  MergeToolOutput(Beginning(c, m), chunk) = Beginning(c, m)
<1> DEFINE prev == Beginning(c, m)
           begin == Part(c, 1, Cap)
           k == Len(chunk)
<1>0. Cap \in Nat \ {0} /\ Cap \in 0..MaxOutput /\ MaxOutput \in Nat
  BY CardsConstants
<1>1. /\ prev = Append(begin, More) /\ prev \in Seq(Pieces) /\ Len(prev) = Cap + 1
      /\ prev[Cap + 1] = More /\ \A i \in 1..Cap : prev[i] = Text[c][i]
  BY BeginningCut
<1>2. /\ begin \in Seq(Pieces) /\ Len(begin) = Cap /\ \A i \in 1..Cap : begin[i] = Text[c][i]
  BY <1>0, WholeIs, ChunkIs
<1>3. /\ chunk \in Seq(Pieces) /\ k \in Nat \ {0} /\ \A i \in 1..k : chunk[i] # More
  <2>1. chunk \in Seq(Pieces)
    BY ChunkIs
  <2>2. \A i \in 1..k : chunk[i] \in 1..MaxOutput
    BY ElementOfSeq
  <2>3. k \in Nat \ {0}
    OBVIOUS
  <2> QED BY <1>0, <2>1, <2>2, <2>3 DEF More
<1> HIDE DEF prev, begin, k
<1>4. ~IsPrefix(prev, chunk)
  <2>1. SUFFICES ASSUME Len(prev) <= k, \A i \in 1..Len(prev) : prev[i] = chunk[i] PROVE FALSE
    <3>1. prev \in Seq(Pieces) /\ chunk \in Seq(Pieces)
      BY <1>1, <1>3
    <3> QED BY <3>1, PrefixIs DEF k
  <2>2. Cap + 1 \in 1..Len(prev) /\ Cap + 1 \in 1..k
    BY <1>0, <1>1, <1>3, <2>1
  <2>3. chunk[Cap + 1] = prev[Cap + 1]
    BY <2>1, <2>2
  <2>4. chunk[Cap + 1] # More
    BY <1>3, <2>2
  <2> QED BY <1>1, <2>3, <2>4
<1>5. ~IsSuffix(chunk, prev)
  <2>1. SUFFICES ASSUME k <= Len(prev), \A i \in 1..k : chunk[i] = prev[Len(prev) - k + i]
                 PROVE  FALSE
    <3>1. prev \in Seq(Pieces) /\ chunk \in Seq(Pieces)
      BY <1>1, <1>3
    <3>2. IsSuffix(chunk, prev) <=>
            k <= Len(prev) /\ \A i \in 1..k : chunk[i] = prev[Len(prev) - k + i]
      BY <3>1, SuffixIs DEF k
    <3> QED BY <3>2
  <2>2. k \in 1..k /\ Len(prev) - k + k = Cap + 1
    BY <1>0, <1>1, <1>3
  <2>3. chunk[k] = prev[Cap + 1]
    BY <2>1, <2>2
  <2>4. chunk[k] # More
    BY <1>3, <2>2
  <2> QED BY <1>1, <2>3, <2>4
<1>6. prev \o chunk \in Seq(Pieces) /\ Len(prev \o chunk) > Cap
  BY <1>0, <1>1, <1>3 DEF k
<1>7. SubSeq(prev \o chunk, 1, Cap) = begin
  <2>1. \A i \in 1..Cap : (prev \o chunk)[i] = begin[i] /\ (prev \o chunk)[i] \in Pieces
    BY <1>0, <1>1, <1>2, <1>3
  <2>2. /\ SubSeq(prev \o chunk, 1, Cap) \in Seq(Pieces)
        /\ Len(SubSeq(prev \o chunk, 1, Cap)) = Cap
        /\ \A i \in 1..Cap : SubSeq(prev \o chunk, 1, Cap)[i] = (prev \o chunk)[i]
    <3> DEFINE long == prev \o chunk
    <3>1. \A i \in 1..Cap : long[i] \in Pieces
      BY <2>1
    <3> HIDE DEF long
    <3>2. /\ 1 \in Int /\ Cap \in Int /\ 1 <= Cap /\ Cap - 1 + 1 = Cap
          /\ \A i \in 1..Cap : 1 + i - 1 = i
      BY <1>0
    <3>3. /\ SubSeq(long, 1, Cap) \in Seq(Pieces) /\ Len(SubSeq(long, 1, Cap)) = Cap
          /\ \A i \in 1..Cap : SubSeq(long, 1, Cap)[i] = long[i]
      BY <3>1, <3>2, SubSeqProperties
    <3> QED BY <3>3 DEF long
  <2> QED BY <1>2, <2>1, <2>2, SeqEqual
<1>8. MergeToolOutput(prev, chunk) = Append(begin, More)
  BY <1>4, <1>5, <1>6, <1>7 DEF MergeToolOutput, Truncate
<1> QED BY <1>1, <1>8 DEF prev

\* What a snapshot of the first k pieces makes of a card that shows the first
\* m of them: all of them, or the same when it was cut.
LEMMA SnapshotMerges ==
  ASSUME NEW c \in Tools, NEW k \in 1..MaxOutput, NEW m \in 0..k
  PROVE  \E n \in m..k : MergeToolOutput(Beginning(c, m), Part(c, 1, k)) = Beginning(c, n)
<1>0. m \in 0..MaxOutput /\ k \in 0..MaxOutput /\ m \in m..k /\ k \in m..k
  BY CardsConstants
<1>1. /\ Part(c, 1, k) \in Seq(1..MaxOutput) /\ Len(Part(c, 1, k)) = k
      /\ \A i \in 1..k : Part(c, 1, k)[i] = Text[c][i]
  BY <1>0, WholeIs
<1>2. CASE m <= Cap
  <2>1. Beginning(c, m) = Part(c, 1, m)
    BY <1>0, <1>2, BeginningWhole
  <2>2. /\ Part(c, 1, m) \in Seq(1..MaxOutput) /\ Len(Part(c, 1, m)) = m
        /\ \A i \in 1..m : Part(c, 1, m)[i] = Text[c][i]
    BY <1>0, WholeIs
  <2>3. IsPrefix(Part(c, 1, m), Part(c, 1, k))
    <3>1. m <= k /\ \A i \in 1..m : Part(c, 1, m)[i] = Part(c, 1, k)[i]
      BY <1>1, <2>2
    <3> QED BY <1>1, <2>2, <3>1, PrefixIs
  <2>4. MergeToolOutput(Beginning(c, m), Part(c, 1, k)) = Beginning(c, k)
    BY <2>1, <2>3 DEF MergeToolOutput, Beginning
  <2> QED BY <1>0, <2>4
<1>3. CASE m > Cap
  <2>1. Part(c, 1, k) # <<>>
    BY <1>1
  <2>2. MergeToolOutput(Beginning(c, m), Part(c, 1, k)) = Beginning(c, m)
    BY <1>0, <1>1, <1>3, <2>1, CutAbsorbs
  <2> QED BY <1>0, <2>2
<1> QED BY <1>0, <1>2, <1>3, CardsConstants

\* A delta that does not repeat the one before it is added.
LEMMA DeltaMerges ==
  ASSUME NEW c \in Tools, ~Repeats(c), NEW k \in 1..MaxOutput
  PROVE  MergeToolOutput(Beginning(c, k - 1), Part(c, k, k)) = Beginning(c, k)
<1> DEFINE m == k - 1
           prev == Part(c, 1, m)
           chunk == Part(c, k, k)
           all == Part(c, 1, k)
<1>0. /\ Cap \in Nat \ {0} /\ MaxOutput \in Nat /\ m \in 0..MaxOutput /\ k \in 0..MaxOutput
      /\ k \in Nat \ {0} /\ k <= k + 1 /\ k = m + 1 /\ k - k + 1 = 1
  BY CardsConstants
<1>1. /\ chunk \in Seq(1..MaxOutput) /\ Len(chunk) = 1 /\ chunk[1] = Text[c][k]
  <2>1. /\ Part(c, k, k) \in Seq(1..MaxOutput) /\ Len(Part(c, k, k)) = k - k + 1
        /\ \A i \in 1..(k - k + 1) : Part(c, k, k)[i] = Text[c][k + i - 1]
    BY <1>0, PartIs
  <2>2. 1 \in 1..(k - k + 1) /\ k + 1 - 1 = k
    BY <1>0
  <2> QED BY <1>0, <2>1, <2>2
<1>2. /\ prev \in Seq(1..MaxOutput) /\ Len(prev) = m /\ \A i \in 1..m : prev[i] = Text[c][i]
  BY <1>0, WholeIs
<1>3. /\ all \in Seq(1..MaxOutput) /\ Len(all) = k /\ \A i \in 1..k : all[i] = Text[c][i]
  BY <1>0, WholeIs
<1>4. m # 0 => Text[c][m] # Text[c][k]
  <2>1. m # 0 => m \in 1..(MaxOutput - 1)
    BY <1>0
  <2> QED BY <1>0, <2>1 DEF Repeats
<1> HIDE DEF m, prev, chunk, all
<1>5. CASE m <= Cap
  <2>1. Beginning(c, m) = prev
    BY <1>0, <1>5, BeginningWhole DEF prev
  <2>2. (IF IsPrefix(prev, chunk) THEN chunk
         ELSE IF IsSuffix(chunk, prev) THEN prev ELSE prev \o chunk) = all
    <3>1. CASE m = 0
      <4>1. IsPrefix(prev, chunk)
        <5>1. prev \in Seq(Pieces) /\ chunk \in Seq(Pieces)
          BY <1>1, <1>2, ChunkIs
        <5>2. Len(prev) <= Len(chunk) /\ \A i \in 1..Len(prev) : prev[i] = chunk[i]
          BY <1>1, <1>2, <3>1
        <5> QED BY <5>1, <5>2, PrefixIs
      <4>2. chunk = all
        BY <1>0, <1>1, <1>3, <3>1, SeqEqual
      <4> QED BY <4>1, <4>2
    <3>2. CASE m # 0
      <4>1. ~IsPrefix(prev, chunk)
        <5>1. prev \in Seq(Pieces) /\ chunk \in Seq(Pieces)
          BY <1>1, <1>2, ChunkIs
        <5>2. IsPrefix(prev, chunk) <=>
                Len(prev) <= Len(chunk) /\ \A i \in 1..Len(prev) : prev[i] = chunk[i]
          BY <5>1, PrefixIs
        <5>3. Len(prev) <= Len(chunk) => m = 1
          BY <1>0, <1>1, <1>2, <3>2
        <5> QED BY <1>1, <1>2, <1>4, <5>2, <5>3
      <4>2. ~IsSuffix(chunk, prev)
        <5>1. m \in 1..m /\ m - 1 + 1 = m /\ 1 \in 1..1
          BY <1>0, <3>2
        <5>2. prev \in Seq(Pieces) /\ chunk \in Seq(Pieces)
          BY <1>1, <1>2, ChunkIs
        <5>3. IsSuffix(chunk, prev) <=>
                /\ Len(chunk) <= Len(prev)
                /\ \A i \in 1..Len(chunk) : chunk[i] = prev[Len(prev) - Len(chunk) + i]
          BY <5>2, SuffixIs
        <5> QED BY <1>1, <1>2, <1>4, <3>2, <5>1, <5>3
      <4>3. prev \o chunk = all
        <5>1. prev \o chunk \in Seq(1..MaxOutput) /\ Len(prev \o chunk) = k
          <6>1. /\ prev \o chunk \in Seq(1..MaxOutput)
                /\ Len(prev \o chunk) = Len(prev) + Len(chunk)
            BY <1>1, <1>2, ConcatProperties
          <6> QED BY <1>0, <1>1, <1>2, <6>1
        <5>2. \A i \in 1..k : (prev \o chunk)[i] = all[i]
          <6>1. \A i \in 1..m : (prev \o chunk)[i] = prev[i]
            BY <1>1, <1>2, ConcatProperties
          <6>2. (prev \o chunk)[k] = chunk[1]
            <7>1. k \in (Len(prev) + 1)..(Len(prev) + Len(chunk)) /\ k - Len(prev) = 1
              BY <1>0, <1>1, <1>2
            <7> QED BY <1>1, <1>2, <7>1, ConcatProperties
          <6>3. \A i \in 1..k : i \in 1..m \/ i = k
            BY <1>0
          <6> QED BY <1>1, <1>2, <1>3, <6>1, <6>2, <6>3
        <5> QED BY <1>3, <5>1, <5>2, SeqEqual
      <4> QED BY <4>1, <4>2, <4>3
    <3> QED BY <3>1, <3>2
  <2> QED BY <2>1, <2>2 DEF MergeToolOutput, Beginning, all, chunk, m
<1>6. CASE m > Cap
  <2>1. chunk # <<>>
    BY <1>1
  <2>2. MergeToolOutput(Beginning(c, m), chunk) = Beginning(c, m)
    BY <1>0, <1>1, <1>6, <2>1, CutAbsorbs
  <2>3. Beginning(c, m) = Beginning(c, k)
    BY <1>0, <1>6, BeginningCut
  <2> QED BY <2>2, <2>3 DEF chunk, m
<1> QED BY <1>0, <1>5, <1>6

\* A result that repeats what was told, or a tail of it, changes nothing.
LEMMA TailMerges ==
  ASSUME NEW c \in Tools, NEW m \in 1..MaxOutput, NEW from \in 1..m
  PROVE  MergeToolOutput(Beginning(c, m), Part(c, from, m)) = Beginning(c, m)
<1> DEFINE prev == Part(c, 1, m)
           chunk == Part(c, from, m)
           n == m - from + 1
<1>0. /\ Cap \in Nat \ {0} /\ m \in 0..MaxOutput /\ MaxOutput \in Nat
      /\ from \in Nat \ {0} /\ from <= m + 1 /\ n \in 1..m /\ from = m - n + 1
  BY CardsConstants
<1>1. /\ chunk \in Seq(1..MaxOutput) /\ Len(chunk) = n
      /\ \A i \in 1..n : chunk[i] = Text[c][from + i - 1]
  BY <1>0, PartIs
<1>2. /\ prev \in Seq(1..MaxOutput) /\ Len(prev) = m /\ \A i \in 1..m : prev[i] = Text[c][i]
  BY <1>0, WholeIs
<1> HIDE DEF prev, chunk, n
<1>3. CASE m <= Cap
  <2>1. Beginning(c, m) = prev
    BY <1>0, <1>3, BeginningWhole DEF prev
  <2>2. IsPrefix(prev, chunk) => chunk = prev
    <3>1. ASSUME IsPrefix(prev, chunk) PROVE m <= n /\ \A i \in 1..m : prev[i] = chunk[i]
      <4>1. prev \in Seq(Pieces) /\ chunk \in Seq(Pieces)
        BY <1>1, <1>2, ChunkIs
      <4>2. IsPrefix(prev, chunk) <=>
              Len(prev) <= Len(chunk) /\ \A i \in 1..Len(prev) : prev[i] = chunk[i]
        BY <4>1, PrefixIs
      <4> QED BY <1>1, <1>2, <3>1, <4>2
    <3>2. m <= n => m = n
      BY <1>0
    <3> QED BY <1>1, <1>2, <3>1, <3>2, SeqEqual
  <2>3. IsSuffix(chunk, prev)
    <3>1. \A i \in 1..n : m - n + i \in 1..m /\ from + i - 1 = m - n + i
      BY <1>0
    <3>2. ASSUME NEW i \in 1..n PROVE chunk[i] = prev[m - n + i]
      <4>1. chunk[i] = Text[c][m - n + i]
        BY <1>1, <3>1
      <4>2. prev[m - n + i] = Text[c][m - n + i]
        BY <1>2, <3>1
      <4> QED BY <4>1, <4>2
    <3>3. prev \in Seq(Pieces) /\ chunk \in Seq(Pieces)
      BY <1>1, <1>2, ChunkIs
    <3>4. IsSuffix(chunk, prev) <=>
            /\ Len(chunk) <= Len(prev)
            /\ \A i \in 1..Len(chunk) : chunk[i] = prev[Len(prev) - Len(chunk) + i]
      BY <3>3, SuffixIs
    <3> QED BY <1>0, <1>1, <1>2, <3>2, <3>4
  <2>4. MergeToolOutput(prev, chunk) = Truncate(prev)
    BY <2>2, <2>3 DEF MergeToolOutput
  <2> QED BY <2>1, <2>4 DEF Beginning, prev, chunk
<1>4. CASE m > Cap
  <2>1. chunk # <<>>
    BY <1>0, <1>1
  <2> QED BY <1>0, <1>1, <1>4, <2>1, CutAbsorbs DEF chunk
<1> QED BY <1>0, <1>3, <1>4

-----------------------------------------------------------------------------
(* Types.                                                                  *)

CardRecords ==
  [thid : Threads, call : Calls, status : Statuses, out : Outputs,
   result : BOOLEAN]
ToolFrames ==
  [kind : {"tool"}, thid : Threads, call : Calls,
   phase : {"start", "update", "result", "accepted", "rejected"}, chunk : Seq(1..MaxOutput),
   upto : 0..MaxOutput]
HistoryFrames == [kind : {"history"}, thid : Threads, cards : SUBSET CardRecords]

CardTypes ==
  /\ CardsTypeOK
  /\ wire \in Seq(ToolFrames \cup HistoryFrames)

-----------------------------------------------------------------------------
(* One card per call.                                                      *)

\* Cards are of calls that were made, filed where they were made, one each.
FiledWell(S) ==
  \A d \in S :
    /\ d.call \in Calls /\ phase[d.call] # "none" /\ d.thid = place[d.call]
    /\ \A e \in S : e.call = d.call => e = d

\* Before a call is made nothing is known of it.
Unmade ==
  \A c \in Calls :
    phase[c] = "none" =>
      /\ c \in Tools => toolCards[c] = <<>> /\ output[c] = 0
      /\ c \in Spawns => watcher[c] = "none" /\ child[c] = "none"

FramesFiled ==
  \A i \in 1..Len(wire) :
    /\ wire[i].kind = "tool" =>
         phase[wire[i].call] # "none" /\ wire[i].thid = place[wire[i].call]
    /\ wire[i].kind = "history" =>
         FiledWell(wire[i].cards) /\ \A d \in wire[i].cards : d.thid = wire[i].thid

Filing == Unmade /\ FiledWell(cards) /\ FramesFiled

-----------------------------------------------------------------------------
(* Honest cards.                                                             *)

ToldOf(S) ==
  \A d \in S : d.result /\ d.status = "completed" => d.call \in Spawns /\ child[d.call] = "ok"

Told ==
  /\ \A c \in Spawns :
       /\ child[c] # "none" => phase[c] = "accepted"
       /\ watcher[c] = "reading" => child[c] = "ok"
  /\ ToldOf(cards)
  /\ \A i \in 1..Len(wire) : wire[i].kind = "history" => \A d \in wire[i].cards : ~d.result

-----------------------------------------------------------------------------
(* Types are kept.                                                         *)

WellTyped(S) ==
  \A d \in S : /\ d.thid \in Threads /\ d.call \in Calls /\ d.status \in Statuses
               /\ d.out \in Outputs /\ d.result \in BOOLEAN

LEMMA CardIs ==
  ASSUME NEW th \in Threads, NEW c \in Calls, NEW status \in Statuses,
         NEW out \in Outputs, NEW result \in BOOLEAN
  PROVE  Card(th, c, status, out, result) \in CardRecords
  BY DEF Card, CardRecords

LEMMA UpsertTypes ==
  ASSUME WellTyped(cards), NEW card \in CardRecords, Upsert(card)
  PROVE  WellTyped(cards')
<1>1. cards' \subseteq cards \cup {card}
  BY DEF Upsert
<1> QED BY <1>1 DEF WellTyped, CardRecords

LEMMA EmptyOutput ==
  ASSUME Cap \in Nat
  PROVE  <<>> \in Outputs
<1>1. <<>> \in Seq(Pieces) /\ Len(<<>>) <= Cap + 1
  OBVIOUS
<1> QED BY <1>1, OutputIs

LEMMA HistoryIsTyped ==
  ASSUME CardTypes, NEW th \in Threads
  PROVE  MapHistoryMessages(th) \subseteq CardRecords
<1> SUFFICES ASSUME NEW d \in MapHistoryMessages(th) PROVE d \in CardRecords
  OBVIOUS
<1>1. "tool" \in Statuses /\ "completed" \in Statuses
  BY DEF Statuses
<1>2. Cap \in Nat /\ <<>> \in Outputs
  BY EmptyOutput, CardsConstants
<1>3. ASSUME NEW c \in Tools
      PROVE  MergeToolOutput(<<>>, Part(c, 1, output[c])) \in Outputs
  <2>1. output[c] \in 0..MaxOutput
    BY DEF CardTypes, CardsTypeOK
  <2>2. Part(c, 1, output[c]) \in Seq(Pieces) /\ <<>> \in Seq(Pieces)
    BY <2>1, WholeIs, ChunkIs
  <2> QED BY <1>2, <2>2, MergedIs
<1>4. CASE \E c \in Tools :
             \/ d = Card(th, c, "tool",
                               MergeToolOutput(<<>>, Part(c, 1, output[c])), FALSE)
             \/ d = Card(th, c, "tool", <<>>, FALSE)
  BY <1>1, <1>2, <1>3, <1>4, CardIs DEF Calls
<1>5. CASE \E c \in Spawns : d = Card(th, c, "completed", <<>>, FALSE)
  BY <1>1, <1>2, <1>5, CardIs DEF Calls
<1> QED BY <1>4, <1>5 DEF MapHistoryMessages

LEMMA CardsStartTyped ==
  ASSUME CardsInit
  PROVE  CardTypes
<1>1. <<>> \in Outputs
  BY EmptyOutput, CardsConstants
<1>2. Len(wire) <= MaxWire /\ wire \in Seq(ToolFrames \cup HistoryFrames)
  BY CardsConstants DEF CardsInit
<1>3. /\ toolCards \in [Tools -> Outputs] /\ output \in [Tools -> 0..MaxOutput]
      /\ phase \in [Calls -> Phases] /\ place \in [Calls -> Threads]
  BY <1>1, CardsConstants DEF CardsInit, Phases
<1>4. calls \subseteq Calls
  BY CardsConstants DEF CardsInit
<1> QED BY <1>1, <1>2, <1>3, <1>4, CardsConstants DEF CardsInit, CardTypes, CardsTypeOK

LEMMA CardTypesKept ==
  ASSUME CardTypes, [CardsNext]_cardsVars
  PROVE  CardTypes'
<1> USE CardsConstants DEF CardTypes, CardsTypeOK
<1> DEFINE Frames == ToolFrames \cup HistoryFrames
<1>0. /\ wire \in Seq(Frames) /\ Cap \in Nat /\ <<>> \in Outputs
      /\ {"tool", "info", "running", "completed", "failed"} \subseteq Statuses
  BY EmptyOutput DEF Statuses
<1>t. WellTyped(cards)
  BY DEF WellTyped
<1>f. ASSUME wire # <<>>
      PROVE  Head(wire) \in Frames /\ Tail(wire) \in Seq(Frames) /\ Len(Tail(wire)) <= MaxWire
  BY <1>0, <1>f
<1>a. ASSUME NEW frame \in Frames, Len(wire) < MaxWire, Send(frame)
      PROVE  wire' \in Seq(Frames) /\ Len(wire') <= MaxWire
  <2>1. Append(wire, frame) \in Seq(Frames) /\ Len(Append(wire, frame)) = Len(wire) + 1
    BY <1>0
  <2> QED BY <1>0, <1>a, <2>1 DEF Send
<1>s. ASSUME NEW c \in Spawns, NEW status \in Statuses, Settle(c, status)
      PROVE  WellTyped(cards') /\ watcher' \in [Spawns -> {"none", "waiting", "reading", "over"}]
  <2>1. Card(place[c], c, status, <<>>, TRUE) \in CardRecords
    BY <1>0, CardIs DEF Calls
  <2> QED BY <1>t, <1>s, <2>1, UpsertTypes DEF Settle, Filed
<1>w. ASSUME NEW c \in Spawns, NEW verdict, Answered(c, verdict)
      PROVE  WellTyped(cards') /\ watcher' \in [Spawns -> {"none", "waiting", "reading", "over"}]
  BY <1>0, <1>t, <1>s, <1>w DEF Answered
<1> HIDE DEF Frames
<1>1. CASE CallEvent
  <2> DEFINE e == Head(wire)
  <2>1. e \in ToolFrames /\ wire' \in Seq(Frames) /\ Len(wire') <= MaxWire
    BY <1>1, <1>f DEF CallEvent, Frames, ToolFrames, HistoryFrames
  <2> HIDE DEF e
  <2>2. /\ WellTyped(cards') /\ toolCards' \in [Tools -> Outputs]
        /\ watcher' \in [Spawns -> {"none", "waiting", "reading", "over"}]
    <3>1. CASE activeRun # e.thid
      BY <1>1, <1>t, <3>1 DEF CallEvent, e
    <3>2. CASE activeRun = e.thid /\ e.call \in Tools /\ HandleToolEvent(e)
      <4> DEFINE merged == IF e.phase = "start" THEN <<>>
                           ELSE MergeToolOutput(toolCards[e.call], e.chunk)
      <4>0. /\ e.chunk \in Seq(1..MaxOutput) /\ e.thid \in Threads
            /\ toolCards[e.call] \in Outputs
        BY <2>1, <3>2 DEF ToolFrames
      <4>1. e.chunk \in Seq(Pieces) /\ toolCards[e.call] \in Seq(Pieces)
        BY <1>0, <4>0, ChunkIs, OutputIs
      <4>2. merged \in Outputs
        BY <1>0, <4>1, MergedIs
      <4> HIDE DEF merged
      <4>3. Card(activeRun, e.call, "tool", merged, FALSE) \in CardRecords
        BY <1>0, <3>2, <4>0, <4>2, CardIs DEF Calls
      <4>4. WellTyped(cards')
        BY <1>t, <3>2, <4>3, UpsertTypes DEF HandleToolEvent, merged
      <4>5. toolCards' = [toolCards EXCEPT ![e.call] = merged] /\ watcher' = watcher
        BY <3>2 DEF HandleToolEvent, merged
      <4> QED BY <4>2, <4>4, <4>5
    <3>3. CASE activeRun = e.thid /\ e.call \in Spawns /\ HandleSpawnResult(e)
      <4>1. Card(activeRun, e.call, "running", <<>>, FALSE) \in CardRecords
        BY <1>0, <2>1, <3>3, CardIs DEF Calls, ToolFrames
      <4> QED BY <1>t, <3>3, <4>1, UpsertTypes DEF HandleSpawnResult
    <3>4. CASE activeRun = e.thid /\ e.call \in Yields /\ HandleYield(e)
      <4>1. Card(activeRun, e.call, "info", <<>>, FALSE) \in CardRecords
        BY <1>0, <2>1, <3>4, CardIs DEF Calls, ToolFrames
      <4> QED BY <1>t, <3>4, <4>1, UpsertTypes DEF HandleYield
    <3> QED BY <1>1, <3>1, <3>2, <3>3, <3>4 DEF CallEvent, e
  <2> QED BY <1>1, <2>1, <2>2 DEF CallEvent, gatewayVars, WellTyped, Frames
<1>2. CASE Replayed
  <2>1. Head(wire) \in HistoryFrames /\ wire' \in Seq(Frames) /\ Len(wire') <= MaxWire
    BY <1>2, <1>f DEF Replayed, Frames, ToolFrames, HistoryFrames
  <2>2. WellTyped(cards')
    BY <1>2, <1>t, <2>1
    DEF Replayed, Restore, WellTyped, HistoryFrames, CardRecords
  <2> QED BY <1>2, <2>1, <2>2
      DEF Replayed, adapterVars, gatewayVars, WellTyped, Frames
<1>3. CASE OnConnected
  BY <1>3 DEF OnConnected, ReplayHistory, ListControllerThreads, gatewayVars
<1>4. CASE OnDisconnected
  BY <1>4 DEF OnDisconnected, gatewayVars
<1>5. CASE OnConversationClose
  BY <1>5 DEF OnConversationClose, gatewayVars, walletVars
<1>6. CASE Disconnect /\ stopped' \in BOOLEAN
  <2>1. wire' \in Seq(Frames) /\ Len(wire') <= MaxWire
    BY <1>6 DEF Disconnect
  <2> QED BY <1>6, <2>1 DEF Disconnect, walletVars, Phases, Frames
<1>7. CASE GatewayReady
  BY <1>7 DEF GatewayReady, gatewayVars, walletVars
<1>8. ASSUME NEW th \in Threads, OnConversationOpen(th) PROVE CardTypes'
  BY <1>8 DEF OnConversationOpen, ReplayHistory, gatewayVars, walletVars
<1>9. ASSUME NEW th \in Threads, HistoryAnswered(th) PROVE CardTypes'
  <2> DEFINE frame == [kind |-> "history", thid |-> th, cards |-> MapHistoryMessages(th)]
  <2>1. frame \in Frames
    BY HistoryIsTyped DEF Frames, HistoryFrames
  <2> HIDE DEF frame
  <2>2. wire' \in Seq(Frames) /\ Len(wire') <= MaxWire
    BY <1>9, <1>a, <2>1 DEF HistoryAnswered, frame
  <2> QED BY <1>9, <2>2 DEF HistoryAnswered, gatewayVars, walletVars, Frames
<1>10. ASSUME NEW th \in Threads, TurnBegins(th) PROVE CardTypes'
  <2>1. toolCards' \in [Tools -> Outputs]
    BY <1>0, <1>10 DEF TurnBegins
  <2> QED BY <1>10, <2>1 DEF TurnBegins, walletVars
<1>11. ASSUME NEW th \in Threads, TurnGivesUp(th) \/ TurnEnds(th) PROVE CardTypes'
  BY <1>11 DEF TurnGivesUp, TurnEnds, gatewayVars, walletVars
<1>12. ASSUME NEW c \in Calls, CallStarts(c) PROVE CardTypes'
  <2>1. PICK th \in running :
          /\ place' = [place EXCEPT ![c] = th]
          /\ Send(ToolEvent(th, c, "start", <<>>, 0))
    BY <1>12 DEF CallStarts
  <2> DEFINE frame == ToolEvent(th, c, "start", <<>>, 0)
  <2>2. frame \in Frames
    BY DEF ToolEvent, Frames, ToolFrames
  <2> HIDE DEF frame
  <2>3. wire' \in Seq(Frames) /\ Len(wire') <= MaxWire
    BY <1>12, <1>a, <2>1, <2>2 DEF CallStarts, frame
  <2> QED BY <1>12, <2>1, <2>3
      DEF CallStarts, adapterVars, walletVars, Phases, Frames
<1>e. ASSUME NEW c \in Calls, NEW ph \in {"update", "result", "accepted", "rejected"},
             NEW chunk \in Seq(1..MaxOutput), NEW upto \in 0..MaxOutput, NEW th \in Threads,
             Len(wire) < MaxWire, Send(ToolEvent(th, c, ph, chunk, upto))
      PROVE  wire' \in Seq(Frames) /\ Len(wire') <= MaxWire
  <2>1. ToolEvent(th, c, ph, chunk, upto) \in Frames
    BY DEF ToolEvent, Frames, ToolFrames
  <2> QED BY <1>e, <1>a, <2>1
<1>c. ASSUME NEW c \in Tools, NEW n \in 1..MaxOutput, NEW from \in 1..n
      PROVE  Part(c, from, n) \in Seq(1..MaxOutput)
  <2>1. from \in Nat \ {0} /\ n \in 0..MaxOutput /\ from <= n + 1
    OBVIOUS
  <2> QED BY <2>1, PartIs
<1>13. ASSUME NEW c \in Tools, ToolUpdates(c) PROVE CardTypes'
  <2> DEFINE n == output[c] + 1
  <2>1. n \in 1..MaxOutput /\ n \in 0..MaxOutput /\ c \in Calls /\ place[c] \in Threads
    BY <1>13 DEF ToolUpdates, Calls
  <2>2. wire' \in Seq(Frames) /\ Len(wire') <= MaxWire
    <3>1. Len(wire) < MaxWire /\ Send(ToolEvent(place[c], c, "update", Chunk(c, n), n))
      BY <1>13 DEF ToolUpdates
    <3> HIDE DEF n
    <3>2. Chunk(c, n) \in Seq(1..MaxOutput)
      BY <1>c, <2>1 DEF Chunk
    <3> QED BY <1>e, <2>1, <3>1, <3>2
  <2> QED BY <1>13, <2>1, <2>2 DEF ToolUpdates, adapterVars, walletVars, Frames
<1>14. ASSUME NEW c \in Tools, ToolEnds(c) PROVE CardTypes'
  <2>1. output[c] \in 1..MaxOutput /\ c \in Calls /\ place[c] \in Threads
    BY <1>14 DEF ToolEnds, Calls
  <2>2. wire' \in Seq(Frames) /\ Len(wire') <= MaxWire
    BY <1>14, <1>c, <1>e, <2>1 DEF ToolEnds
  <2> QED BY <1>14, <2>2
      DEF ToolEnds, adapterVars, walletVars, Phases, Frames
<1>15. ASSUME NEW c \in Yields, YieldEnds(c) PROVE CardTypes'
  BY <1>15 DEF YieldEnds, adapterVars, walletVars, Phases
<1>16. ASSUME NEW c \in Spawns, SpawnEnds(c) PROVE CardTypes'
  <2>1. PICK verdict \in {"accepted", "rejected"} :
          /\ phase' = [phase EXCEPT ![c] = verdict]
          /\ child' = [child EXCEPT ![c] = IF verdict = "accepted" THEN "running" ELSE @]
          /\ Send(ToolEvent(place[c], c, verdict, <<>>, 0))
    BY <1>16 DEF SpawnEnds
  <2>2. c \in Calls /\ <<>> \in Seq(1..MaxOutput) /\ place[c] \in Threads /\ 0 \in 0..MaxOutput
    BY DEF Calls
  <2>3. wire' \in Seq(Frames) /\ Len(wire') <= MaxWire
    BY <1>16, <1>e, <2>1, <2>2 DEF SpawnEnds
  <2> QED BY <1>16, <2>1, <2>3
      DEF SpawnEnds, adapterVars, walletVars, Phases, Frames
<1>17. ASSUME NEW c \in Spawns, ChildEnds(c) PROVE CardTypes'
  BY <1>17 DEF ChildEnds, adapterVars, walletVars
<1>18. ASSUME NEW c \in Spawns, WaitAnswered(c) \/ WaitRejected(c) PROVE CardTypes'
  <2>1. WellTyped(cards') /\ watcher' \in [Spawns -> {"none", "waiting", "reading", "over"}]
    BY <1>18, <1>w DEF WaitAnswered, WaitRejected
  <2> QED BY <1>18, <2>1 DEF WaitAnswered, WaitRejected, gatewayVars, WellTyped
<1>19. ASSUME NEW c \in Spawns, ResultRead(c) PROVE CardTypes'
  <2>1. WellTyped(cards') /\ watcher' \in [Spawns -> {"none", "waiting", "reading", "over"}]
    BY <1>19, <1>0, <1>s, <1>t DEF ResultRead
  <2> QED BY <1>19, <2>1 DEF ResultRead, gatewayVars, WellTyped
<1>20. CASE UNCHANGED cardsVars
  BY <1>20 DEF cardsVars, adapterVars, gatewayVars, walletVars
<1>21. CASE GatewayCloses \/ Stop
  BY <1>6, <1>21 DEF GatewayCloses, Stop
<1> QED
  BY <1>1, <1>2, <1>3, <1>4, <1>5, <1>7, <1>8, <1>9, <1>10, <1>11, <1>12, <1>13, <1>14, <1>15,
     <1>16, <1>17, <1>18, <1>19, <1>20, <1>21 DEF CardsNext

-----------------------------------------------------------------------------
(* Filing is kept.                                                         *)

\* A call that was made stays made, and where it was.
Stays == \A c \in Calls : phase[c] # "none" => phase'[c] # "none" /\ place'[c] = place[c]

LEMMA CallsStay ==
  ASSUME CardTypes, [CardsNext]_cardsVars
  PROVE  Stays
<1> USE DEF Stays
<1>t. phase \in [Calls -> Phases] /\ place \in [Calls -> Threads]
  BY DEF CardTypes, CardsTypeOK
<1>c. Tools \subseteq Calls /\ Spawns \subseteq Calls /\ Yields \subseteq Calls
  BY DEF Calls
<1>1. ASSUME UNCHANGED <<phase, place>> PROVE Stays
  BY <1>1
<1>2. CASE CallEvent \/ Replayed \/ OnConnected \/ OnDisconnected
             \/ OnConversationClose \/ GatewayReady
  BY <1>1, <1>2
  DEF CallEvent, Replayed, OnConnected, OnDisconnected,
      OnConversationClose, GatewayReady, gatewayVars
<1>3. CASE GatewayCloses \/ Stop
  BY <1>t, <1>3 DEF GatewayCloses, Stop, Disconnect
<1>4. ASSUME NEW th \in Threads,
             OnConversationOpen(th) \/ HistoryAnswered(th)
               \/ TurnBegins(th) \/ TurnGivesUp(th) \/ TurnEnds(th)
      PROVE  Stays
  BY <1>1, <1>4
  DEF OnConversationOpen, HistoryAnswered, TurnBegins, TurnGivesUp, TurnEnds,
      gatewayVars
<1>5. ASSUME NEW c \in Calls, CallStarts(c) PROVE Stays
  BY <1>t, <1>5 DEF CallStarts
<1>6. ASSUME NEW c \in Tools, ToolUpdates(c) \/ ToolEnds(c) PROVE Stays
  BY <1>t, <1>c, <1>6 DEF ToolUpdates, ToolEnds
<1>7. ASSUME NEW c \in Yields, YieldEnds(c) PROVE Stays
  BY <1>t, <1>c, <1>7 DEF YieldEnds
<1>8. ASSUME NEW c \in Spawns, SpawnEnds(c) PROVE Stays
  BY <1>t, <1>c, <1>8 DEF SpawnEnds
<1>9. ASSUME NEW c \in Spawns,
             ChildEnds(c) \/ WaitAnswered(c) \/ WaitRejected(c)
               \/ ResultRead(c)
      PROVE  Stays
  BY <1>1, <1>9
  DEF ChildEnds, WaitAnswered, WaitRejected, ResultRead, gatewayVars
<1>10. CASE UNCHANGED cardsVars
  BY <1>1, <1>10 DEF cardsVars, gatewayVars
<1> QED
  BY <1>2, <1>3, <1>4, <1>5, <1>6, <1>7, <1>8, <1>9, <1>10 DEF CardsNext

LEMMA FiledStays ==
  ASSUME Stays, NEW S, FiledWell(S)
  PROVE  FiledWell(S)'
  BY DEF Stays, FiledWell

LEMMA UpsertFiled ==
  ASSUME Stays, FiledWell(cards), NEW card,
         card.call \in Calls, phase[card.call] # "none", card.thid = place[card.call],
         Upsert(card)
  PROVE  FiledWell(cards)'
<1>1. CASE ~walletUp
  BY <1>1 DEF Upsert, FiledWell, Stays
<1>2. CASE walletUp
  <2>1. cards' = {d \in cards : <<d.thid, d.call>> # <<card.thid, card.call>>} \cup {card}
    BY <1>2 DEF Upsert
  <2>2. \A d \in cards : d.call = card.call => d \notin cards' \/ d = card
    BY <2>1 DEF FiledWell
  <2> QED BY <2>1, <2>2 DEF FiledWell, Stays
<1> QED BY <1>1, <1>2

LEMMA RestoreFiled ==
  ASSUME Stays, FiledWell(cards), NEW th, NEW S, FiledWell(S), \A d \in S : d.thid = th,
         Restore(th, S)
  PROVE  FiledWell(cards)'
  BY DEF Restore, FiledWell, Stays

FrameFiled(f) ==
  /\ f.kind = "tool" => /\ f.call \in Calls /\ phase[f.call] # "none"
                        /\ f.thid = place[f.call]
  /\ f.kind = "history" => FiledWell(f.cards) /\ \A d \in f.cards : d.thid = f.thid

LEMMA FrameStays ==
  ASSUME Stays, NEW f, FrameFiled(f)
  PROVE  FrameFiled(f)'
  BY FiledStays DEF FrameFiled, Stays

LEMMA FramesAreFiled ==
  ASSUME wire \in Seq(ToolFrames \cup HistoryFrames)
  PROVE  FramesFiled <=> \A i \in 1..Len(wire) : FrameFiled(wire[i])
<1>1. \A i \in 1..Len(wire) : wire[i].kind = "tool" => wire[i].call \in Calls
  BY DEF ToolFrames, HistoryFrames
<1> QED BY <1>1 DEF FramesFiled, FrameFiled

\* Frames leave the wire and a new one comes last.
Fewer ==
  \/ wire' = wire
  \/ wire # <<>> /\ wire' = Tail(wire)
  \/ wire' = <<>>

LEMMA FewerFiled ==
  ASSUME CardTypes, CardTypes', FramesFiled, Stays, Fewer
  PROVE  FramesFiled'
<1>1. wire \in Seq(ToolFrames \cup HistoryFrames) /\ (wire \in Seq(ToolFrames \cup HistoryFrames))'
  BY DEF CardTypes
<1>2. SUFFICES ASSUME NEW i \in 1..Len(wire') PROVE FrameFiled(wire[i])'
  BY DEF FramesFiled, FrameFiled
<1>3. \E j \in 1..Len(wire) : wire'[i] = wire[j]
  <2>1. CASE wire' = wire
    BY <1>2, <2>1
  <2>2. CASE wire # <<>> /\ wire' = Tail(wire)
    <3>1. i + 1 \in 1..Len(wire) /\ Tail(wire)[i] = wire[i + 1]
      BY <1>1, <1>2, <2>2
    <3> QED BY <2>2, <3>1
  <2>3. CASE wire' = <<>>
    BY <1>2, <2>3
  <2> QED BY <2>1, <2>2, <2>3 DEF Fewer
<1>4. PICK f : f = wire'[i]
  OBVIOUS
<1>5. FrameFiled(f)
  BY <1>1, <1>3, <1>4, FramesAreFiled
<1>6. FrameFiled(f)'
  BY <1>5, FrameStays
<1> QED BY <1>4, <1>6

LEMMA OneMoreFiled ==
  ASSUME CardTypes, CardTypes', FramesFiled, Stays, NEW frame, FrameFiled(frame)',
         wire' = wire \/ wire' = Append(wire, frame)
  PROVE  FramesFiled'
<1>1. wire \in Seq(ToolFrames \cup HistoryFrames) /\ (wire \in Seq(ToolFrames \cup HistoryFrames))'
  BY DEF CardTypes
<1>2. SUFFICES ASSUME NEW i \in 1..Len(wire') PROVE FrameFiled(wire[i])'
  BY DEF FramesFiled, FrameFiled
<1>3. (i \in 1..Len(wire) /\ wire'[i] = wire[i]) \/ wire'[i] = frame
  BY <1>1, <1>2
<1>4. PICK f : f = wire'[i]
  OBVIOUS
<1>5. CASE f = frame
  BY <1>4, <1>5
<1>6. CASE f # frame
  <2>1. FrameFiled(f)
    BY <1>1, <1>3, <1>4, <1>6, FramesAreFiled
  <2>2. FrameFiled(f)'
    BY <2>1, FrameStays
  <2> QED BY <1>4, <2>2
<1> QED BY <1>5, <1>6

LEMMA HistoryIsFiled ==
  ASSUME NEW th
  PROVE  /\ FiledWell(MapHistoryMessages(th))
         /\ \A d \in MapHistoryMessages(th) : d.thid = th /\ ~d.result
<1> DEFINE H == MapHistoryMessages(th)
           Put(c) == IF phase[c] = "done"
                       THEN MergeToolOutput(<<>>, Part(c, 1, output[c])) ELSE <<>>
           CardOf(c) == IF c \in Tools THEN Card(th, c, "tool", Put(c), FALSE)
                        ELSE Card(th, c, "completed", <<>>, FALSE)
<1>1. \A d \in H : \E c \in Calls :
        place[c] = th /\ phase[c] # "none" /\ d = CardOf(c)
  BY CardsConstants DEF MapHistoryMessages, Calls
<1>2. \A c : CardOf(c).call = c /\ CardOf(c).thid = th /\ ~CardOf(c).result
  BY DEF Card
<1> HIDE DEF H, CardOf
<1>3. FiledWell(H) /\ \A d \in H : d.thid = th /\ ~d.result
  BY <1>1, <1>2 DEF FiledWell
<1> QED BY <1>3 DEF H

\* The steps that move neither cards nor frames, and keep what is known.
LEMMA FilingAtFirst ==
  ASSUME CardsInit
  PROVE  Filing
<1>1. Len(wire) = 0 /\ cards = {}
  BY DEF CardsInit
<1>2. Unmade
  BY DEF Unmade, CardsInit
<1> QED BY <1>1, <1>2 DEF Filing, FiledWell, FramesFiled

LEMMA FilingKept ==
  ASSUME CardTypes, CardTypes', Filing, [CardsNext]_cardsVars
  PROVE  Filing'
<1>t. /\ phase \in [Calls -> Phases] /\ place \in [Calls -> Threads]
      /\ watcher \in [Spawns -> {"none", "waiting", "reading", "over"}]
      /\ toolCards \in [Tools -> Outputs] /\ output \in [Tools -> 0..MaxOutput]
      /\ child \in [Spawns -> {"none", "running", "ok", "error"}]
      /\ wire \in Seq(ToolFrames \cup HistoryFrames)
  BY DEF CardTypes, CardsTypeOK
<1>c. Tools \subseteq Calls /\ Spawns \subseteq Calls /\ Yields \subseteq Calls
  BY DEF Calls
<1>d. Tools \cap Spawns = {} /\ Tools \cap Yields = {} /\ Spawns \cap Yields = {}
  BY CardsConstants
<1>s. Stays
  BY CallsStay
<1>u. Unmade /\ FiledWell(cards) /\ FramesFiled
  BY DEF Filing
<1>f. ASSUME Fewer PROVE FramesFiled'
  BY <1>f, <1>s, <1>u, FewerFiled
<1>o. ASSUME UNCHANGED cards PROVE FiledWell(cards)'
  BY <1>o, <1>s, <1>u DEF FiledWell, Stays
<1>n. ASSUME UNCHANGED <<toolCards, output, watcher, child>> PROVE Unmade'
  BY <1>n, <1>s, <1>u, <1>c DEF Unmade, Stays
<1>a. ASSUME NEW c \in Spawns, NEW status, Settle(c, status), phase[c] # "none"
      PROVE  FiledWell(cards)'
  <2> DEFINE card == Card(place[c], c, status, <<>>, TRUE)
  <2>1. card.call = c /\ card.thid = place[c] /\ Upsert(card)
    BY <1>a DEF Card, Settle, Filed
  <2> HIDE DEF card
  <2> QED BY <1>a, <1>c, <1>s, <1>u, <2>1, UpsertFiled
<1>w. ASSUME NEW c \in Spawns, NEW verdict, Answered(c, verdict), watcher[c] = "waiting",
             UNCHANGED <<toolCards, output, child, wire>>
      PROVE  Filing'
  <2>1. phase[c] # "none"
    BY <1>w, <1>u, <1>c DEF Unmade
  <2>2. FiledWell(cards)'
    BY <1>w, <1>a, <1>o, <2>1 DEF Answered
  <2>3. \E what : watcher' = [watcher EXCEPT ![c] = what]
    BY <1>w DEF Answered, Settle
  <2>4. Unmade'
    BY <1>w, <1>t, <1>s, <1>u, <1>c, <2>1, <2>3 DEF Unmade, Stays
  <2> QED BY <1>w, <1>f, <2>2, <2>4 DEF Filing, Fewer
<1>1. CASE CallEvent
  <2> DEFINE e == Head(wire)
  <2>1. PICK f : f = Head(wire)
    OBVIOUS
  <2>2. f \in ToolFrames /\ FrameFiled(f) /\ f.kind = "tool"
    <3>1. wire # <<>> /\ f = wire[1] /\ 1 \in 1..Len(wire) /\ f.kind = "tool"
      BY <1>1, <1>t, <2>1 DEF CallEvent
    <3> QED BY <1>t, <1>u, <3>1, FramesAreFiled DEF ToolFrames, HistoryFrames
  <2>3. f.call \in Calls /\ phase[f.call] # "none" /\ f.thid = place[f.call]
    BY <2>2 DEF FrameFiled
  <2>4. /\ wire # <<>> /\ wire' = Tail(wire) /\ UNCHANGED <<output, child, phase, place>>
        /\ \/ UNCHANGED <<cards, watcher, toolCards>>
           \/ activeRun = f.thid /\ f.call \in Tools /\ HandleToolEvent(f)
           \/ activeRun = f.thid /\ f.call \in Spawns /\ HandleSpawnResult(f)
           \/ activeRun = f.thid /\ f.call \in Yields /\ HandleYield(f)
    BY <1>1, <2>1 DEF CallEvent, gatewayVars
  <2>5. FramesFiled'
    BY <1>f, <2>4 DEF Fewer
  <2>6. ASSUME NEW status, NEW out, Upsert(Card(activeRun, f.call, status, out, FALSE)),
               activeRun = f.thid
        PROVE  FiledWell(cards)'
    <3> DEFINE card == Card(activeRun, f.call, status, out, FALSE)
    <3>1. card.call = f.call /\ card.thid = activeRun /\ Upsert(card)
      BY <2>6 DEF Card
    <3> HIDE DEF card
    <3> QED BY <1>s, <1>u, <2>3, <2>6, <3>1, UpsertFiled
  <2>7. FiledWell(cards)'
    BY <1>o, <2>4, <2>6 DEF HandleToolEvent, HandleSpawnResult, HandleYield
  <2>8. Unmade'
    <3>1. \A c \in Calls : phase[c] = "none" =>
            /\ c \in Tools => toolCards'[c] = toolCards[c]
            /\ c \in Spawns => watcher'[c] = watcher[c]
      BY <1>t, <2>3, <2>4
      DEF HandleToolEvent, HandleSpawnResult, HandleYield
    <3> QED BY <1>u, <2>4, <3>1 DEF Unmade
  <2> QED BY <2>5, <2>7, <2>8 DEF Filing
<1>2. CASE Replayed
  <2>1. PICK f : f = Head(wire)
    OBVIOUS
  <2>2. FrameFiled(f) /\ f.kind = "history" /\ wire # <<>>
    <3>1. wire # <<>> /\ f = wire[1] /\ 1 \in 1..Len(wire) /\ f.kind = "history"
      BY <1>2, <1>t, <2>1 DEF Replayed
    <3> QED BY <1>t, <1>u, <3>1, FramesAreFiled
  <2>3. FiledWell(f.cards) /\ \A d \in f.cards : d.thid = f.thid
    BY <2>2 DEF FrameFiled
  <2>4. FiledWell(cards)'
    BY <1>2, <1>o, <1>s, <1>u, <2>1, <2>3, RestoreFiled DEF Replayed
  <2> QED BY <1>2, <1>f, <1>n, <2>2, <2>4
          DEF Replayed, adapterVars, gatewayVars, Filing, Fewer
<1>3. CASE OnConnected \/ OnDisconnected \/ OnConversationClose \/ GatewayReady
             \/ UNCHANGED cardsVars
  BY <1>3, <1>f, <1>n, <1>o
  DEF OnConnected, OnDisconnected, OnConversationClose, GatewayReady,
      adapterVars, gatewayVars, walletVars, cardsVars, Filing, Fewer
<1>4. CASE GatewayCloses \/ Stop
  BY <1>4, <1>f, <1>n, <1>o
  DEF GatewayCloses, Stop, Disconnect, walletVars, Filing, Fewer
<1>5. ASSUME NEW th \in Threads,
             OnConversationOpen(th) \/ TurnGivesUp(th) \/ TurnEnds(th)
      PROVE  Filing'
  BY <1>5, <1>f, <1>n, <1>o
  DEF OnConversationOpen, TurnGivesUp, TurnEnds,
      gatewayVars, walletVars, Filing, Fewer
<1>b. ASSUME NEW th \in Threads, TurnBegins(th) PROVE Filing'
  <2>1. Unmade'
    <3>1. \A c \in Tools : toolCards'[c] \in {<<>>, toolCards[c]}
      BY <1>b, <1>t DEF TurnBegins
    <3> QED BY <1>b, <1>u, <3>1 DEF TurnBegins, Unmade
  <2> QED BY <1>b, <1>f, <1>o, <2>1 DEF TurnBegins, walletVars, Filing, Fewer
<1>m. ASSUME NEW frame, FrameFiled(frame)', Send(frame) PROVE FramesFiled'
  <2>1. wire' = wire \/ wire' = Append(wire, frame)
    BY <1>m DEF Send
  <2> QED BY <1>m, <1>s, <1>u, <2>1, OneMoreFiled
<1>6. ASSUME NEW th \in Threads, HistoryAnswered(th) PROVE Filing'
  <2> DEFINE frame == [kind |-> "history", thid |-> th, cards |-> MapHistoryMessages(th)]
  <2>1. PICK f : f = frame
    OBVIOUS
  <2>2. FrameFiled(f)
    BY <2>1, HistoryIsFiled DEF FrameFiled
  <2>3. FrameFiled(f)' /\ Send(f)
    BY <1>6, <1>s, <2>1, <2>2, FrameStays DEF HistoryAnswered
  <2> QED BY <1>6, <1>m, <1>n, <1>o, <2>3
          DEF HistoryAnswered, gatewayVars, walletVars, Filing
<1>e. ASSUME NEW c \in Calls, NEW ph, NEW chunk, NEW upto, phase[c] # "none",
             Send(ToolEvent(place[c], c, ph, chunk, upto))
      PROVE  FramesFiled'
  <2>1. PICK f : f = ToolEvent(place[c], c, ph, chunk, upto)
    OBVIOUS
  <2>2. FrameFiled(f)
    BY <1>e, <2>1 DEF FrameFiled, ToolEvent
  <2>3. FrameFiled(f)'
    BY <1>s, <2>2, FrameStays
  <2> QED BY <1>e, <1>m, <2>1, <2>3
<1>7. ASSUME NEW c \in Calls, CallStarts(c) PROVE Filing'
  <2>1. PICK th \in running :
          /\ place' = [place EXCEPT ![c] = th]
          /\ Send(ToolEvent(th, c, "start", <<>>, 0))
    BY <1>7 DEF CallStarts
  <2>2. PICK f : f = ToolEvent(th, c, "start", <<>>, 0)
    OBVIOUS
  <2>3. phase'[c] = "started" /\ place'[c] = th
    BY <1>7, <1>t, <2>1 DEF CallStarts
  <2>4. FrameFiled(f)'
    BY <2>2, <2>3 DEF FrameFiled, ToolEvent
  <2>5. FramesFiled'
    BY <1>m, <2>1, <2>2, <2>4
  <2> QED BY <1>7, <1>n, <1>o, <2>5
      DEF CallStarts, adapterVars, walletVars, Filing
<1>8. ASSUME NEW c \in Tools, ToolUpdates(c) PROVE Filing'
  <2>1. c \in Calls /\ phase[c] # "none"
    BY <1>8, <1>c DEF ToolUpdates
  <2>2. FramesFiled'
    BY <1>8, <1>e, <2>1 DEF ToolUpdates
  <2>3. Unmade'
    BY <1>8, <1>t, <1>u, <2>1 DEF ToolUpdates, adapterVars, Unmade
  <2> QED BY <1>8, <1>o, <2>2, <2>3 DEF ToolUpdates, walletVars, Filing
<1>9. ASSUME NEW c \in Tools, ToolEnds(c) PROVE Filing'
  <2>1. c \in Calls /\ phase[c] # "none"
    BY <1>9, <1>c DEF ToolEnds
  <2>2. FramesFiled'
    BY <1>9, <1>e, <2>1 DEF ToolEnds
  <2> QED BY <1>9, <1>n, <1>o, <2>2 DEF ToolEnds, adapterVars, walletVars, Filing
<1>10. ASSUME NEW c \in Yields, YieldEnds(c) PROVE Filing'
  BY <1>10, <1>f, <1>n, <1>o DEF YieldEnds, adapterVars, walletVars, Filing, Fewer
<1>11. ASSUME NEW c \in Spawns, SpawnEnds(c) PROVE Filing'
  <2>1. PICK verdict \in {"accepted", "rejected"} :
          /\ phase' = [phase EXCEPT ![c] = verdict]
          /\ child' = [child EXCEPT ![c] = IF verdict = "accepted" THEN "running" ELSE @]
          /\ Send(ToolEvent(place[c], c, verdict, <<>>, 0))
    BY <1>11 DEF SpawnEnds
  <2>2. c \in Calls /\ phase[c] # "none"
    BY <1>11, <1>c DEF SpawnEnds
  <2>3. FramesFiled'
    BY <1>e, <2>1, <2>2
  <2>4. Unmade'
    BY <1>11, <1>t, <1>u, <2>1, <2>2 DEF SpawnEnds, adapterVars, Unmade
  <2> QED BY <1>11, <1>o, <2>3, <2>4 DEF SpawnEnds, walletVars, Filing
<1>12. ASSUME NEW c \in Spawns, ChildEnds(c) PROVE Filing'
  <2>1. phase[c] # "none"
    BY <1>12, <1>u, <1>c DEF ChildEnds, Unmade
  <2>2. Unmade'
    BY <1>12, <1>t, <1>u, <2>1 DEF ChildEnds, adapterVars, Unmade
  <2> QED BY <1>12, <1>f, <1>o, <2>2 DEF ChildEnds, walletVars, Filing, Fewer
<1>13. ASSUME NEW c \in Spawns, WaitAnswered(c) \/ WaitRejected(c) PROVE Filing'
  BY <1>13, <1>w DEF WaitAnswered, WaitRejected, gatewayVars
<1>14. ASSUME NEW c \in Spawns, ResultRead(c) PROVE Filing'
  <2>1. phase[c] # "none"
    BY <1>14, <1>u, <1>c DEF ResultRead, Unmade
  <2>2. FiledWell(cards)'
    BY <1>14, <1>a, <1>o, <2>1 DEF ResultRead
  <2>3. watcher' = [watcher EXCEPT ![c] = "over"]
    BY <1>14 DEF ResultRead, Settle
  <2>4. Unmade'
    BY <1>14, <1>t, <1>u, <2>1, <2>3 DEF ResultRead, gatewayVars, Unmade
  <2> QED BY <1>14, <1>f, <2>2, <2>4 DEF ResultRead, Filing, Fewer
<1> QED
  BY <1>1, <1>2, <1>3, <1>4, <1>5, <1>b, <1>6, <1>7, <1>8, <1>9, <1>10, <1>11, <1>12, <1>13,
     <1>14 DEF CardsNext

-----------------------------------------------------------------------------
(* Results are told truly.                                                 *)

LEMMA UpsertTold ==
  ASSUME Told, NEW card, card.result /\ card.status = "completed" =>
           card.call \in Spawns /\ child[card.call] = "ok",
         Upsert(card)
  PROVE  \A d \in cards' : d.result /\ d.status = "completed" =>
           d.call \in Spawns /\ child[d.call] = "ok"
  BY DEF Told, ToldOf, Upsert

LEMMA ToldAtFirst ==
  ASSUME CardsInit
  PROVE  Told
<1>1. Len(wire) = 0 /\ cards = {}
  BY DEF CardsInit
<1> QED BY <1>1 DEF Told, ToldOf, CardsInit

LEMMA ToldKept ==
  ASSUME CardTypes, Filing, Told, [CardsNext]_cardsVars
  PROVE  Told'
<1>t. /\ phase \in [Calls -> Phases]
      /\ watcher \in [Spawns -> {"none", "waiting", "reading", "over"}]
      /\ child \in [Spawns -> {"none", "running", "ok", "error"}]
      /\ wire \in Seq(ToolFrames \cup HistoryFrames)
  BY DEF CardTypes, CardsTypeOK
<1>c. Tools \subseteq Calls /\ Spawns \subseteq Calls /\ Yields \subseteq Calls
  BY DEF Calls
<1>d. Tools \cap Spawns = {} /\ Tools \cap Yields = {} /\ Spawns \cap Yields = {}
  BY CardsConstants
<1> DEFINE Own == \A c \in Spawns : /\ child[c] # "none" => phase[c] = "accepted"
                                    /\ watcher[c] = "reading" => child[c] = "ok"
           Honest(S) == \A d \in S : d.result /\ d.status = "completed" =>
                        d.call \in Spawns /\ child[d.call] = "ok"
           Plain(f) == f.kind = "history" => \A d \in f.cards : ~d.result
           Frames == \A i \in 1..Len(wire) : Plain(wire[i])
<1>u. Own /\ Honest(cards) /\ Frames
  BY DEF Told, ToldOf
<1>v. ASSUME Own', Honest(cards)', Frames' PROVE Told'
  BY <1>v DEF Told, ToldOf
<1> HIDE DEF Own, Honest, Frames
<1>f. ASSUME Fewer PROVE Frames'
  <2>1. CASE wire' = wire
    BY <1>u, <2>1 DEF Frames
  <2>2. CASE wire # <<>> /\ wire' = Tail(wire)
    <3>1. \A i \in 1..Len(wire') : i + 1 \in 1..Len(wire) /\ wire'[i] = wire[i + 1]
      BY <1>t, <2>2
    <3> QED BY <1>u, <3>1 DEF Frames
  <2>3. CASE wire' = <<>>
    BY <2>3 DEF Frames
  <2> QED BY <1>f, <2>1, <2>2, <2>3 DEF Fewer
<1>m. ASSUME NEW frame, Plain(frame), Send(frame) PROVE Frames'
  <2>1. CASE wire' = wire
    BY <1>u, <2>1 DEF Frames
  <2>2. CASE wire' = Append(wire, frame)
    <3>1. \A i \in 1..Len(wire') : (i \in 1..Len(wire) /\ wire'[i] = wire[i]) \/ wire'[i] = frame
      BY <1>t, <2>2
    <3> QED BY <1>m, <1>u, <3>1 DEF Frames
  <2> QED BY <1>m, <2>1, <2>2 DEF Send
<1>n. ASSUME UNCHANGED <<cards, child, watcher>>,
             \A c \in Spawns : phase[c] = "accepted" => phase'[c] = "accepted"
      PROVE  Own' /\ Honest(cards)'
  BY <1>n, <1>u DEF Own, Honest
<1>a. ASSUME UNCHANGED <<child, phase>>, NEW card, ~card.result, Upsert(card)
      PROVE  Honest(cards)'
  <2>1. \A d \in cards' : d.result /\ d.status = "completed" =>
          d.call \in Spawns /\ child[d.call] = "ok"
    BY <1>a, UpsertTold
  <2> QED BY <1>a, <2>1 DEF Honest
<1>r. ASSUME UNCHANGED <<child, phase>>, NEW c \in Spawns, NEW status, Settle(c, status),
             status = "completed" => child[c] = "ok"
      PROVE  Honest(cards)'
  <2> DEFINE card == Card(place[c], c, status, <<>>, TRUE)
  <2>1. card.call = c /\ card.status = status /\ Upsert(card)
    BY <1>r DEF Card, Settle, Filed
  <2> HIDE DEF card
  <2>2. \A d \in cards' : d.result /\ d.status = "completed" =>
          d.call \in Spawns /\ child[d.call] = "ok"
    BY <1>r, <2>1, UpsertTold
  <2> QED BY <1>r, <2>2 DEF Honest
<1>w. ASSUME UNCHANGED <<child, phase, wire>>, NEW c \in Spawns, NEW verdict,
             Answered(c, verdict), verdict = "ok" => child[c] = "ok"
      PROVE  Told'
  <2>1. Honest(cards)'
    BY <1>w, <1>r, <1>u DEF Answered, Honest
  <2>2. Own'
    BY <1>w, <1>u, <1>t DEF Answered, Settle, Own
  <2> QED BY <1>w, <1>f, <1>v, <2>1, <2>2 DEF Fewer
<1>1. CASE CallEvent
  <2>1. PICK f : f = Head(wire)
    OBVIOUS
  <2>2. /\ wire # <<>> /\ wire' = Tail(wire) /\ UNCHANGED <<child, phase>>
        /\ \/ UNCHANGED <<cards, watcher>>
           \/ f.call \in Tools /\ HandleToolEvent(f)
           \/ f.call \in Spawns /\ HandleSpawnResult(f)
           \/ f.call \in Yields /\ HandleYield(f)
    BY <1>1, <2>1 DEF CallEvent, gatewayVars
  <2>3. \A status, out : ~Card(activeRun, f.call, status, out, FALSE).result
    BY DEF Card
  <2>4. Honest(cards)'
    <3>1. CASE UNCHANGED cards
      BY <1>u, <2>2, <3>1 DEF Honest
    <3>2. CASE \E status, out : Upsert(Card(activeRun, f.call, status, out, FALSE))
      BY <1>a, <2>2, <2>3, <3>2
    <3> QED
      BY <2>2, <3>1, <3>2 DEF HandleToolEvent, HandleSpawnResult, HandleYield
  <2>5. Own'
    BY <1>u, <1>t, <2>2
    DEF HandleToolEvent, HandleSpawnResult, HandleYield, Own
  <2> QED BY <1>f, <1>v, <2>2, <2>4, <2>5 DEF Fewer
<1>2. CASE Replayed
  <2>1. PICK f : f = Head(wire)
    OBVIOUS
  <2>2. Plain(f) /\ f.kind = "history" /\ wire # <<>>
    BY <1>2, <1>t, <1>u, <2>1 DEF Replayed, Frames
  <2>3. Honest(cards)'
    BY <1>2, <1>u, <2>1, <2>2 DEF Replayed, Restore, gatewayVars, Honest
  <2>4. Own'
    BY <1>2, <1>u DEF Replayed, adapterVars, gatewayVars, Own
  <2> QED BY <1>2, <1>f, <1>v, <2>2, <2>3, <2>4 DEF Replayed, Fewer
<1>3. CASE OnConnected \/ OnDisconnected \/ OnConversationClose \/ GatewayReady
             \/ UNCHANGED cardsVars
  BY <1>3, <1>f, <1>n, <1>v
  DEF OnConnected, OnDisconnected, OnConversationClose, GatewayReady,
      adapterVars, gatewayVars, walletVars, cardsVars, Fewer
<1>4. CASE GatewayCloses \/ Stop
  BY <1>4, <1>c, <1>f, <1>n, <1>v
  DEF GatewayCloses, Stop, Disconnect, walletVars, Fewer
<1>5. ASSUME NEW th \in Threads,
             OnConversationOpen(th) \/ TurnBegins(th) \/ TurnGivesUp(th) \/ TurnEnds(th)
      PROVE  Told'
  BY <1>5, <1>f, <1>n, <1>v
  DEF OnConversationOpen, TurnBegins, TurnGivesUp, TurnEnds,
      gatewayVars, walletVars, Fewer
<1>6. ASSUME NEW th \in Threads, HistoryAnswered(th) PROVE Told'
  <2>1. PICK f : f = [kind |-> "history", thid |-> th, cards |-> MapHistoryMessages(th)]
    OBVIOUS
  <2>2. Plain(f)
    BY <2>1, HistoryIsFiled
  <2>3. Frames'
    BY <1>6, <1>m, <2>1, <2>2 DEF HistoryAnswered
  <2> QED BY <1>6, <1>n, <1>v, <2>3 DEF HistoryAnswered, gatewayVars, walletVars
<1>e. ASSUME NEW th, NEW c, NEW ph, NEW chunk, NEW upto, Send(ToolEvent(th, c, ph, chunk, upto))
      PROVE  Frames'
  <2>1. PICK f : f = ToolEvent(th, c, ph, chunk, upto)
    OBVIOUS
  <2>2. Plain(f)
    BY <2>1 DEF ToolEvent
  <2> QED BY <1>e, <1>m, <2>1, <2>2
<1>7. ASSUME NEW c \in Calls, CallStarts(c) PROVE Told'
  <2>1. Frames'
    BY <1>7, <1>e DEF CallStarts
  <2> QED BY <1>7, <1>n, <1>t, <1>v, <1>c, <2>1
          DEF CallStarts, adapterVars, walletVars
<1>8. ASSUME NEW c \in Tools, ToolUpdates(c) \/ ToolEnds(c) PROVE Told'
  <2>1. Frames'
    BY <1>8, <1>e DEF ToolUpdates, ToolEnds, ToolEvent
  <2> QED BY <1>8, <1>n, <1>t, <1>v, <1>c, <1>d, <2>1
          DEF ToolUpdates, ToolEnds, adapterVars, walletVars
<1>9. ASSUME NEW c \in Yields, YieldEnds(c) PROVE Told'
  BY <1>9, <1>f, <1>n, <1>t, <1>v, <1>c, <1>d
  DEF YieldEnds, adapterVars, walletVars, Fewer
<1>10. ASSUME NEW c \in Spawns, SpawnEnds(c) PROVE Told'
  <2>1. PICK verdict \in {"accepted", "rejected"} :
          /\ phase' = [phase EXCEPT ![c] = verdict]
          /\ child' = [child EXCEPT ![c] = IF verdict = "accepted" THEN "running" ELSE @]
          /\ Send(ToolEvent(place[c], c, verdict, <<>>, 0))
    BY <1>10 DEF SpawnEnds
  <2>2. child[c] = "none" /\ phase[c] = "started"
    BY <1>10, <1>u DEF SpawnEnds, Own
  <2>3. Frames'
    BY <1>e, <2>1 DEF ToolEvent
  <2>4. Own'
    BY <1>10, <1>t, <1>u, <1>c, <2>1, <2>2 DEF SpawnEnds, adapterVars, Own
  <2>5. Honest(cards)'
    BY <1>10, <1>t, <1>u, <2>1, <2>2 DEF SpawnEnds, walletVars, Honest
  <2> QED BY <1>v, <2>3, <2>4, <2>5
<1>11. ASSUME NEW c \in Spawns, ChildEnds(c) PROVE Told'
  <2>1. Own' /\ Honest(cards)'
    BY <1>11, <1>t, <1>u DEF ChildEnds, adapterVars, walletVars, Own, Honest
  <2> QED BY <1>11, <1>f, <1>v, <2>1 DEF ChildEnds, Fewer
<1>12. ASSUME NEW c \in Spawns, WaitAnswered(c) \/ WaitRejected(c) PROVE Told'
  BY <1>12, <1>w DEF WaitAnswered, WaitRejected, gatewayVars
<1>13. ASSUME NEW c \in Spawns, ResultRead(c) PROVE Told'
  <2>1. Honest(cards)'
    BY <1>13, <1>r, <1>u DEF ResultRead, gatewayVars, Own, Honest
  <2>2. Own'
    BY <1>13, <1>t, <1>u DEF ResultRead, Settle, gatewayVars, Own
  <2> QED BY <1>13, <1>f, <1>v, <2>1, <2>2 DEF ResultRead, Fewer
<1> QED
  BY <1>1, <1>2, <1>3, <1>4, <1>5, <1>6, <1>7, <1>8, <1>9, <1>10, <1>11, <1>12, <1>13
  DEF CardsNext
-----------------------------------------------------------------------------
(* Outputs grow.                                                           *)

FrameOf(w, c, i) == w[i].kind = "tool" /\ w[i].call = c

\* What a frame of tool c tells.
Tells(c, f) ==
  \/ f.phase = "start" /\ f.upto = 0
  \/ f.phase = "update" /\ f.upto \in 1..MaxOutput /\ f.chunk = Chunk(c, f.upto)
  \/ /\ f.phase = "result" /\ f.upto \in 1..MaxOutput
     /\ \E from \in 1..f.upto : (c \in Deltas \/ from = 1) /\ f.chunk = Part(c, from, f.upto)

\* The frames of c in w come in the order of what they tell.
Framed(w, c, n) ==
  \A i \in 1..Len(w) : FrameOf(w, c, i) =>
    /\ Tells(c, w[i]) /\ w[i].upto <= n
    /\ \A j \in 1..(i - 1) : FrameOf(w, c, j) =>
         w[j].upto <= w[i].upto /\ (w[i].phase = "update" => w[j].upto < w[i].upto)

\* How far the output was before a frame.
Before(f) == IF f.phase = "update" THEN f.upto - 1 ELSE f.upto

\* Nothing is missing between m and a frame nor, while the call is open,
\* between m and n.
Gapless(w, c, m, n, open) ==
  /\ \A i \in 1..Len(w) : FrameOf(w, c, i) =>
       \/ m = Before(w[i])
       \/ \E j \in 1..(i - 1) : FrameOf(w, c, j) /\ w[j].upto = Before(w[i])
  /\ open => m = n \/ \E i \in 1..Len(w) : FrameOf(w, c, i) /\ w[i].upto = n

\* What is kept of c is a beginning that its frames go on from.
CaughtAt(w, c, kept, m, n, open) ==
  /\ kept = Beginning(c, m)
  /\ \A i \in 1..Len(w) : FrameOf(w, c, i) => m <= w[i].upto
  /\ c \in Deltas => Gapless(w, c, m, n, open)
Caught(w, c, kept, n, open) == \E m \in 0..n : CaughtAt(w, c, kept, m, n, open)

\* The cards of c in S show a beginning of the first n pieces.
Begins(c, S, n) == \A d \in S : d.call = c => \E b \in 0..n : d.out = Beginning(c, b)

\* The slot hears of c.
Following(c) == Followed(c) /\ (c \in Deltas => activeRun = place[c])

Growing ==
  \A c \in Tools :
    /\ Framed(wire, c, output[c])
    /\ Following(c) => Caught(wire, c, toolCards[c], output[c], phase[c] = "started")
    /\ Followed(c) =>
         /\ Begins(c, cards, output[c])
         /\ \A i \in 1..Len(wire) : wire[i].kind = "history" => Begins(c, wire[i].cards, output[c])

LEMMA NothingYet ==
  ASSUME NEW c \in Tools
  PROVE  Part(c, 1, 0) = <<>> /\ <<>> = Beginning(c, 0)
<1>1. 0 \in 0..MaxOutput /\ 0 <= Cap
  BY CardsConstants
<1>2. Part(c, 1, 0) = <<>>
  BY SubSeqEmpty DEF Part
<1> QED BY <1>1, <1>2, BeginningWhole

LEMMA RecordedOutput ==
  ASSUME NEW c \in Tools, NEW n \in 0..MaxOutput
  PROVE  MergeToolOutput(<<>>, Part(c, 1, n)) = Beginning(c, n)
<1>1. IsPrefix(<<>>, Part(c, 1, n))
  <2>1. /\ SubSeq(<<>>, 1, 0) = <<>> /\ SubSeq(Part(c, 1, n), 1, 0) = <<>>
        /\ Len(<<>>) = 0 /\ Len(Part(c, 1, n)) = n
    BY WholeIs, SubSeqEmpty
  <2> QED BY <2>1, CardsConstants DEF IsPrefix
<1> QED BY <1>1 DEF MergeToolOutput, Beginning

LEMMA ToldUpto ==
  ASSUME NEW c, NEW f, Tells(c, f)
  PROVE  /\ f.upto \in 0..MaxOutput /\ Before(f) \in 0..MaxOutput /\ Before(f) <= f.upto
         /\ f.phase \in {"start", "update", "result"}
  BY CardsConstants DEF Tells, Before

LEMMA FramedTail ==
  ASSUME NEW w \in Seq(ToolFrames \cup HistoryFrames), w # <<>>, NEW c, NEW n, Framed(w, c, n)
  PROVE  Framed(Tail(w), c, n)
<1> DEFINE v == Tail(w)
<1>1. Len(v) = Len(w) - 1 /\ \A i \in 1..Len(v) : i + 1 \in 1..Len(w) /\ v[i] = w[i + 1]
  OBVIOUS
<1>l. Len(v) \in Nat
  OBVIOUS
<1> HIDE DEF v
<1>2. \A i \in 1..Len(v) : FrameOf(v, c, i) <=> FrameOf(w, c, i + 1)
  BY <1>1 DEF FrameOf
<1>3. \A i \in 1..Len(v) : \A j \in 1..(i - 1) : j \in 1..Len(v) /\ j + 1 \in 1..((i + 1) - 1)
  BY <1>l
<1>4. ASSUME NEW i \in 1..Len(v), FrameOf(v, c, i)
      PROVE  /\ Tells(c, v[i]) /\ v[i].upto <= n
             /\ \A j \in 1..(i - 1) : FrameOf(v, c, j) =>
                  v[j].upto <= v[i].upto /\ (v[i].phase = "update" => v[j].upto < v[i].upto)
  <2>1. i + 1 \in 1..Len(w) /\ FrameOf(w, c, i + 1) /\ v[i] = w[i + 1]
    BY <1>1, <1>2, <1>4
  <2>2. /\ Tells(c, w[i + 1]) /\ w[i + 1].upto <= n
        /\ \A j \in 1..((i + 1) - 1) : FrameOf(w, c, j) =>
             /\ w[j].upto <= w[i + 1].upto
             /\ w[i + 1].phase = "update" => w[j].upto < w[i + 1].upto
    BY <2>1 DEF Framed
  <2> QED BY <1>1, <1>2, <1>3, <2>1, <2>2
<1> QED BY <1>4 DEF Framed, v

LEMMA FramedMore ==
  ASSUME NEW w \in Seq(ToolFrames \cup HistoryFrames), NEW f \in ToolFrames \cup HistoryFrames,
         NEW c, NEW n \in Nat, NEW k \in Nat, n <= k, Framed(w, c, n),
         f.kind = "tool" /\ f.call = c => Tells(c, f) /\ f.upto = k /\ Before(f) = n
  PROVE  Framed(Append(w, f), c, k)
<1> DEFINE v == Append(w, f)
<1>1. /\ Len(v) = Len(w) + 1 /\ Len(w) \in Nat /\ v[Len(v)] = f
      /\ \A i \in 1..Len(v) : i # Len(v) => i \in 1..Len(w) /\ v[i] = w[i]
  OBVIOUS
<1> HIDE DEF v
<1>2. \A i \in 1..Len(v) : i # Len(v) => (FrameOf(v, c, i) <=> FrameOf(w, c, i))
  BY <1>1 DEF FrameOf
<1>3. FrameOf(v, c, Len(v)) => Tells(c, f) /\ f.upto = k /\ Before(f) = n
  BY <1>1 DEF FrameOf
<1>4. ASSUME NEW i \in 1..Len(v), FrameOf(v, c, i)
      PROVE  /\ Tells(c, v[i]) /\ v[i].upto <= k
             /\ \A j \in 1..(i - 1) : FrameOf(v, c, j) =>
                  v[j].upto <= v[i].upto /\ (v[i].phase = "update" => v[j].upto < v[i].upto)
  <2>0. \A j \in 1..(i - 1) : j \in 1..Len(v) /\ j # Len(v)
    BY <1>1
  <2>1. CASE i = Len(v)
    <3>1. \A j \in 1..(i - 1) : FrameOf(v, c, j) => v[j].upto <= n /\ v[j].upto \in Nat
      BY <1>1, <1>2, <2>0, ToldUpto DEF Framed
    <3>2. f.phase = "update" => n < k
      BY <1>3, <1>4, <2>1 DEF Before
    <3> QED BY <1>1, <1>3, <1>4, <2>1, <3>1, <3>2
  <2>2. CASE i # Len(v)
    <3>1. i \in 1..Len(w) /\ FrameOf(w, c, i) /\ v[i] = w[i]
      BY <1>1, <1>2, <1>4, <2>2
    <3>2. /\ Tells(c, w[i]) /\ w[i].upto <= n
          /\ \A j \in 1..(i - 1) : FrameOf(w, c, j) =>
               w[j].upto <= w[i].upto /\ (w[i].phase = "update" => w[j].upto < w[i].upto)
      BY <3>1 DEF Framed
    <3>3. w[i].upto \in Nat
      BY <3>2, ToldUpto
    <3>4. \A j \in 1..(i - 1) : v[j] = w[j] /\ (FrameOf(v, c, j) <=> FrameOf(w, c, j))
      BY <1>1, <1>2, <2>0
    <3> QED BY <3>1, <3>2, <3>3, <3>4
  <2> QED BY <2>1, <2>2
<1> QED BY <1>4 DEF Framed, v

\* A frame that is not heard of c goes: of a tool that tells snapshots, any.
LEMMA CaughtTail ==
  ASSUME NEW w \in Seq(ToolFrames \cup HistoryFrames), w # <<>>,
         NEW c, NEW kept, NEW n, NEW m, NEW open \in BOOLEAN, CaughtAt(w, c, kept, m, n, open),
         c \in Deltas => ~FrameOf(w, c, 1)
  PROVE  CaughtAt(Tail(w), c, kept, m, n, open)
<1> DEFINE v == Tail(w)
<1>1. /\ Len(v) = Len(w) - 1 /\ Len(v) \in Nat
      /\ \A i \in 1..Len(v) : i + 1 \in 1..Len(w) /\ v[i] = w[i + 1]
  OBVIOUS
<1> HIDE DEF v
<1>2. \A i \in 1..Len(v) : FrameOf(v, c, i) <=> FrameOf(w, c, i + 1)
  BY <1>1 DEF FrameOf
<1>3. \A i \in 1..Len(v) : FrameOf(v, c, i) => m <= v[i].upto
  BY <1>1, <1>2 DEF CaughtAt
<1>4. ASSUME c \in Deltas PROVE Gapless(v, c, m, n, open)
  <2>1. ASSUME NEW i \in 1..Len(v), FrameOf(v, c, i), m # Before(v[i])
        PROVE  \E j \in 1..(i - 1) : FrameOf(v, c, j) /\ v[j].upto = Before(v[i])
    <3>1. PICK j \in 1..((i + 1) - 1) : FrameOf(w, c, j) /\ w[j].upto = Before(w[i + 1])
      BY <1>1, <1>2, <1>4, <2>1 DEF CaughtAt, Gapless
    <3>2. j # 1
      BY <1>4, <3>1
    <3>3. j - 1 \in 1..(i - 1) /\ j - 1 \in 1..Len(v) /\ (j - 1) + 1 = j
      BY <1>1, <3>2
    <3>4. v[j - 1] = w[j] /\ FrameOf(v, c, j - 1)
      BY <1>1, <1>2, <3>1, <3>3
    <3> QED BY <1>1, <3>1, <3>3, <3>4
  <2>2. ASSUME open, m # n PROVE \E i \in 1..Len(v) : FrameOf(v, c, i) /\ v[i].upto = n
    <3>1. PICK j \in 1..Len(w) : FrameOf(w, c, j) /\ w[j].upto = n
      BY <1>4, <2>2 DEF CaughtAt, Gapless
    <3>2. j # 1
      BY <1>4, <3>1
    <3>3. j - 1 \in 1..Len(v) /\ (j - 1) + 1 = j
      BY <1>1, <3>2
    <3> QED BY <1>1, <1>2, <3>1, <3>3
  <2> QED BY <2>1, <2>2 DEF Gapless
<1> QED BY <1>3, <1>4 DEF CaughtAt, v

LEMMA CaughtMore ==
  ASSUME NEW w \in Seq(ToolFrames \cup HistoryFrames), NEW f \in ToolFrames \cup HistoryFrames,
         NEW c, NEW kept, NEW n \in Nat, NEW m \in 0..n, NEW k \in Nat, n <= k,
         NEW open \in BOOLEAN, NEW still \in BOOLEAN, CaughtAt(w, c, kept, m, n, open),
         f.kind = "tool" /\ f.call = c => f.upto = k /\ Before(f) = n /\ (open \/ n = 0),
         ~(f.kind = "tool" /\ f.call = c) => n = k /\ (still => open)
  PROVE  CaughtAt(Append(w, f), c, kept, m, k, still)
<1> DEFINE v == Append(w, f)
<1>1. /\ Len(v) = Len(w) + 1 /\ Len(w) \in Nat /\ v[Len(v)] = f
      /\ \A i \in 1..Len(v) : i # Len(v) => i \in 1..Len(w) /\ v[i] = w[i]
      /\ \A i \in 1..Len(w) : i \in 1..Len(v) /\ i # Len(v) /\ v[i] = w[i]
  OBVIOUS
<1> HIDE DEF v
<1>2. \A i \in 1..Len(v) : i # Len(v) => (FrameOf(v, c, i) <=> FrameOf(w, c, i))
  BY <1>1 DEF FrameOf
<1>3. FrameOf(v, c, Len(v)) <=> f.kind = "tool" /\ f.call = c
  BY <1>1 DEF FrameOf
<1>4. \A i \in 1..Len(v) : FrameOf(v, c, i) => m <= v[i].upto
  BY <1>1, <1>2, <1>3 DEF CaughtAt
<1>5. ASSUME c \in Deltas PROVE Gapless(v, c, m, k, still)
  <2>0. open => m = n \/ \E j \in 1..Len(w) : FrameOf(v, c, j) /\ v[j].upto = n
    BY <1>1, <1>2, <1>5 DEF CaughtAt, Gapless
  <2>1. ASSUME NEW i \in 1..Len(v), FrameOf(v, c, i), m # Before(v[i])
        PROVE  \E j \in 1..(i - 1) : FrameOf(v, c, j) /\ v[j].upto = Before(v[i])
    <3>1. CASE i = Len(v)
      <4>1. v[i] = f /\ Before(f) = n /\ (open \/ n = 0)
        BY <1>1, <1>3, <2>1, <3>1
      <4>2. open /\ m # n
        BY <2>1, <4>1
      <4>3. 1..(i - 1) = 1..Len(w)
        BY <1>1, <3>1
      <4> QED BY <2>0, <4>1, <4>2, <4>3
    <3>2. CASE i # Len(v)
      <4>1. i \in 1..Len(w) /\ v[i] = w[i] /\ FrameOf(w, c, i)
        BY <1>1, <1>2, <2>1, <3>2
      <4>2. PICK j \in 1..(i - 1) : FrameOf(w, c, j) /\ w[j].upto = Before(w[i])
        BY <1>5, <2>1, <4>1 DEF CaughtAt, Gapless
      <4>3. j \in 1..Len(w)
        BY <1>1, <4>1
      <4> QED BY <1>1, <1>2, <4>1, <4>2, <4>3
    <3> QED BY <3>1, <3>2
  <2>2. ASSUME still, m # k PROVE \E i \in 1..Len(v) : FrameOf(v, c, i) /\ v[i].upto = k
    <3>1. CASE f.kind = "tool" /\ f.call = c
      <4>1. Len(v) \in 1..Len(v)
        BY <1>1
      <4> QED BY <1>1, <1>3, <3>1, <4>1
    <3>2. CASE ~(f.kind = "tool" /\ f.call = c)
      BY <1>1, <2>0, <2>2, <3>2
    <3> QED BY <3>1, <3>2
  <2> QED BY <2>1, <2>2 DEF Gapless
<1> QED BY <1>4, <1>5 DEF CaughtAt, v

\* What is kept of a tool when the frame that came first is merged.
LEMMA CaughtHead ==
  ASSUME NEW c \in Tools, c \in Deltas => ~Repeats(c),
         NEW w \in Seq(ToolFrames \cup HistoryFrames), w # <<>>, FrameOf(w, c, 1),
         NEW kept, NEW n \in 0..MaxOutput, NEW open \in BOOLEAN,
         Framed(w, c, n), Caught(w, c, kept, n, open),
         NEW merged, merged = IF w[1].phase = "start" THEN <<>>
                              ELSE MergeToolOutput(kept, w[1].chunk)
  PROVE  \E b \in 0..n : merged = Beginning(c, b) /\ CaughtAt(Tail(w), c, merged, b, n, open)
<1> DEFINE f == w[1]
           k == f.upto
           v == Tail(w)
<1>w. /\ 1 \in 1..Len(w) /\ Len(v) = Len(w) - 1 /\ Len(v) \in Nat
      /\ \A i \in 1..Len(v) : i + 1 \in 1..Len(w) /\ v[i] = w[i + 1]
  OBVIOUS
<1>1. Tells(c, f) /\ k <= n
  BY <1>w DEF Framed
<1>2. /\ k \in 0..MaxOutput /\ k \in Nat /\ n \in Nat /\ Before(f) \in 0..MaxOutput
      /\ f.phase \in {"start", "update", "result"}
  BY <1>1, ToldUpto, CardsConstants
<1>3. PICK m \in 0..n : CaughtAt(w, c, kept, m, n, open)
  BY DEF Caught
<1>4. kept = Beginning(c, m) /\ m <= k
  BY <1>3, <1>w DEF CaughtAt
<1>5. c \in Deltas => m = Before(f)
  <2>1. \A j \in 1..(1 - 1) : FALSE
    OBVIOUS
  <2> QED BY <1>3, <1>w, <2>1 DEF CaughtAt, Gapless
<1>6. \A i \in 2..Len(w) : FrameOf(w, c, i) =>
        /\ w[i].upto \in Nat /\ k <= w[i].upto
        /\ w[i].phase = "update" => k < w[i].upto
  <2>1. ASSUME NEW i \in 2..Len(w), FrameOf(w, c, i)
        PROVE  /\ w[i].upto \in Nat /\ k <= w[i].upto
               /\ w[i].phase = "update" => k < w[i].upto
    <3>1. i \in 1..Len(w) /\ 1 \in 1..(i - 1)
      BY <1>w
    <3>2. Tells(c, w[i])
      BY <2>1, <3>1 DEF Framed
    <3> QED BY <2>1, <3>1, <3>2, ToldUpto DEF Framed
  <2> QED BY <2>1
<1> HIDE DEF f, k, v
<1>7. PICK b \in 0..k : merged = Beginning(c, b) /\ (c \in Deltas => b = k)
  <2>1. CASE f.phase = "start"
    <3>1. k = 0
      BY <1>1, <2>1 DEF Tells, k
    <3> QED BY <1>2, <2>1, <3>1, NothingYet DEF f
  <2>2. CASE f.phase = "update" /\ c \in Deltas
    <3>1. k \in 1..MaxOutput /\ f.chunk = Part(c, k, k) /\ m = k - 1
      BY <1>1, <1>5, <2>2 DEF Tells, Chunk, Before, k
    <3>2. MergeToolOutput(Beginning(c, k - 1), Part(c, k, k)) = Beginning(c, k)
      BY <2>2, <3>1, DeltaMerges
    <3> QED BY <1>2, <1>4, <2>2, <3>1, <3>2 DEF f
  <2>3. CASE f.phase = "result" /\ c \in Deltas
    <3>1. m = k /\ k \in 1..MaxOutput
      BY <1>1, <1>5, <2>3 DEF Tells, Before, k
    <3>2. PICK from \in 1..k : f.chunk = Part(c, from, k)
      BY <1>1, <2>3 DEF Tells, k
    <3>3. MergeToolOutput(Beginning(c, k), Part(c, from, k)) = Beginning(c, k)
      BY <3>1, TailMerges
    <3> QED BY <1>2, <1>4, <2>3, <3>1, <3>2, <3>3 DEF f
  <2>4. CASE f.phase # "start" /\ c \notin Deltas
    <3>1. k \in 1..MaxOutput /\ f.chunk = Part(c, 1, k)
      BY <1>1, <2>4 DEF Tells, Chunk, k
    <3>2. m \in 0..k
      BY <1>2, <1>4
    <3>3. PICK b \in m..k : MergeToolOutput(Beginning(c, m), Part(c, 1, k)) = Beginning(c, b)
      BY <3>1, <3>2, SnapshotMerges
    <3> QED BY <1>4, <2>4, <3>1, <3>2, <3>3 DEF f
  <2> QED BY <1>2, <2>1, <2>2, <2>3, <2>4
<1>8. b \in 0..n
  BY <1>1, <1>2
<1>9. CaughtAt(v, c, merged, b, n, open)
  <2>f. \A i \in 1..Len(v) : /\ FrameOf(v, c, i) <=> FrameOf(w, c, i + 1)
                             /\ i + 1 \in 2..Len(w)
    BY <1>w DEF FrameOf
  <2>1. \A i \in 1..Len(v) : FrameOf(v, c, i) => b <= v[i].upto
    BY <1>2, <1>6, <1>w, <2>f
  <2>2. ASSUME c \in Deltas PROVE Gapless(v, c, b, n, open)
    <3>0. b = k /\ m = Before(f)
      BY <1>5, <1>7, <2>2
    <3>1. ASSUME NEW i \in 1..Len(v), FrameOf(v, c, i), b # Before(v[i])
          PROVE  \E j \in 1..(i - 1) : FrameOf(v, c, j) /\ v[j].upto = Before(v[i])
      <4>1. i + 1 \in 2..Len(w) /\ FrameOf(w, c, i + 1) /\ v[i] = w[i + 1] /\ i + 1 \in 1..Len(w)
        BY <1>w, <2>f, <3>1
      <4>2. k <= Before(v[i])
        BY <1>2, <1>6, <4>1 DEF Before
      <4>3. Before(f) <= k
        BY <1>1, ToldUpto DEF k
      <4>4. m # Before(v[i])
        <5>1. Before(v[i]) \in Nat
          BY <4>1, ToldUpto, CardsConstants DEF Framed
        <5> QED BY <1>2, <3>0, <3>1, <4>2, <4>3, <5>1
      <4>5. PICK j \in 1..((i + 1) - 1) : FrameOf(w, c, j) /\ w[j].upto = Before(v[i])
        BY <1>3, <2>2, <4>1, <4>4 DEF CaughtAt, Gapless
      <4>6. j # 1
        BY <3>0, <3>1, <4>5 DEF f, k
      <4>7. j - 1 \in 1..(i - 1) /\ j - 1 \in 1..Len(v) /\ (j - 1) + 1 = j
        BY <1>w, <4>6
      <4>8. v[j - 1] = w[j] /\ FrameOf(v, c, j - 1)
        BY <1>w, <2>f, <4>5, <4>7
      <4> QED BY <4>5, <4>7, <4>8
    <3>2. ASSUME open, b # n PROVE \E i \in 1..Len(v) : FrameOf(v, c, i) /\ v[i].upto = n
      <4>1. m # n
        <5>1. Before(f) <= k
          BY <1>1, ToldUpto DEF k
        <5> QED BY <1>1, <1>2, <3>0, <3>2, <5>1
      <4>2. PICK j \in 1..Len(w) : FrameOf(w, c, j) /\ w[j].upto = n
        BY <1>3, <2>2, <3>2, <4>1 DEF CaughtAt, Gapless
      <4>3. j # 1
        BY <3>0, <3>2, <4>2 DEF f, k
      <4>4. j - 1 \in 1..Len(v) /\ (j - 1) + 1 = j
        BY <1>w, <4>3
      <4> QED BY <1>w, <2>f, <4>2, <4>4
    <3> QED BY <3>1, <3>2 DEF Gapless
  <2> QED BY <1>7, <2>1, <2>2 DEF CaughtAt
<1> QED BY <1>7, <1>8, <1>9 DEF v

LEMMA HistoryBegins ==
  ASSUME CardTypes, NEW th, NEW c \in Tools
  PROVE  Begins(c, MapHistoryMessages(th), output[c])
<1> SUFFICES ASSUME NEW d \in MapHistoryMessages(th), d.call = c
             PROVE  \E b \in 0..output[c] : d.out = Beginning(c, b)
  BY DEF Begins
<1>1. output[c] \in 0..MaxOutput /\ 0 \in 0..output[c] /\ output[c] \in 0..output[c]
  BY CardsConstants DEF CardTypes, CardsTypeOK
<1>2. d.out = <<>> \/ d.out = MergeToolOutput(<<>>, Part(c, 1, output[c]))
  BY CardsConstants DEF MapHistoryMessages, Card
<1> QED BY <1>1, <1>2, NothingYet, RecordedOutput

\* A turn that has the slot has a connection.
Attached == activeRun # NoRun => client

LEMMA AttachedAtFirst == CardsInit => Attached
  BY DEF CardsInit, Attached

LEMMA AttachedKept ==
  ASSUME Attached, [CardsNext]_cardsVars
  PROVE  Attached'
<1>1. CASE UNCHANGED <<activeRun, client>> \/ activeRun' = NoRun \/ client'
  BY <1>1 DEF Attached
<1>2. ASSUME NEW th \in Threads, TurnBegins(th) PROVE client'
  BY <1>2 DEF TurnBegins
<1>3. ASSUME NEW th \in Threads, TurnEnds(th)
      PROVE  UNCHANGED <<activeRun, client>> \/ activeRun' = NoRun
  BY <1>3 DEF TurnEnds
<1> QED
  BY <1>1, <1>2, <1>3
  DEF CardsNext, CallEvent, Replayed, OnConnected, OnDisconnected, OnConversationClose,
      GatewayCloses, GatewayReady, Stop, Disconnect, OnConversationOpen, HistoryAnswered,
      TurnGivesUp, CallStarts, ToolUpdates, ToolEnds, YieldEnds, SpawnEnds, ChildEnds,
      WaitAnswered, WaitRejected, ResultRead, adapterVars, cardsVars

LEMMA GrowingAtFirst ==
  ASSUME CardsInit
  PROVE  Growing
<1>1. Len(wire) = 0 /\ cards = {}
  BY DEF CardsInit
<1> SUFFICES ASSUME NEW c \in Tools
             PROVE  /\ Framed(wire, c, output[c])
                    /\ Caught(wire, c, toolCards[c], output[c], phase[c] = "started")
                    /\ Begins(c, cards, output[c])
                    /\ \A i \in 1..Len(wire) :
                         wire[i].kind = "history" => Begins(c, wire[i].cards, output[c])
  BY DEF Growing
<1>2. toolCards[c] = Beginning(c, 0) /\ output[c] = 0 /\ c \in Calls /\ phase[c] = "none"
  BY NothingYet DEF CardsInit, Calls
<1>3. CaughtAt(wire, c, toolCards[c], 0, 0, phase[c] = "started")
  BY <1>1, <1>2 DEF CaughtAt, Gapless
<1>4. 0 \in 0..0
  OBVIOUS
<1> QED BY <1>1, <1>2, <1>3, <1>4 DEF Framed, Caught, Begins

LEMMA GrowingOf ==
  ASSUME CardTypes, CardTypes', Filing, Attached, Growing, [CardsNext]_cardsVars, NEW c \in Tools
  PROVE  /\ Framed(wire, c, output[c])'
         /\ Following(c)' => Caught(wire, c, toolCards[c], output[c], phase[c] = "started")'
         /\ Followed(c)' =>
              /\ Begins(c, cards, output[c])'
              /\ (\A i \in 1..Len(wire) :
                    wire[i].kind = "history" => Begins(c, wire[i].cards, output[c]))'
<1> DEFINE Frames == ToolFrames \cup HistoryFrames
           n == output[c]
           open == phase[c] = "started"
           Catch == Following(c) => Caught(wire, c, toolCards[c], n, open)
           Shows == Followed(c) => Begins(c, cards, n)
           Past == Followed(c) =>
                     \A i \in 1..Len(wire) :
                       wire[i].kind = "history" => Begins(c, wire[i].cards, n)
           Order == Framed(wire, c, n)
           Goal == Order' /\ Catch' /\ Shows' /\ Past'
<1>t. /\ wire \in Seq(Frames) /\ wire' \in Seq(Frames)
      /\ output \in [Tools -> 0..MaxOutput] /\ toolCards \in [Tools -> Outputs]
      /\ n \in 0..MaxOutput /\ n' \in 0..MaxOutput /\ n \in Nat /\ n' \in Nat
      /\ phase \in [Calls -> Phases] /\ place \in [Calls -> Threads]
      /\ activeRun \in Threads \cup {NoRun} /\ c \in Calls
  BY CardsConstants DEF CardTypes, CardsTypeOK, Calls
<1>z. \A i \in 1..Len(wire) : wire[i] \in Frames
  BY <1>t
<1>k. Cap \in Nat \ {0} /\ MaxOutput \in Nat /\ NoRun \notin Threads
  BY CardsConstants
<1>c. Tools \subseteq Calls /\ Spawns \subseteq Calls /\ Yields \subseteq Calls
  BY DEF Calls
<1>d. Tools \cap Spawns = {} /\ Tools \cap Yields = {} /\ Spawns \cap Yields = {}
  BY CardsConstants
<1>u. Order /\ Catch /\ Shows /\ Past
  BY DEF Growing
<1>o. Followed(c)' => Followed(c)
  <2>1. overtaken \subseteq overtaken'
    BY DEF CardsNext, CallEvent, Replayed, OnConnected, OnDisconnected, OnConversationClose,
           GatewayCloses, GatewayReady, Stop, Disconnect, OnConversationOpen, HistoryAnswered,
           TurnBegins, TurnGivesUp, TurnEnds, CallStarts, ToolUpdates, ToolEnds, YieldEnds,
           SpawnEnds, ChildEnds, WaitAnswered, WaitRejected, ResultRead, gatewayVars, cardsVars
  <2> QED BY <2>1 DEF Followed
<1>x. Attached /\ (Following(c) => Followed(c)) /\ (Following(c)' => Followed(c)')
  BY DEF Following
<1> SUFFICES Goal
  OBVIOUS
<1>h. ASSUME UNCHANGED <<place, activeRun>> PROVE Following(c)' => Following(c)
  BY <1>h, <1>o DEF Following
<1>b. ASSUME NEW S, NEW k \in Nat, NEW l \in Nat, k <= l, Begins(c, S, k) PROVE Begins(c, S, l)
  BY <1>b DEF Begins
\* Of the tool nothing moves; at most the slot is left.
<1>q. ASSUME wire' = wire, toolCards'[c] = toolCards[c], n' = n, place'[c] = place[c],
             phase'[c] = phase[c], activeRun' = activeRun \/ activeRun' = NoRun
      PROVE  Order' /\ Catch' /\ Past'
  <2>1. Following(c)' => Following(c)
    BY <1>q, <1>o, <1>t, <1>k DEF Following
  <2> QED BY <1>q, <1>u, <1>o, <2>1
\* A frame goes that is not heard of the tool.
<1>f. ASSUME wire # <<>>, wire' = Tail(wire), toolCards'[c] = toolCards[c], n' = n,
             UNCHANGED <<place, activeRun>>, phase'[c] = phase[c],
             FrameOf(wire, c, 1) /\ c \in Deltas => ~Following(c)
      PROVE  Order' /\ Catch' /\ Past'
  <2>1. /\ \A i \in 1..Len(wire') : i + 1 \in 1..Len(wire) /\ wire'[i] = wire[i + 1]
        /\ wire \in Seq(ToolFrames \cup HistoryFrames)
    BY <1>f, <1>t
  <2>2. Past'
    BY <1>f, <1>u, <1>o, <2>1
  <2>3. Framed(Tail(wire), c, n)
    BY <1>f, <1>u, <2>1, FramedTail
  <2>4. ASSUME Following(c)'
        PROVE  Caught(Tail(wire), c, toolCards[c], n, open)
    <3>1. Following(c)
      BY <1>f, <1>h, <2>4
    <3>2. PICK m \in 0..n : CaughtAt(wire, c, toolCards[c], m, n, open)
      BY <1>u, <3>1 DEF Caught
    <3>3. open \in BOOLEAN /\ (c \in Deltas => ~FrameOf(wire, c, 1))
      BY <1>f, <3>1
    <3> HIDE DEF open, n
    <3>4. CaughtAt(Tail(wire), c, toolCards[c], m, n, open)
      BY <1>f, <2>1, <3>2, <3>3, CaughtTail
    <3> QED BY <3>4 DEF Caught
  <2> QED BY <1>f, <2>2, <2>3, <2>4
<1>p. ASSUME n' = n, NEW card, Upsert(card),
             card.call = c /\ Followed(c)' => \E b \in 0..n : card.out = Beginning(c, b)
      PROVE  Shows'
  BY <1>p, <1>u, <1>o DEF Upsert, Begins
<1>s. ASSUME n' = n, NEW x \in Spawns, NEW status, Settle(x, status) PROVE Shows'
  <2> DEFINE card == Card(place[x], x, status, <<>>, TRUE)
  <2>1. card.call # c /\ Upsert(card)
    BY <1>s, <1>d DEF Card, Settle, Filed
  <2> HIDE DEF card
  <2> QED BY <1>s, <1>p, <2>1
<1>w. ASSUME UNCHANGED <<output, toolCards, wire, place, phase, activeRun>>,
             NEW x \in Spawns, NEW verdict, Answered(x, verdict)
      PROVE  Goal
  <2>1. Shows'
    BY <1>w, <1>s, <1>u, <1>o DEF Answered
  <2> QED BY <1>w, <1>q, <2>1
\* A frame is sent.
<1>g. ASSUME UNCHANGED <<cards, toolCards, activeRun>>, place'[c] = place[c],
             NEW f, Send(f),
             f.kind = "tool" /\ f.call = c =>
               Tells(c, f) /\ f.upto = n' /\ Before(f) = n /\ (open \/ n = 0),
             ~(f.kind = "tool" /\ f.call = c) => n = n' /\ (open' => open),
             n <= n',
             f.kind = "history" => Begins(c, f.cards, n')
      PROVE  Goal
  <2>1. Following(c)' => Following(c)
    BY <1>g, <1>o DEF Following
  <2>2. Shows'
    BY <1>g, <1>u, <1>o, <1>t, <1>b
  <2>3. Followed(c) => \A i \in 1..Len(wire) :
                         wire[i].kind = "history" => Begins(c, wire[i].cards, n')
    BY <1>g, <1>u, <1>t, <1>b
  <2>4. CASE ~client
    <3>1. wire' = wire
      BY <1>g, <2>4 DEF Send
    <3>2. Past'
      BY <1>o, <2>3, <3>1
    <3>3. Framed(wire, c, n')
      <4> SUFFICES ASSUME NEW i \in 1..Len(wire), FrameOf(wire, c, i) PROVE wire[i].upto <= n'
        BY <1>u DEF Framed
      <4>1. wire[i].upto <= n /\ wire[i].upto \in 0..MaxOutput
        BY <1>u, ToldUpto DEF Framed
      <4> QED BY <1>g, <1>t, <4>1
    <3>4. ASSUME Following(c)' PROVE Caught(wire, c, toolCards[c], n', open')
      <4>1. c \notin Deltas
        BY <1>t, <1>k, <1>x, <2>1, <2>4, <3>4 DEF Following, Attached
      <4>2. PICK m \in 0..n : CaughtAt(wire, c, toolCards[c], m, n, open)
        BY <1>u, <2>1, <3>4 DEF Caught
      <4>3. CaughtAt(wire, c, toolCards[c], m, n', open')
        BY <4>1, <4>2 DEF CaughtAt
      <4>4. m \in 0..n'
        BY <1>g, <1>t
      <4> QED BY <4>3, <4>4 DEF Caught
    <3> QED BY <1>g, <2>2, <3>1, <3>2, <3>3, <3>4
  <2>5. CASE client
    <3>1. wire' = Append(wire, f)
      BY <1>g, <2>5 DEF Send
    <3>2. /\ Len(wire') = Len(wire) + 1 /\ Len(wire) \in Nat /\ wire'[Len(wire')] = f
          /\ \A i \in 1..Len(wire') : i # Len(wire') => i \in 1..Len(wire) /\ wire'[i] = wire[i]
      BY <1>t, <3>1
    <3>3. f \in ToolFrames \cup HistoryFrames /\ wire \in Seq(ToolFrames \cup HistoryFrames)
      BY <1>t, <3>2
    <3>4. Past'
      <4> SUFFICES ASSUME Followed(c), NEW i \in 1..Len(wire'), wire'[i].kind = "history"
                   PROVE  Begins(c, wire'[i].cards, n')
        BY <1>o
      <4>1. CASE i = Len(wire')
        BY <1>g, <3>2, <4>1
      <4>2. CASE i # Len(wire')
        BY <2>3, <3>2, <4>2
      <4> QED BY <4>1, <4>2
    <3>5. Framed(Append(wire, f), c, n')
      <4> HIDE DEF n
      <4> QED BY <1>g, <1>t, <1>u, <3>3, FramedMore
    <3>6. ASSUME Following(c)' PROVE Caught(Append(wire, f), c, toolCards[c], n', open')
      <4>1. PICK m \in 0..n : CaughtAt(wire, c, toolCards[c], m, n, open)
        BY <1>u, <2>1, <3>6 DEF Caught
      <4>2. open \in BOOLEAN /\ open' \in BOOLEAN /\ m \in 0..n'
        BY <1>g, <1>t
      <4> HIDE DEF n, open
      <4>3. CaughtAt(Append(wire, f), c, toolCards[c], m, n', open')
        BY <1>g, <1>t, <3>3, <4>1, <4>2, CaughtMore
      <4> QED BY <4>2, <4>3 DEF Caught
    <3> QED BY <1>g, <2>2, <3>1, <3>4, <3>5, <3>6
  <2> QED BY <2>4, <2>5
<1>e. ASSUME UNCHANGED <<cards, toolCards, activeRun>>, place'[c] = place[c], n <= n',
             NEW th, NEW x, NEW ph, NEW chunk, NEW upto, Send(ToolEvent(th, x, ph, chunk, upto)),
             x = c => /\ Tells(c, ToolEvent(th, x, ph, chunk, upto)) /\ upto = n'
                      /\ n = IF ph = "update" THEN upto - 1 ELSE upto
                      /\ open \/ n = 0,
             x # c => n = n' /\ (open' => open)
      PROVE  Goal
  <2>1. PICK f : f = ToolEvent(th, x, ph, chunk, upto)
    OBVIOUS
  <2>2. f.kind = "tool" /\ f.call = x /\ f.phase = ph /\ f.chunk = chunk /\ f.upto = upto
    BY <2>1 DEF ToolEvent
  <2>3. Send(f) /\ (x = c => Tells(c, f) /\ Before(f) = n)
    BY <1>e, <2>1, <2>2 DEF Before
  <2> HIDE DEF n, open, Goal
  <2> QED BY <1>e, <1>g, <2>2, <2>3
<1>1. CASE CallEvent
  <2>1. PICK f : f = wire[1]
    OBVIOUS
  <2>2. /\ wire # <<>> /\ f.kind = "tool" /\ wire' = Tail(wire)
        /\ UNCHANGED <<output, place, phase, activeRun>> /\ n' = n
        /\ \/ activeRun # f.thid /\ UNCHANGED <<cards, watcher, toolCards>>
           \/ /\ activeRun = f.thid
              /\ \/ f.call \in Tools /\ HandleToolEvent(f)
                 \/ f.call \in Spawns /\ HandleSpawnResult(f)
                 \/ f.call \in Yields /\ HandleYield(f)
    BY <1>1, <1>t, <2>1 DEF CallEvent, gatewayVars
  <2>3. f.thid = place[f.call] /\ (FrameOf(wire, c, 1) <=> f.call = c)
    BY <1>t, <2>1, <2>2 DEF Filing, FramesFiled, FrameOf
  <2>4. ASSUME NEW status, NEW out, Upsert(Card(activeRun, f.call, status, out, FALSE)),
               f.call = c /\ Followed(c) => \E b \in 0..n : out = Beginning(c, b)
        PROVE  Shows'
    <3> DEFINE card == Card(activeRun, f.call, status, out, FALSE)
    <3>1. card.call = f.call /\ card.out = out
      BY DEF Card
    <3>2. Upsert(card)
      BY <2>4
    <3> HIDE DEF card
    <3> QED BY <1>p, <1>o, <2>2, <2>4, <3>1, <3>2
  <2>5. ASSUME toolCards'[c] = toolCards[c], f.call = c /\ c \in Deltas => ~Following(c)
        PROVE  Order' /\ Catch' /\ Past'
    BY <1>f, <2>2, <2>3, <2>5
  <2>6. CASE activeRun # f.thid /\ UNCHANGED <<cards, watcher, toolCards>>
    <3>1. f.call = c /\ c \in Deltas => ~Following(c)
      BY <2>3, <2>6 DEF Following
    <3>2. Shows'
      BY <1>u, <1>o, <2>2, <2>6
    <3> QED BY <2>5, <2>6, <3>1, <3>2
  <2>7. CASE activeRun = f.thid /\ f.call \in Tools /\ HandleToolEvent(f)
    <3> DEFINE merged == IF f.phase = "start" THEN <<>>
                         ELSE MergeToolOutput(toolCards[f.call], f.chunk)
    <3>1. /\ toolCards' = [toolCards EXCEPT ![f.call] = merged]
          /\ Upsert(Card(activeRun, f.call, "tool", merged, FALSE))
      BY <2>7 DEF HandleToolEvent
    <3>2. CASE f.call = c
      <4>1. FrameOf(wire, c, 1) /\ toolCards'[c] = merged
        BY <1>t, <2>3, <3>1, <3>2
      <4>2. merged = IF wire[1].phase = "start" THEN <<>>
                     ELSE MergeToolOutput(toolCards[c], wire[1].chunk)
        BY <2>1, <3>2
      <4>3. Followed(c) => Following(c)
        BY <2>3, <2>7, <3>2 DEF Following
      <4> HIDE DEF merged
      <4>4. ASSUME Followed(c)
            PROVE  \E b \in 0..n : /\ merged = Beginning(c, b)
                                   /\ CaughtAt(Tail(wire), c, merged, b, n, open)
        <5>1. /\ wire \in Seq(ToolFrames \cup HistoryFrames) /\ wire # <<>>
              /\ Framed(wire, c, n) /\ Caught(wire, c, toolCards[c], n, open)
              /\ (c \in Deltas => ~Repeats(c)) /\ open \in BOOLEAN /\ n \in 0..MaxOutput
          BY <1>t, <1>u, <2>2, <4>3, <4>4 DEF Followed
        <5> HIDE DEF n, open
        <5> QED BY <4>1, <4>2, <5>1, CaughtHead
      <4>5. Shows'
        BY <2>4, <3>1, <4>4
      <4>6. Order' /\ Past'
        <5>1. \A i \in 1..Len(wire') : i + 1 \in 1..Len(wire) /\ wire'[i] = wire[i + 1]
          BY <1>t, <2>2
        <5>2. Past'
          BY <1>u, <1>o, <2>2, <5>1
        <5>3. Framed(Tail(wire), c, n)
          BY <1>t, <1>u, <2>2, FramedTail
        <5> QED BY <2>2, <5>2, <5>3
      <4>7. Catch'
        <5>1. Following(c)' => Followed(c)
          BY <1>o, <1>x
        <5> QED BY <2>2, <4>1, <4>4, <5>1 DEF Caught
      <4> QED BY <4>5, <4>6, <4>7
    <3>3. CASE f.call # c
      <4>1. toolCards'[c] = toolCards[c]
        BY <1>t, <3>1, <3>3
      <4> HIDE DEF merged
      <4>2. Shows'
        BY <2>4, <3>1, <3>3
      <4> QED BY <2>5, <3>3, <4>1, <4>2
    <3> QED BY <3>2, <3>3
  <2>8. CASE f.call \in Spawns /\ HandleSpawnResult(f)
    <3>1. f.call # c
      BY <1>d, <2>8
    <3>2. Shows'
      BY <1>u, <1>o, <2>2, <2>4, <2>8, <3>1 DEF HandleSpawnResult
    <3> QED BY <2>5, <2>8, <3>1, <3>2 DEF HandleSpawnResult
  <2>9. CASE f.call \in Yields /\ HandleYield(f)
    <3>1. f.call # c
      BY <1>d, <2>9
    <3>2. Shows'
      BY <1>u, <1>o, <2>2, <2>4, <2>9, <3>1 DEF HandleYield
    <3> QED BY <2>5, <2>9, <3>1, <3>2 DEF HandleYield
  <2> QED BY <2>2, <2>6, <2>7, <2>8, <2>9
<1>2. CASE Replayed
  <2>1. PICK f : f = wire[1]
    OBVIOUS
  <2>2. /\ wire # <<>> /\ f.kind = "history" /\ wire' = Tail(wire)
        /\ UNCHANGED <<output, toolCards, place, phase, activeRun>>
        /\ UNCHANGED cards \/ Restore(f.thid, f.cards)
    BY <1>2, <1>t, <2>1 DEF Replayed, adapterVars, gatewayVars
  <2>3. Followed(c) => Begins(c, f.cards, n)
    BY <1>t, <1>u, <2>1, <2>2
  <2>4. Shows'
    BY <1>u, <1>o, <2>2, <2>3 DEF Restore, Begins
  <2>5. ~FrameOf(wire, c, 1)
    BY <2>1, <2>2 DEF FrameOf
  <2> QED BY <1>f, <2>2, <2>4, <2>5
<1>3. ASSUME UNCHANGED <<cards, toolCards, output, place, wire>>, phase'[c] = phase[c],
             activeRun' = activeRun \/ activeRun' = NoRun
      PROVE  Goal
  BY <1>3, <1>q, <1>u, <1>o
<1>4. CASE OnConnected \/ OnDisconnected \/ OnConversationClose \/ GatewayReady
             \/ UNCHANGED cardsVars
  BY <1>4, <1>3
  DEF OnConnected, OnDisconnected, OnConversationClose, GatewayReady,
      adapterVars, gatewayVars, walletVars, cardsVars
<1>5. CASE GatewayCloses \/ Stop
  <2>1. /\ UNCHANGED <<cards, toolCards, output, place, overtaken>> /\ wire' = <<>>
        /\ activeRun' = NoRun /\ ~open'
    BY <1>5, <1>t DEF GatewayCloses, Stop, Disconnect, walletVars
  <2>2. Len(wire') = 0
    BY <2>1
  <2>3. Order' /\ Shows' /\ Past'
    BY <1>u, <1>o, <2>1, <2>2 DEF Framed
  <2>4. ASSUME Following(c)' PROVE Caught(wire', c, toolCards[c], n, open')
    <3>1. c \notin Deltas /\ Following(c)
      BY <1>t, <1>k, <1>o, <2>1, <2>4 DEF Following
    <3>2. PICK m \in 0..n : CaughtAt(wire, c, toolCards[c], m, n, open)
      BY <1>u, <3>1 DEF Caught
    <3>3. CaughtAt(wire', c, toolCards[c], m, n, open')
      BY <2>2, <3>1, <3>2 DEF CaughtAt
    <3> QED BY <3>3 DEF Caught
  <2> QED BY <2>1, <2>3, <2>4
<1>6. ASSUME NEW th \in Threads, OnConversationOpen(th) \/ TurnEnds(th) \/ TurnGivesUp(th)
      PROVE  Goal
  BY <1>6, <1>3 DEF OnConversationOpen, TurnEnds, TurnGivesUp, gatewayVars, walletVars
<1>7. ASSUME NEW th \in Threads, TurnBegins(th) PROVE Goal
  <2>1. /\ UNCHANGED <<cards, output, place, phase, wire>> /\ activeRun' = th
        /\ toolCards' = [x \in Tools |-> IF place[x] = th THEN <<>> ELSE toolCards[x]]
        /\ overtaken' = overtaken \cup {x \in Tools : place[x] = th /\ Unfinished(x)}
    BY <1>7 DEF TurnBegins, walletVars
  <2>2. Order' /\ Shows' /\ Past'
    BY <1>u, <1>o, <2>1
  <2>3. ASSUME Following(c)', place[c] # th PROVE Caught(wire, c, toolCards'[c], n, open)
    <3>1. toolCards'[c] = toolCards[c] /\ Following(c)
      BY <1>o, <2>1, <2>3 DEF Following
    <3> QED BY <1>u, <3>1
  <2>4. ASSUME Following(c)', place[c] = th PROVE Caught(wire, c, toolCards'[c], n, open)
    <3>1. toolCards'[c] = Beginning(c, 0) /\ 0 \in 0..n
      BY <1>t, <2>1, <2>4, NothingYet
    <3>2. \A i \in 1..Len(wire) : FrameOf(wire, c, i) => 0 <= wire[i].upto
      BY <1>u, ToldUpto DEF Framed
    <3>3. ASSUME c \in Deltas PROVE Gapless(wire, c, 0, n, open)
      <4>1. ~Unfinished(c)
        BY <2>1, <2>4, <3>3 DEF Following, Followed
      <4> QED BY <4>1 DEF Unfinished, Gapless, FrameOf
    <3> QED BY <3>1, <3>2, <3>3 DEF Caught, CaughtAt
  <2> QED BY <2>1, <2>2, <2>3, <2>4
<1>8. ASSUME NEW th \in Threads, HistoryAnswered(th) PROVE Goal
  <2>1. PICK f : f = [kind |-> "history", thid |-> th, cards |-> MapHistoryMessages(th)]
    OBVIOUS
  <2>2. UNCHANGED <<cards, toolCards, output, place, phase, activeRun>> /\ Send(f)
    BY <1>8, <2>1 DEF HistoryAnswered, gatewayVars, walletVars
  <2>3. f.kind = "history" /\ Begins(c, f.cards, n')
    BY <2>1, <2>2, HistoryBegins
  <2>4. f.kind # "tool" /\ n <= n' /\ n = n'
    BY <1>t, <2>2, <2>3
  <2> QED BY <1>g, <2>2, <2>3, <2>4
<1>9. ASSUME NEW x \in Calls, CallStarts(x) PROVE Goal
  <2>1. PICK th \in running : /\ place' = [place EXCEPT ![x] = th]
                              /\ Send(ToolEvent(th, x, "start", <<>>, 0))
    BY <1>9 DEF CallStarts
  <2>2. /\ UNCHANGED <<cards, toolCards, output, activeRun>> /\ n' = n
        /\ phase[x] = "none" /\ phase' = [phase EXCEPT ![x] = "started"]
    BY <1>9 DEF CallStarts, adapterVars, walletVars
  <2>3. CASE x # c
    <3>1. place'[c] = place[c] /\ open' = open /\ n <= n'
      BY <1>t, <2>1, <2>2, <2>3
    <3> HIDE DEF n, open, Goal
    <3> QED BY <1>e, <2>1, <2>2, <2>3, <3>1
  <2>4. CASE x = c
    <3>1. toolCards[c] = Beginning(c, 0) /\ n = 0 /\ 0 \in 0..n'
      BY <2>2, <2>4, NothingYet DEF Filing, Unmade
    <3>2. \A i \in 1..Len(wire) : ~FrameOf(wire, c, i)
      BY <1>z, <2>2, <2>4 DEF Filing, FramesFiled, FrameOf
    <3>3. \A still \in BOOLEAN : CaughtAt(wire, c, toolCards[c], 0, n, still)
      BY <3>1, <3>2 DEF CaughtAt, Gapless
    <3>4. PICK f : f = ToolEvent(th, c, "start", <<>>, 0)
      OBVIOUS
    <3>5. f.kind = "tool" /\ f.call = c /\ f.phase = "start" /\ f.upto = 0 /\ Before(f) = 0
      BY <3>4 DEF ToolEvent, Before
    <3>6. wire' = wire \/ wire' = Append(wire, f)
      BY <2>1, <2>4, <3>4 DEF Send
    <3>7. CASE wire' = wire
      <4>1. Caught(wire', c, toolCards'[c], n', open')
        <5>1. open' \in BOOLEAN /\ CaughtAt(wire, c, toolCards[c], 0, n, open')
          BY <3>3
        <5> QED BY <2>2, <3>1, <3>7, <5>1 DEF Caught
      <4> QED BY <1>u, <1>o, <2>2, <3>7, <4>1
    <3>8. CASE wire' = Append(wire, f)
      <4>1. /\ Len(wire') = Len(wire) + 1 /\ Len(wire) \in Nat /\ wire'[Len(wire')] = f
            /\ \A i \in 1..Len(wire') : i # Len(wire') => i \in 1..Len(wire) /\ wire'[i] = wire[i]
        BY <1>t, <3>8
      <4>2. f \in ToolFrames \cup HistoryFrames /\ wire \in Seq(ToolFrames \cup HistoryFrames)
        BY <1>t, <4>1
      <4>3. Past'
        <5> SUFFICES ASSUME Followed(c), NEW i \in 1..Len(wire'), wire'[i].kind = "history"
                     PROVE  Begins(c, wire'[i].cards, n)
          BY <1>o, <2>2
        <5> QED BY <1>u, <3>5, <4>1
      <4>4. Framed(Append(wire, f), c, n')
        <5>1. Tells(c, f) /\ Framed(wire, c, n)
          BY <1>u, <3>5 DEF Tells
        <5>2. n = 0 /\ n' = 0
          BY <2>2, <3>1
        <5> HIDE DEF n
        <5> QED BY <3>5, <4>2, <5>1, <5>2, FramedMore
      <4>5. Caught(Append(wire, f), c, toolCards[c], n', open')
        <5>1. open' \in BOOLEAN /\ n = 0 /\ n' = 0 /\ 0 \in 0..0 /\ 0 \in Nat /\ 0 <= 0
          BY <2>2, <3>1
        <5>2. CaughtAt(wire, c, toolCards[c], 0, 0, FALSE)
          BY <3>3, <5>1
        <5> HIDE DEF n, open
        <5>3. f.kind = "tool" /\ f.call = c => f.upto = 0 /\ Before(f) = 0 /\ (FALSE \/ 0 = 0)
          BY <3>5
        <5>4. CaughtAt(Append(wire, f), c, toolCards[c], 0, 0, open')
          BY <3>5, <4>2, <5>1, <5>2, <5>3, CaughtMore
        <5> QED BY <5>1, <5>4 DEF Caught
      <4> QED BY <1>u, <1>o, <2>2, <3>8, <4>3, <4>4, <4>5
    <3> QED BY <3>6, <3>7, <3>8
  <2> QED BY <2>3, <2>4
<1>10. ASSUME NEW x \in Tools, ToolUpdates(x) PROVE Goal
  <2>1. /\ output' = [output EXCEPT ![x] = @ + 1] /\ phase[x] = "started" /\ output[x] < MaxOutput
        /\ UNCHANGED <<cards, toolCards, activeRun, place, phase>>
        /\ Send(ToolEvent(place[x], x, "update", Chunk(x, output[x] + 1), output[x] + 1))
    BY <1>10 DEF ToolUpdates, adapterVars, walletVars
  <2>2. n <= n' /\ (x = c => n' = n + 1 /\ n = n' - 1 /\ n' \in 1..MaxOutput) /\ (x # c => n = n')
    BY <1>t, <1>k, <2>1
  <2>3. x = c =>
          /\ Tells(c, ToolEvent(place[x], x, "update", Chunk(x, output[x] + 1), output[x] + 1))
          /\ output[x] + 1 = n' /\ open
    BY <2>1, <2>2 DEF Tells, ToolEvent
  <2>4. open' = open /\ place'[c] = place[c] /\ (x = c => n = output[x] + 1 - 1)
    BY <2>1, <2>2, <2>3
  <2> HIDE DEF n, open, Goal
  <2> QED BY <1>e, <2>1, <2>2, <2>3, <2>4
<1>11. ASSUME NEW x \in Tools, ToolEnds(x) PROVE Goal
  <2>1. /\ output[x] > 0 /\ phase[x] = "started" /\ phase' = [phase EXCEPT ![x] = "done"]
        /\ UNCHANGED <<cards, toolCards, output, activeRun, place>>
    BY <1>11 DEF ToolEnds, adapterVars, walletVars
  <2>2. PICK from \in 1..output[x] :
          /\ x \in Deltas \/ from = 1
          /\ Send(ToolEvent(place[x], x, "result", Part(x, from, output[x]), output[x]))
    BY <1>11 DEF ToolEnds
  <2>3. n <= n' /\ n = n' /\ (x # c => (open' => open)) /\ place'[c] = place[c]
    BY <1>t, <2>1
  <2>4. x = c => /\ Tells(c, ToolEvent(place[x], x, "result", Part(x, from, output[x]), output[x]))
                 /\ output[x] = n' /\ n = output[x] /\ open
    BY <1>t, <1>k, <2>1, <2>2 DEF Tells, ToolEvent
  <2> HIDE DEF n, open, Goal
  <2> QED BY <1>e, <2>1, <2>2, <2>3, <2>4
<1>12. ASSUME NEW x \in Yields, YieldEnds(x) PROVE Goal
  <2>1. phase'[c] = phase[c]
    BY <1>12, <1>t, <1>d DEF YieldEnds
  <2> QED BY <1>12, <1>3, <2>1 DEF YieldEnds, adapterVars, walletVars
<1>13. ASSUME NEW x \in Spawns, SpawnEnds(x) PROVE Goal
  <2>1. PICK verdict : /\ phase' = [phase EXCEPT ![x] = verdict]
                       /\ Send(ToolEvent(place[x], x, verdict, <<>>, 0))
    BY <1>13 DEF SpawnEnds
  <2>2. /\ UNCHANGED <<cards, toolCards, output, activeRun, place>> /\ n <= n' /\ n = n' /\ x # c
        /\ open' = open
    BY <1>13, <1>t, <1>d, <2>1 DEF SpawnEnds, adapterVars, walletVars
  <2> HIDE DEF n, open, Goal
  <2> QED BY <1>e, <2>1, <2>2
<1>14. ASSUME NEW x \in Spawns, ChildEnds(x) PROVE Goal
  BY <1>14, <1>3 DEF ChildEnds, adapterVars, walletVars
<1>15. ASSUME NEW x \in Spawns, WaitAnswered(x) \/ WaitRejected(x) PROVE Goal
  BY <1>15, <1>w DEF WaitAnswered, WaitRejected, gatewayVars
<1>16. ASSUME NEW x \in Spawns, ResultRead(x) PROVE Goal
  <2>1. UNCHANGED <<output, toolCards, wire, place, phase, activeRun>>
    BY <1>16 DEF ResultRead, gatewayVars
  <2>2. Shows'
    BY <1>16, <1>s, <1>u, <1>o, <2>1 DEF ResultRead
  <2> QED BY <1>q, <2>1, <2>2
<1> QED
  BY <1>1, <1>2, <1>4, <1>5, <1>6, <1>7, <1>8, <1>9, <1>10, <1>11, <1>12, <1>13, <1>14, <1>15, <1>16
  DEF CardsNext

LEMMA GrowingKept ==
  ASSUME CardTypes, CardTypes', Filing, Attached, Growing, [CardsNext]_cardsVars
  PROVE  Growing'
BY GrowingOf DEF Growing

-----------------------------------------------------------------------------
CardInv == CardTypes /\ Filing /\ Told /\ Attached /\ Growing

LEMMA CardsAlways == CardsSpec => []CardInv
<1>1. CardsInit => CardInv
  BY CardsStartTyped, FilingAtFirst, ToldAtFirst, AttachedAtFirst, GrowingAtFirst DEF CardInv
<1>2. CardInv /\ [CardsNext]_cardsVars => CardInv'
  BY CardTypesKept, FilingKept, ToldKept, AttachedKept, GrowingKept DEF CardInv
<1> QED BY <1>1, <1>2, PTL DEF CardsSpec

\* Whatever the calls, the threads and what the gateway does: a call has at
\* most one card, live and replayed alike, in the thread that made it.
THEOREM CardsAreFiled == CardsSpec => []OneCardPerCall
<1>1. CardInv => OneCardPerCall
  <2> SUFFICES ASSUME CardInv, NEW c \in Calls
               PROVE  /\ Cardinality(CardsOf(c)) <= 1
                      /\ \A d \in CardsOf(c) : d.thid = place[c]
    BY DEF OneCardPerCall
  <2>1. \A d \in CardsOf(c) : d.thid = place[c] /\ \A e \in CardsOf(c) : e = d
    BY DEF CardInv, Filing, FiledWell, CardsOf
  <2>2. CardsOf(c) = {} \/ \E d : CardsOf(c) = {d}
    BY <2>1
  <2>3. Cardinality(CardsOf(c)) <= 1
    <3>1. Cardinality({}) = 0
      BY FS_EmptySet
    <3>2. \A d : Cardinality({d}) = 1
      BY FS_Singleton
    <3> DEFINE N == Cardinality(CardsOf(c))
    <3>3. CASE CardsOf(c) = {}
      <4>1. N = 0
        BY <3>1, <3>3
      <4> QED BY <4>1
    <3>4. CASE \E d : CardsOf(c) = {d}
      <4>1. PICK d : CardsOf(c) = {d}
        BY <3>4
      <4>2. N = 1
        BY <3>2, <4>1
      <4> QED BY <4>2
    <3> QED BY <2>2, <3>3, <3>4
  <2> QED BY <2>1, <2>3
<1> QED BY <1>1, CardsAlways, PTL

\* Whatever the calls, their outputs, the cap and what the gateway does, a tool
\* card shows a beginning of what the tool put out: of snapshots always, of
\* deltas as long as none repeats the one before it and no newer turn of the
\* thread took the slot while they came.
THEOREM OutputsAreBeginnings == CardsSpec => []OutputIsPrefix
<1>1. CardInv => OutputIsPrefix
  BY DEF CardInv, Growing, Begins, Beginning, OutputIsPrefix, CardsOf
<1> QED BY <1>1, CardsAlways, PTL

\* A task that is shown with a result as completed has a child that completed,
\* for any number of spawns and threads.
THEOREM ResultsAreTrue == CardsSpec => []ResultIsTrue
<1>1. CardInv => ResultIsTrue
  BY DEF CardInv, Told, ToldOf, ResultIsTrue, CardsOf
<1> QED BY <1>1, CardsAlways, PTL

\* Cards, watchers and frames stay within their types, for any calls and
\* bounds.
THEOREM CardsTyped == CardsSpec => []CardsTypeOK
<1>1. CardInv => CardsTypeOK
  BY DEF CardInv, CardTypes
<1> QED BY <1>1, CardsAlways, PTL

-----------------------------------------------------------------------------
(* After stop(), and replays that restore.                                 *)

Severed == stopped => ~client

LEMMA SeveredAtFirst == CardsInit => Severed
  BY DEF CardsInit, Severed

LEMMA SeveredKept ==
  ASSUME Severed, [CardsNext]_cardsVars
  PROVE  Severed'
<1>1. CASE UNCHANGED <<stopped, client>>
  BY <1>1 DEF Severed
<1>2. CASE GatewayCloses \/ Stop \/ GatewayReady
  BY <1>2 DEF GatewayCloses, Stop, GatewayReady, Disconnect, Severed
<1> QED
  BY <1>1, <1>2
  DEF CardsNext, CallEvent, Replayed, OnConnected, OnDisconnected, OnConversationClose,
      OnConversationOpen, HistoryAnswered, TurnBegins, TurnGivesUp, TurnEnds, CallStarts,
      ToolUpdates, ToolEnds, YieldEnds, SpawnEnds, ChildEnds, WaitAnswered, WaitRejected,
      ResultRead, adapterVars, cardsVars

\* After stop() no card lands, although a watcher may still be waiting for its
\* child and a replay for its history.
THEOREM StopIsFinal == CardsSpec => NothingAfterStop
<1>1. ASSUME Severed, [CardsNext]_cardsVars, stopped PROVE cards' = cards
  <2>1. ~client
    BY <1>1 DEF Severed
  <2>2. ASSUME NEW c \in Spawns, WaitRejected(c) \/ ResultRead(c) PROVE cards' = cards
    BY <1>1, <2>2 DEF WaitRejected, ResultRead, Answered
  <2> QED
    BY <1>1, <2>1, <2>2
    DEF CardsNext, CallEvent, Replayed, OnConnected, OnDisconnected, OnConversationClose,
        GatewayCloses, GatewayReady, Stop, Disconnect,
        OnConversationOpen, HistoryAnswered, TurnBegins, TurnGivesUp, TurnEnds, CallStarts,
        ToolUpdates, ToolEnds, YieldEnds, SpawnEnds, ChildEnds, WaitAnswered,
        walletVars, cardsVars
<1>2. Severed /\ [CardsNext]_cardsVars => [stopped => cards' = cards]_cardsVars
  BY <1>1
<1> QED BY <1>2, SeveredAtFirst, SeveredKept, PTL DEF CardsSpec, NothingAfterStop

\* A history that knows the thread of a call, and that it was made, but has
\* no card of it; and a frame that will put its card up.
Lacks(f, c) ==
  /\ f.kind = "history" /\ f.thid = place[c] /\ phase[c] # "none"
  /\ \A d \in f.cards : d.call # c
Brings(f, c) ==
  \/ f.kind = "tool" /\ f.call = c
  \/ f.kind = "history" /\ \E d \in f.cards : d.call = c

\* A replay without a tool's card finds none to take away.
Restorable ==
  \A c \in Tools : \A i \in 1..Len(wire) : Lacks(wire[i], c) =>
    CardsOf(c) = {} /\ \A j \in 1..(i - 1) : ~Brings(wire[j], c)

\* A call that is made now is on no card and in no frame.
Unheard ==
  \A c \in Tools : phase'[c] # "none" =>
    \/ phase[c] # "none" /\ place'[c] = place[c]
    \/ CardsOf(c) = {} /\ \A j \in 1..Len(wire) : ~Brings(wire[j], c)

LEMMA NewIsUnheard ==
  ASSUME CardTypes, Filing, [CardsNext]_cardsVars
  PROVE  Unheard
<1>1. Stays
  BY CallsStay
<1>2. SUFFICES ASSUME NEW c \in Tools, phase[c] = "none"
               PROVE  CardsOf(c) = {} /\ \A j \in 1..Len(wire) : ~Brings(wire[j], c)
  BY <1>1 DEF Stays, Unheard, Calls
<1>3. CardsOf(c) = {}
  BY <1>2 DEF Filing, FiledWell, CardsOf
<1>4. \A j \in 1..Len(wire) : ~Brings(wire[j], c)
  BY <1>2 DEF Filing, FramesFiled, FiledWell, Brings
<1> QED BY <1>3, <1>4

\* A card of a tool comes with the first frame, which goes; and a frame that
\* comes lacks nothing.
Moves ==
  \/ wire' = wire \/ wire' = <<>>
  \/ wire # <<>> /\ wire' = Tail(wire)
  \/ \E f : wire' = Append(wire, f) /\ \A c \in Tools : ~Lacks(f, c)'
Shows ==
  \A c \in Tools : CardsOf(c)' # {} =>
    \/ CardsOf(c) # {}
    \/ wire # <<>> /\ wire' = Tail(wire) /\ Brings(wire[1], c)

LEMMA RestorableKept ==
  ASSUME CardTypes, CardTypes', Restorable, Unheard, Moves, Shows
  PROVE  Restorable'
<1>w. wire \in Seq(ToolFrames \cup HistoryFrames) /\ wire' \in Seq(ToolFrames \cup HistoryFrames)
  BY DEF CardTypes
<1>1. SUFFICES ASSUME NEW c \in Tools, NEW i \in 1..Len(wire'), Lacks(wire[i], c)'
               PROVE  CardsOf(c)' = {} /\ \A j \in 1..(i - 1) : ~Brings(wire'[j], c)
  BY DEF Restorable, Brings
<1>2. phase'[c] # "none"
  BY <1>1 DEF Lacks
<1>l. ASSUME NEW f, f = wire'[i], phase[c] # "none", place'[c] = place[c] PROVE Lacks(f, c)
  BY <1>1, <1>l DEF Lacks
<1>3. CASE wire' = wire
  <2>1. CardsOf(c)' # {} => CardsOf(c) # {}
    <3>1. wire # <<>> => wire # Tail(wire)
      BY <1>w
    <3> QED BY <1>3, <3>1 DEF Shows
  <2>2. CASE phase[c] # "none" /\ place'[c] = place[c]
    <3>1. Lacks(wire[i], c)
      BY <1>3, <1>l, <2>2
    <3> QED BY <1>1, <1>3, <2>1, <3>1 DEF Restorable
  <2>3. CASE CardsOf(c) = {} /\ \A j \in 1..Len(wire) : ~Brings(wire[j], c)
    BY <1>w, <1>1, <1>3, <2>1, <2>3
  <2> QED BY <1>2, <2>2, <2>3 DEF Unheard
<1>4. CASE wire' = <<>>
  BY <1>1, <1>4
<1>5. CASE wire # <<>> /\ wire' = Tail(wire)
  <2>1. i + 1 \in 1..Len(wire) /\ \A j \in 1..i : j + 1 \in 1..Len(wire) /\ wire'[j] = wire[j + 1]
    BY <1>w, <1>1, <1>5
  <2>2. 1 \in 1..Len(wire) /\ 1 \in 1..i /\ i \in 1..i
    BY <1>w, <1>1, <1>5
  <2>3. CASE phase[c] # "none" /\ place'[c] = place[c]
    <3>1. Lacks(wire[i + 1], c)
      BY <1>l, <2>1, <2>2, <2>3
    <3>2. CardsOf(c) = {} /\ \A j \in 1..i : ~Brings(wire[j], c)
      BY <2>1, <3>1 DEF Restorable
    <3>3. \A j \in 1..(i - 1) : j + 1 \in 1..i /\ j \in 1..i
      BY <1>1
    <3> QED BY <1>5, <2>1, <2>2, <3>2, <3>3 DEF Shows
  <2>4. CASE CardsOf(c) = {} /\ \A j \in 1..Len(wire) : ~Brings(wire[j], c)
    <3>1. \A j \in 1..(i - 1) : j \in 1..i
      BY <1>1
    <3> QED BY <1>5, <2>1, <2>2, <2>4, <3>1 DEF Shows
  <2> QED BY <1>2, <2>3, <2>4 DEF Unheard
<1>6. ASSUME NEW f, wire' = Append(wire, f), \A b \in Tools : ~Lacks(f, b)'
      PROVE  CardsOf(c)' = {} /\ \A j \in 1..(i - 1) : ~Brings(wire'[j], c)
  <2>1. wire'[Len(wire) + 1] = f /\ \A j \in 1..Len(wire) : wire'[j] = wire[j]
    BY <1>w, <1>6
  <2>2. i # Len(wire) + 1
    <3>1. PICK g : g = wire'[i]
      OBVIOUS
    <3>2. Lacks(g, c)'
      BY <1>1, <3>1 DEF Lacks
    <3>3. g # f
      BY <1>6, <3>2
    <3> QED BY <2>1, <3>1, <3>3
  <2>3. i \in 1..Len(wire) /\ \A j \in 1..(i - 1) : j \in 1..Len(wire)
    BY <1>w, <1>1, <1>6, <2>2
  <2>4. CardsOf(c)' # {} => CardsOf(c) # {}
    <3>1. wire # <<>> => wire' # Tail(wire)
      BY <1>w, <1>6
    <3> QED BY <3>1 DEF Shows
  <2>5. CASE phase[c] # "none" /\ place'[c] = place[c]
    <3>1. Lacks(wire[i], c)
      BY <1>l, <2>1, <2>3, <2>5
    <3> QED BY <2>1, <2>3, <2>4, <3>1 DEF Restorable
  <2>6. CASE CardsOf(c) = {} /\ \A j \in 1..Len(wire) : ~Brings(wire[j], c)
    BY <2>1, <2>3, <2>4, <2>6
  <2> QED BY <1>2, <2>5, <2>6 DEF Unheard
<1> QED BY <1>3, <1>4, <1>5, <1>6 DEF Moves

\* Filing a card of another call moves no tool's card.
LEMMA UpsertShows ==
  ASSUME NEW card, Upsert(card), NEW c, card.call # c
  PROVE  CardsOf(c)' = CardsOf(c)
<1>1. CASE ~walletUp
  BY <1>1 DEF Upsert, CardsOf
<1>2. CASE walletUp
  <2>1. cards' = {d \in cards : <<d.thid, d.call>> # <<card.thid, card.call>>} \cup {card}
    BY <1>2 DEF Upsert
  <2>2. \A d : d.call = c => (d \in cards' <=> d \in cards)
    BY <2>1
  <2> QED BY <2>2 DEF CardsOf
<1> QED BY <1>1, <1>2

\* A card that is filed again is there.
LEMMA UpsertKeeps ==
  ASSUME NEW card, Upsert(card), NEW c
  PROVE  CardsOf(c) # {} => CardsOf(c)' # {}
<1>1. CASE ~walletUp
  BY <1>1 DEF Upsert, CardsOf
<1>2. CASE walletUp
  <2>1. cards' = {d \in cards : <<d.thid, d.call>> # <<card.thid, card.call>>} \cup {card}
    BY <1>2 DEF Upsert
  <2>2. CASE card.call = c
    BY <2>1, <2>2 DEF CardsOf
  <2>3. CASE card.call # c
    BY <2>3, UpsertShows
  <2> QED BY <2>2, <2>3
<1> QED BY <1>1, <1>2

\* A step keeps the cards of tools, and Moves and Shows hold of it.
Keeps == \A c \in Tools : CardsOf(c) # {} => CardsOf(c)' # {}

LEMMA StepRestores ==
  ASSUME CardTypes, Filing, Restorable, [CardsNext]_cardsVars
  PROVE  Moves /\ Shows /\ Keeps
<1>w. wire \in Seq(ToolFrames \cup HistoryFrames)
  BY DEF CardTypes
<1>d. Tools \cap Spawns = {} /\ Tools \cap Yields = {}
  BY CardsConstants
<1>q. ASSUME UNCHANGED cards PROVE Shows /\ Keeps
  BY <1>q DEF Shows, Keeps, CardsOf
<1>s. ASSUME NEW f, f.kind = "tool", Send(f) PROVE Moves
  BY <1>s DEF Send, Moves, Lacks
<1>1. CASE CallEvent
  <2>1. wire # <<>> /\ wire' = Tail(wire) /\ wire[1].kind = "tool"
    BY <1>w, <1>1 DEF CallEvent
  <2> DEFINE e == wire[1]
  <2>2. \/ UNCHANGED cards
        \/ \E th, s, o : Upsert(Card(th, e.call, s, o, FALSE))
    <3>1. e = Head(wire)
      BY <1>w, <2>1
    <3>2. UNCHANGED cards \/ HandleToolEvent(e) \/ HandleSpawnResult(e) \/ HandleYield(e)
      BY <1>1, <3>1 DEF CallEvent
    <3> HIDE DEF e
    <3>3. CASE HandleToolEvent(e)
      BY <3>3 DEF HandleToolEvent
    <3>4. CASE HandleSpawnResult(e)
      BY <3>4 DEF HandleSpawnResult
    <3>5. CASE HandleYield(e)
      BY <3>5 DEF HandleYield
    <3> QED BY <3>2, <3>3, <3>4, <3>5
  <2>3. CASE \E th, s, o : Upsert(Card(th, e.call, s, o, FALSE))
    <3>1. PICK th, s, o : Upsert(Card(th, e.call, s, o, FALSE))
      BY <2>3
    <3>2. PICK card : card = Card(th, e.call, s, o, FALSE)
      OBVIOUS
    <3>3. card.call = e.call /\ Upsert(card)
      BY <3>1, <3>2 DEF Card
    <3>4. \A c : c # e.call => CardsOf(c)' = CardsOf(c)
      BY <3>3, UpsertShows
    <3>5. \A c : CardsOf(c) # {} => CardsOf(c)' # {}
      BY <3>3, UpsertKeeps
    <3>6. Shows
      BY <2>1, <3>4 DEF Shows, Brings
    <3> QED BY <2>1, <3>5, <3>6 DEF Moves, Keeps
  <2> QED BY <1>q, <2>1, <2>2, <2>3 DEF Moves
<1>2. CASE Replayed
  <2>1. wire # <<>> /\ wire' = Tail(wire) /\ wire[1].kind = "history" /\ 1 \in 1..Len(wire)
    BY <1>w, <1>2 DEF Replayed
  <2>2. CASE UNCHANGED cards
    BY <1>q, <2>1, <2>2 DEF Moves
  <2>3. CASE Restore(wire[1].thid, wire[1].cards) /\ walletUp
    <3> DEFINE f == wire[1]
    <3>1. cards' = {d \in cards : d.thid # f.thid} \cup f.cards
      BY <2>3 DEF Restore
    <3>2. Shows
      BY <2>1, <3>1 DEF Shows, Brings, CardsOf
    <3>3. ASSUME NEW c \in Tools, CardsOf(c) # {} PROVE CardsOf(c)' # {}
      <4>1. PICK d \in cards : d.call = c
        BY <3>3 DEF CardsOf
      <4>2. d.thid = place[c] /\ phase[c] # "none"
        BY <4>1 DEF Filing, FiledWell
      <4>3. CASE d.thid # f.thid
        BY <3>1, <4>1, <4>3 DEF CardsOf
      <4>4. CASE d.thid = f.thid
        <5>1. ~Lacks(f, c)
          BY <2>1, <3>3 DEF Restorable
        <5>2. PICK b \in f.cards : b.call = c
          BY <2>1, <4>2, <4>4, <5>1 DEF Lacks
        <5> QED BY <3>1, <5>2 DEF CardsOf
      <4> QED BY <4>3, <4>4
    <3> QED BY <2>1, <3>2, <3>3 DEF Moves, Keeps
  <2> QED BY <1>2, <2>2, <2>3 DEF Replayed, Restore
<1>3. CASE OnConnected \/ OnDisconnected \/ OnConversationClose \/ GatewayReady
  BY <1>q, <1>3
  DEF OnConnected, OnDisconnected, OnConversationClose, GatewayReady, walletVars, Moves
<1>4. CASE GatewayCloses \/ Stop
  BY <1>q, <1>4 DEF GatewayCloses, Stop, Disconnect, walletVars, Moves
<1>5. ASSUME NEW th \in Threads,
             OnConversationOpen(th) \/ TurnBegins(th) \/ TurnGivesUp(th) \/ TurnEnds(th)
      PROVE  Moves /\ Shows /\ Keeps
  BY <1>q, <1>5 DEF OnConversationOpen, TurnBegins, TurnGivesUp, TurnEnds, walletVars, Moves
<1>6. ASSUME NEW th \in Threads, HistoryAnswered(th) PROVE Moves /\ Shows /\ Keeps
  <2>1. PICK f : f = [kind |-> "history", thid |-> th, cards |-> MapHistoryMessages(th)]
    OBVIOUS
  <2>2. Send(f) /\ UNCHANGED <<cards, phase, place>>
    BY <1>6, <2>1 DEF HistoryAnswered, gatewayVars, walletVars
  <2>3. ASSUME NEW c \in Tools, place[c] = th, phase[c] # "none"
        PROVE  \E d \in f.cards : d.call = c
    <3> DEFINE put == IF phase[c] = "done" THEN MergeToolOutput(<<>>, Part(c, 1, output[c]))
                      ELSE <<>>
               d == Card(th, c, "tool", put, FALSE)
    <3>1. d \in f.cards
      BY <2>1, <2>3 DEF MapHistoryMessages, Calls
    <3>2. d.call = c
      BY DEF Card
    <3> QED BY <3>1, <3>2
  <2>4. \A c \in Tools : ~Lacks(f, c)'
    BY <2>1, <2>2, <2>3 DEF Lacks
  <2>5. Moves
    BY <2>2, <2>4 DEF Send, Moves
  <2> QED BY <1>q, <2>2, <2>5
<1>7. ASSUME NEW c \in Calls, CallStarts(c) PROVE Moves /\ Shows /\ Keeps
  <2>1. PICK th : Send(ToolEvent(th, c, "start", <<>>, 0))
    BY <1>7 DEF CallStarts
  <2> QED BY <1>q, <1>s, <1>7, <2>1 DEF CallStarts, ToolEvent, walletVars
<1>8. ASSUME NEW c \in Tools, ToolUpdates(c) \/ ToolEnds(c) PROVE Moves /\ Shows /\ Keeps
  <2>1. \E ph, chunk, upto : Send(ToolEvent(place[c], c, ph, chunk, upto))
    BY <1>8 DEF ToolUpdates, ToolEnds
  <2> QED BY <1>q, <1>s, <1>8, <2>1 DEF ToolUpdates, ToolEnds, ToolEvent, walletVars
<1>9. ASSUME NEW c \in Spawns, SpawnEnds(c) PROVE Moves /\ Shows /\ Keeps
  <2>1. \E ph, chunk, upto : Send(ToolEvent(place[c], c, ph, chunk, upto))
    BY <1>9 DEF SpawnEnds
  <2> QED BY <1>q, <1>s, <1>9, <2>1 DEF SpawnEnds, ToolEvent, walletVars
<1>10. ASSUME NEW c \in Spawns, WaitAnswered(c) \/ WaitRejected(c) \/ ResultRead(c)
       PROVE  Moves /\ Shows /\ Keeps
  <2>1. wire' = wire /\ (UNCHANGED cards \/ \E s : Settle(c, s))
    BY <1>10 DEF WaitAnswered, WaitRejected, ResultRead, Answered
  <2>2. CASE \E s : Settle(c, s)
    <3>1. PICK s : Upsert(Card(Filed(c), c, s, <<>>, TRUE))
      BY <2>2 DEF Settle
    <3>2. PICK card : card = Card(Filed(c), c, s, <<>>, TRUE)
      OBVIOUS
    <3>3. card.call = c /\ Upsert(card)
      BY <3>1, <3>2 DEF Card
    <3>4. \A b \in Tools : CardsOf(b)' = CardsOf(b)
      BY <1>d, <3>3, UpsertShows
    <3> QED BY <2>1, <3>4 DEF Moves, Shows, Keeps
  <2> QED BY <1>q, <2>1, <2>2 DEF Moves
<1>11. ASSUME NEW c, YieldEnds(c) \/ ChildEnds(c) PROVE Moves /\ Shows /\ Keeps
  BY <1>q, <1>11 DEF YieldEnds, ChildEnds, walletVars, Moves
<1>12. CASE UNCHANGED cardsVars
  BY <1>q, <1>12 DEF cardsVars, walletVars, Moves
<1> QED
  BY <1>1, <1>2, <1>3, <1>4, <1>5, <1>6, <1>7, <1>8, <1>9, <1>10, <1>11, <1>12 DEF CardsNext

\* What the wallet has seen of a tool stays: a replay, which replaces all the
\* wallet holds of a thread, holds every tool of it that the wallet was shown
\* or that is on its way.
THEOREM ReplaysRestore == CardsSpec => ToolCardsStay
<1>1. CardsInit => Restorable
  BY DEF CardsInit, Restorable
<1>2. CardInv /\ CardInv' /\ Restorable /\ [CardsNext]_cardsVars => Restorable'
  BY NewIsUnheard, StepRestores, RestorableKept DEF CardInv
<1>3. CardInv /\ Restorable /\ [CardsNext]_cardsVars
        => [\A c \in Tools : CardsOf(c) # {} => {d \in cards' : d.call = c} # {}]_cardsVars
  <2>1. ASSUME Keeps PROVE \A c \in Tools : CardsOf(c) # {} => {d \in cards' : d.call = c} # {}
    BY <2>1 DEF Keeps, CardsOf
  <2> QED BY <2>1, StepRestores DEF CardInv
<1> QED BY <1>1, <1>2, <1>3, CardsAlways, PTL DEF CardsSpec, ToolCardsStay
=============================================================================
