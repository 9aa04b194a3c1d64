-------------------------- MODULE Ac2ClientProofs --------------------------
(***************************************************************************)
(* Theorems about Ac2Client for any set of calls and ids: no waiter is     *)
(* orphaned, no frame swallowed, and the client implements SingleUse.      *)
(***************************************************************************)
EXTENDS Ac2Client, TLAPS

\* Every variable keeps its type (the type invariant of the module).
THEOREM TypeCorrect == Spec => []TypeOK
<1>1. Init => TypeOK
  <2> SUFFICES ASSUME Init PROVE TypeOK
    OBVIOUS
  <2>1. toPeer \in Seq(Requests) /\ toClient \in Seq(Frames)
    BY DEF Init
  <2>2. /\ status \in [Calls -> {"idle", "waiting", "resolved", "timedOut",
                                 "rejected", "threw"}]
        /\ idOf \in [Calls -> Ids \cup {NoId}]
        /\ kindOf \in [Calls -> Kinds \cup {NoId}]
        /\ timer \in [Calls -> BOOLEAN]
        /\ pending \in [Ids -> Calls \cup {NoCall}]
        /\ offered \in [Ids -> SUBSET Types]
    BY DEF Init
  <2> QED
    BY <2>1, <2>2 DEF Init, TypeOK
<1>2. TypeOK /\ [Next]_vars => TypeOK'
  <2> SUFFICES ASSUME TypeOK, [Next]_vars PROVE TypeOK'
    OBVIOUS
  <2> USE DEF TypeOK
  <2>1. ASSUME NEW c \in Calls, NEW id \in Ids, NEW kind \in Kinds,
               NEW timed \in BOOLEAN, Request(c, id, kind, timed)
        PROVE  TypeOK'
    <3>1. [call |-> c, id |-> id, kind |-> kind] \in Requests
      BY DEF Requests
    <3> QED
      BY <2>1, <3>1 DEF Request, linkVars
  <2>2. ASSUME NEW c \in Calls, RequestThrows(c) PROVE TypeOK'
    BY <2>2 DEF RequestThrows, callVars, linkVars, peerVars
  <2>3. ASSUME NEW c \in Calls, TimerFires(c) PROVE TypeOK'
    BY <2>3 DEF TimerFires, Settle, callVars, linkVars, peerVars
  <2>4. ASSUME Receive PROVE TypeOK'
    <3>1. Head(toClient) \in Frames /\ toClient' \in Seq(Frames)
      BY <2>4 DEF Receive
    <3>2. Dispatch(Head(toClient))
      BY <2>4 DEF Receive
    <3>3. Head(toClient).thid \in Ids
      BY <3>1 DEF Frames
    <3>4. CASE Matches(Head(toClient))
      BY <2>4, <3>1, <3>2, <3>3, <3>4
      DEF Receive, Dispatch, Matches, Settle, callVars, linkVars, peerVars
    <3>5. CASE ~ Matches(Head(toClient))
      BY <2>4, <3>1, <3>2, <3>5 DEF Receive, Dispatch, callVars, linkVars, peerVars
    <3> QED
      BY <3>4, <3>5
  <2>5. ASSUME Close PROVE TypeOK'
    BY <2>5 DEF Close, OnClose, callVars, peerVars
  <2>6. ASSUME ChannelCloses PROVE TypeOK'
    <3>1. toPeer' \in Seq(Requests) /\ toClient' \in Seq(Frames)
      BY <2>6 DEF ChannelCloses
    <3>2. CASE emitted
      BY <2>6, <3>1, <3>2 DEF ChannelCloses, callVars
    <3>3. CASE ~emitted
      BY <2>6, <3>1, <3>3 DEF ChannelCloses, OnClose, callVars
    <3> QED
      BY <3>2, <3>3
  <2>7. ASSUME PeerReceives PROVE TypeOK'
    <3>1. Head(toPeer) \in Requests /\ toPeer' \in Seq(Requests)
      BY <2>7 DEF PeerReceives
    <3> QED
      BY <2>7, <3>1 DEF PeerReceives, callVars, linkVars
  <2>8. ASSUME NEW id \in Ids, NEW t \in Types, PeerSends(id, t)
        PROVE  /\ toClient' \in Seq(Frames)
               /\ sent' \in Nat
               /\ offered' \in [Ids -> SUBSET Types]
    <3>1. [thid |-> id, type |-> t] \in Frames
      BY DEF Frames
    <3>2. CASE readyState = "open"
      <4>1. /\ toClient' = Append(toClient, [thid |-> id, type |-> t])
            /\ offered' = [offered EXCEPT ![id] = @ \cup {t}]
            /\ sent' = sent + 1
        BY <2>8, <3>2 DEF PeerSends
      <4>2. toClient' \in Seq(Frames)
        BY <3>1, <4>1
      <4>3. offered' \in [Ids -> SUBSET Types]
        BY <4>1
      <4> QED
        BY <4>1, <4>2, <4>3
    <3>3. CASE readyState # "open"
      BY <2>8, <3>3 DEF PeerSends
    <3> QED
      BY <3>2, <3>3
  <2>9. ASSUME NEW p \in prompts, PeerResponderThrows(p) PROVE TypeOK'
    BY <2>9 DEF PeerResponderThrows, callVars, linkVars
  <2>10. ASSUME NEW p \in prompts, NEW t \in Types, PeerReplies(p, t)
         PROVE  TypeOK'
    <3>1. p.id \in Ids
      BY DEF Requests
    <3>2. PeerSends(p.id, t)
      BY <2>10 DEF PeerReplies
    <3> QED
      BY <2>8, <2>10, <3>1, <3>2 DEF PeerReplies, callVars, linkVars
  <2>11. ASSUME NEW id \in Ids, NEW t \in Types, PeerSpeaks(id, t)
         PROVE  TypeOK'
    BY <2>8, <2>11 DEF PeerSpeaks, callVars, linkVars
  <2>12. CASE UNCHANGED vars
    BY <2>12 DEF vars
  <2> QED
    BY <2>1, <2>2, <2>3, <2>4, <2>5, <2>6, <2>7, <2>9, <2>10, <2>11, <2>12 DEF Next
<1> QED
  BY <1>1, <1>2, PTL DEF Spec

-----------------------------------------------------------------------------
(***************************************************************************)
(* With ids that never repeat, Ac2Client.pending and the promises describe *)
(* each other: an entry belongs to a live call of that id, a live call has *)
(* its entry, and an id names one call.  This is what makes the safety     *)
(* invariants inductive.                                                   *)
(***************************************************************************)
EntryIsLive ==
  \A i \in Ids : pending[i] # NoCall =>
     idOf[pending[i]] = i /\ status[pending[i]] = "waiting"
LiveHasEntry ==
  \A c \in Calls : status[c] = "waiting" => idOf[c] \in Ids /\ pending[idOf[c]] = c
TimerIsLive == \A c \in Calls : timer[c] => status[c] = "waiting"
IdNamesOneCall ==
  \A c, d \in Calls : idOf[c] = idOf[d] /\ idOf[c] # NoId => c = d
EndIsFinal == emitted => closed /\ \A i \in Ids : pending[i] = NoCall

Correlated ==
  /\ EntryIsLive
  /\ LiveHasEntry
  /\ TimerIsLive
  /\ IdNamesOneCall
  /\ EndIsFinal

LEMMA CorrelatedInit == Init => Correlated
BY NoIdAssumption DEF Init, Correlated, EntryIsLive, LiveHasEntry, TimerIsLive,
                      IdNamesOneCall, EndIsFinal

\* Steps that leave the waiters, their ids and the end of the link alone.
LEMMA CorrelatedUntouched ==
  ASSUME Correlated, UNCHANGED <<status, callVars, timer, pending, closed, emitted>>
  PROVE  Correlated'
BY DEF Correlated, EntryIsLive, LiveHasEntry, TimerIsLive, IdNamesOneCall,
       EndIsFinal, callVars

\* A new request takes an id nobody has: it disturbs no other waiter.
LEMMA CorrelatedRequest ==
  ASSUME TypeOK, Correlated,
         NEW c \in Calls, NEW id \in Ids, NEW kind \in Kinds,
         NEW timed \in BOOLEAN, Request(c, id, kind, timed)
  PROVE  Correlated'
<1>1. /\ status[c] = "idle" /\ ~closed
      /\ \A d \in Calls : idOf[d] # id
      /\ status' = [status EXCEPT ![c] = "waiting"]
      /\ idOf' = [idOf EXCEPT ![c] = id]
      /\ timer' = [timer EXCEPT ![c] = timed]
      /\ pending' = [pending EXCEPT ![id] = c]
      /\ closed' = closed /\ emitted' = emitted
  BY DEF Request, MayUse, linkVars
<1>2. EntryIsLive'
  <2> SUFFICES ASSUME NEW i \in Ids, pending'[i] # NoCall
               PROVE  idOf'[pending'[i]] = i /\ status'[pending'[i]] = "waiting"
    BY DEF EntryIsLive
  <2>1. CASE i = id
    BY <1>1, <2>1 DEF TypeOK
  <2>2. CASE i # id
    <3>1. pending'[i] = pending[i] /\ pending[i] \in Calls
      BY <1>1, <2>2 DEF TypeOK
    <3>2. idOf[pending[i]] = i /\ status[pending[i]] = "waiting"
      BY <3>1 DEF Correlated, EntryIsLive
    <3> QED
      BY <1>1, <3>1, <3>2 DEF TypeOK
  <2> QED
    BY <2>1, <2>2
<1>3. LiveHasEntry'
  BY <1>1 DEF TypeOK, Correlated, LiveHasEntry
<1>4. TimerIsLive'
  BY <1>1 DEF TypeOK, Correlated, TimerIsLive
<1>5. IdNamesOneCall'
  BY <1>1 DEF TypeOK, Correlated, IdNamesOneCall
<1>6. EndIsFinal'
  BY <1>1 DEF TypeOK, Correlated, EndIsFinal
<1> QED
  BY <1>2, <1>3, <1>4, <1>5, <1>6 DEF Correlated

\* A call leaves: its entry is deleted, its timer disarmed, its promise settled.
LEMMA CorrelatedLeave ==
  ASSUME TypeOK, Correlated, NEW c \in Calls, status[c] = "waiting",
         NEW how \in {"resolved", "timedOut"},
         pending' = [pending EXCEPT ![idOf[c]] = NoCall],
         timer' = [timer EXCEPT ![c] = FALSE],
         Settle(c, how),
         UNCHANGED <<callVars, closed, emitted>>
  PROVE  Correlated'
<1>1. /\ status' = [status EXCEPT ![c] = how]
      /\ idOf' = idOf /\ closed' = closed /\ emitted' = emitted
      /\ idOf[c] \in Ids /\ pending[idOf[c]] = c
  BY DEF Settle, callVars, Correlated, LiveHasEntry, TypeOK
<1>2. EntryIsLive'
  <2> SUFFICES ASSUME NEW i \in Ids, pending'[i] # NoCall
               PROVE  idOf'[pending'[i]] = i /\ status'[pending'[i]] = "waiting"
    BY DEF EntryIsLive
  <2>1. i # idOf[c] /\ pending'[i] = pending[i] /\ pending[i] \in Calls
    BY <1>1 DEF TypeOK
  <2>2. idOf[pending[i]] = i /\ status[pending[i]] = "waiting"
    BY <2>1 DEF Correlated, EntryIsLive
  <2> QED
    BY <1>1, <2>1, <2>2 DEF TypeOK
<1>3. LiveHasEntry'
  <2> SUFFICES ASSUME NEW d \in Calls, status'[d] = "waiting"
               PROVE  idOf'[d] \in Ids /\ pending'[idOf'[d]] = d
    BY DEF LiveHasEntry
  <2>1. d # c /\ status[d] = "waiting"
    BY <1>1 DEF TypeOK
  <2>2. idOf[d] \in Ids /\ pending[idOf[d]] = d
    BY <2>1 DEF Correlated, LiveHasEntry
  <2>3. idOf[d] # idOf[c]
    BY <1>1, <2>1, <2>2
  <2> QED
    BY <1>1, <2>2, <2>3 DEF TypeOK
<1>4. TimerIsLive'
  BY <1>1 DEF TypeOK, Correlated, TimerIsLive
<1>5. IdNamesOneCall' /\ EndIsFinal'
  BY <1>1, NoCallAssumption DEF TypeOK, Correlated, IdNamesOneCall, EndIsFinal
<1> QED
  BY <1>2, <1>3, <1>4, <1>5 DEF Correlated

\* The end of the link rejects exactly the live calls.
LEMMA CorrelatedEnd ==
  ASSUME TypeOK, Correlated, OnClose, UNCHANGED callVars
  PROVE  Correlated'
<1>1. \A c \in Calls : status[c] = "waiting" => c \in Registered
  BY DEF Correlated, LiveHasEntry, Registered
<1>2. \A c \in Calls : status'[c] # "waiting" /\ ~timer'[c]
  BY <1>1 DEF OnClose, TypeOK, Correlated, TimerIsLive
<1>3. \A i \in Ids : pending'[i] = NoCall
  BY DEF OnClose
<1>4. idOf' = idOf /\ closed'
  BY DEF OnClose, callVars
<1> QED
  BY <1>2, <1>3, <1>4 DEF Correlated, EntryIsLive, LiveHasEntry, TimerIsLive,
                          IdNamesOneCall, EndIsFinal

LEMMA CorrelatedNext ==
  ASSUME TypeOK, Correlated, [Next]_vars
  PROVE  Correlated'
<1>1. ASSUME NEW c \in Calls, NEW id \in Ids, NEW kind \in Kinds,
             NEW timed \in BOOLEAN, Request(c, id, kind, timed)
      PROVE  Correlated'
  BY <1>1, CorrelatedRequest
<1>2. ASSUME NEW c \in Calls, RequestThrows(c)
      PROVE  Correlated'
  <2>1. /\ status[c] = "idle" /\ status' = [status EXCEPT ![c] = "threw"]
        /\ UNCHANGED <<idOf, timer, pending, closed, emitted>>
    BY <1>2 DEF RequestThrows, callVars, linkVars
  <2>2. \A d \in Calls : status'[d] = "waiting" <=> status[d] = "waiting"
    BY <2>1 DEF TypeOK
  <2>3. \A i \in Ids : pending[i] # NoCall => pending[i] \in Calls
    BY DEF TypeOK
  <2> QED
    BY <2>1, <2>2, <2>3 DEF Correlated, EntryIsLive, LiveHasEntry, TimerIsLive,
                            IdNamesOneCall, EndIsFinal
<1>3. ASSUME NEW c \in Calls, TimerFires(c)
      PROVE  Correlated'
  <2>1. status[c] = "waiting"
    BY <1>3 DEF TimerFires, Correlated, TimerIsLive
  <2> QED
    BY <1>3, <2>1, CorrelatedLeave DEF TimerFires, linkVars
<1>4. ASSUME Receive
      PROVE  Correlated'
  <2> DEFINE m == Head(toClient)
  <2>1. Dispatch(m) /\ UNCHANGED <<callVars, linkVars>> /\ m \in Frames
    BY <1>4 DEF Receive, TypeOK
  <2>2. CASE Matches(m)
    <3>1. m.thid \in Ids
      BY <2>1 DEF Frames
    <3>2. pending[m.thid] \in Calls
      BY <2>2, <3>1 DEF Matches, TypeOK
    <3>3. idOf[pending[m.thid]] = m.thid /\ status[pending[m.thid]] = "waiting"
      BY <3>1, <3>2, NoCallAssumption DEF Correlated, EntryIsLive
    <3>4. /\ pending' = [pending EXCEPT ![m.thid] = NoCall]
          /\ timer' = [timer EXCEPT ![pending[m.thid]] = FALSE]
          /\ Settle(pending[m.thid], "resolved")
      BY <2>1, <2>2 DEF Dispatch
    <3> QED
      BY <2>1, <3>2, <3>3, <3>4, CorrelatedLeave DEF linkVars
  <2>3. CASE ~ Matches(m)
    BY <2>1, <2>3, CorrelatedUntouched DEF Dispatch, linkVars
  <2> QED
    BY <2>2, <2>3
<1>5. ASSUME Close
      PROVE  Correlated'
  <2>1. CASE closeAware /\ ~emitted
    BY <1>5, <2>1, CorrelatedEnd DEF Close
  <2>2. CASE ~ (closeAware /\ ~emitted)
    BY <1>5, <2>2 DEF Close, callVars, Correlated, EntryIsLive, LiveHasEntry,
                      TimerIsLive, IdNamesOneCall, EndIsFinal
  <2> QED
    BY <2>1, <2>2
<1>6. ASSUME ChannelCloses
      PROVE  Correlated'
  <2>1. CASE emitted
    BY <1>6, <2>1, CorrelatedUntouched DEF ChannelCloses
  <2>2. CASE ~emitted
    BY <1>6, <2>2, CorrelatedEnd DEF ChannelCloses
  <2> QED
    BY <2>1, <2>2
<1>7. ASSUME PeerReceives
      PROVE  Correlated'
  BY <1>7, CorrelatedUntouched DEF PeerReceives, linkVars
<1>8. ASSUME NEW p \in prompts, PeerResponderThrows(p)
      PROVE  Correlated'
  BY <1>8, CorrelatedUntouched DEF PeerResponderThrows, linkVars
<1>9. ASSUME NEW p \in prompts, NEW t \in Types, PeerReplies(p, t)
      PROVE  Correlated'
  BY <1>9, CorrelatedUntouched DEF PeerReplies, linkVars
<1>10. ASSUME NEW id \in Ids, NEW t \in Types, PeerSpeaks(id, t)
       PROVE  Correlated'
  BY <1>10, CorrelatedUntouched DEF PeerSpeaks, linkVars
<1>11. CASE UNCHANGED vars
  BY <1>11, CorrelatedUntouched DEF vars, callVars
<1> QED
  BY <1>1, <1>2, <1>3, <1>4, <1>5, <1>6, <1>7, <1>8, <1>9, <1>10, <1>11 DEF Next

LEMMA AlwaysCorrelated == Spec => []Correlated
<1>1. TypeOK /\ Correlated /\ [Next]_vars => Correlated'
  BY CorrelatedNext
<1> QED
  BY <1>1, CorrelatedInit, TypeCorrect, PTL DEF Spec

\* No request in flight is ever orphaned.
THEOREM NoWaiterIsOrphaned == Spec => []WaiterReachable
<1>1. Correlated => WaiterReachable
  BY DEF Correlated, LiveHasEntry, TimerIsLive, WaiterReachable
<1> QED
  BY <1>1, AlwaysCorrelated, PTL

\* The end of the transport rejects every waiter.
THEOREM TheEndRejectsAll == Spec => []ClosedRejectsAll
<1>1. Correlated => ClosedRejectsAll
  BY NoCallAssumption DEF Correlated, LiveHasEntry, EndIsFinal, ClosedRejectsAll
<1> QED
  BY <1>1, AlwaysCorrelated, PTL

-----------------------------------------------------------------------------
(***************************************************************************)
(* The refinement.  The wallet speaks only in threads of requests that were *)
(* made, and what is on the wire to the client is what it said in its      *)
(* thread: so an answer that settles a call was offered to that very call, *)
(* and a fresh id starts with nothing offered.                             *)
(***************************************************************************)
UsedIds == {idOf[c] : c \in Calls}

IssuedHasId == \A c \in Calls : idOf[c] # NoId => status[c] # "idle"
AskedIsUsed ==
  /\ \A k \in 1..Len(toPeer) : toPeer[k].id \in UsedIds
  /\ \A p \in prompts : p.id \in UsedIds
SpokenIsUsed == \A i \in Ids : offered[i] # {} => i \in UsedIds
WireIsOffered == \A k \in 1..Len(toClient) : toClient[k].type \in offered[toClient[k].thid]

Threads == IssuedHasId /\ AskedIsUsed /\ SpokenIsUsed /\ WireIsOffered

LEMMA ThreadsInit == Init => Threads
BY DEF Init, Threads, IssuedHasId, AskedIsUsed, SpokenIsUsed, WireIsOffered

\* Ids are given once and calls do not become idle again.
LEMMA IdsStay ==
  ASSUME TypeOK, Threads, [Next]_vars
  PROVE  /\ \A c \in Calls : idOf[c] # NoId => idOf'[c] = idOf[c]
         /\ \A c \in Calls : status[c] # "idle" => status'[c] # "idle"
         /\ \A c \in Calls : idOf'[c] # idOf[c] => status'[c] # "idle"
<1> DEFINE Goal == /\ \A c \in Calls : idOf[c] # NoId => idOf'[c] = idOf[c]
                   /\ \A c \in Calls : status[c] # "idle" => status'[c] # "idle"
                   /\ \A c \in Calls : idOf'[c] # idOf[c] => status'[c] # "idle"
<1> SUFFICES Goal
  OBVIOUS
<1>1. ASSUME NEW c \in Calls, NEW id \in Ids, NEW kind \in Kinds,
             NEW timed \in BOOLEAN, Request(c, id, kind, timed)
      PROVE  Goal
  <2>1. /\ idOf[c] = NoId \/ idOf[c] \in Ids
        /\ status' = [status EXCEPT ![c] = "waiting"]
        /\ idOf' = [idOf EXCEPT ![c] = id]
    BY <1>1 DEF Request, TypeOK
  <2>2. \A d \in Calls : d # c => status'[d] = status[d] /\ idOf'[d] = idOf[d]
    BY <2>1 DEF TypeOK
  <2>3. status'[c] = "waiting" /\ idOf[c] = NoId
    BY <1>1, <2>1 DEF TypeOK, Threads, IssuedHasId, Request
  <2> QED
    BY <2>2, <2>3
<1>2. ASSUME NEW c \in Calls, RequestThrows(c) \/ TimerFires(c) PROVE Goal
  BY <1>2 DEF RequestThrows, TimerFires, Settle, callVars, TypeOK
<1>3. ASSUME Receive PROVE Goal
  <2>1. UNCHANGED idOf
    BY <1>3 DEF Receive, callVars
  <2>2. UNCHANGED status \/ Settle(pending[Head(toClient).thid], "resolved")
    BY <1>3 DEF Receive, Dispatch
  <2> QED
    BY <2>1, <2>2 DEF Settle, TypeOK
<1>4. ASSUME Close \/ ChannelCloses PROVE Goal
  <2>1. UNCHANGED idOf /\ (UNCHANGED status \/ OnClose)
    BY <1>4 DEF Close, ChannelCloses, callVars
  <2> QED
    BY <2>1 DEF OnClose, TypeOK
<1>5. ASSUME \/ PeerReceives
             \/ \E p \in prompts : PeerResponderThrows(p) \/ \E t \in Types : PeerReplies(p, t)
             \/ \E id \in Ids, t \in Types : PeerSpeaks(id, t)
             \/ UNCHANGED vars
      PROVE  Goal
  BY <1>5 DEF PeerReceives, PeerResponderThrows, PeerReplies, PeerSpeaks, callVars, vars
<1> QED
  BY <1>1, <1>2, <1>3, <1>4, <1>5 DEF Next

LEMMA UsedStays ==
  ASSUME TypeOK, Threads, [Next]_vars, NEW i \in Ids, i \in UsedIds
  PROVE  i \in UsedIds'
BY IdsStay, NoIdAssumption DEF UsedIds

\* What the wallet sends is offered in its thread, and nothing else changes.
LEMMA WireGrows ==
  ASSUME TypeOK, WireIsOffered, NEW id \in Ids, NEW type \in Types, PeerSends(id, type)
  PROVE  /\ WireIsOffered'
         /\ \A i \in Ids : offered'[i] # {} => offered[i] # {} \/ i = id
<1>1. CASE readyState = "open"
  <2>1. /\ toClient' = Append(toClient, [thid |-> id, type |-> type])
        /\ offered' = [offered EXCEPT ![id] = @ \cup {type}]
    BY <1>1 DEF PeerSends
  <2>2. \A i \in Ids : offered[i] \subseteq offered'[i] /\ (i # id => offered'[i] = offered[i])
    BY <2>1 DEF TypeOK
  <2>3. type \in offered'[id]
    BY <2>1 DEF TypeOK
  <2>4. ASSUME NEW k \in 1..Len(toClient') PROVE toClient'[k].type \in offered'[toClient'[k].thid]
    <3>1. toClient \in Seq(Frames) /\ Len(toClient) \in Nat
      BY DEF TypeOK
    <3>2. CASE k = Len(toClient) + 1
      BY <2>1, <2>3, <3>1, <3>2
    <3>3. CASE k # Len(toClient) + 1
      <4>1. k \in 1..Len(toClient) /\ toClient'[k] = toClient[k]
        BY <2>1, <2>4, <3>1, <3>3
      <4>2. toClient[k] \in Frames /\ toClient[k].type \in offered[toClient[k].thid]
        BY <3>1, <4>1 DEF WireIsOffered
      <4> QED
        BY <2>2, <4>1, <4>2 DEF Frames
    <3> QED
      BY <3>2, <3>3
  <2> QED
    BY <2>2, <2>4 DEF WireIsOffered
<1>2. CASE readyState # "open"
  BY <1>2 DEF PeerSends, WireIsOffered
<1> QED
  BY <1>1, <1>2

LEMMA ThreadsNext ==
  ASSUME TypeOK, TypeOK', Threads, [Next]_vars
  PROVE  Threads'
<1>1. IssuedHasId'
  BY IdsStay DEF Threads, IssuedHasId, TypeOK
<1>2. \A i \in Ids : i \in UsedIds => i \in UsedIds'
  BY UsedStays
<1>3. ASSUME UNCHANGED toPeer, \A p \in prompts' : p \in prompts PROVE AskedIsUsed'
  <2>1. ASSUME NEW k \in 1..Len(toPeer) PROVE toPeer[k].id \in Ids
    <3>1. toPeer[k] \in Requests
      BY DEF TypeOK
    <3> QED
      BY <3>1 DEF Requests
  <2>2. \A p \in prompts : p.id \in Ids
    BY DEF TypeOK, Requests
  <2> QED
    BY <1>2, <1>3, <2>1, <2>2 DEF Threads, AskedIsUsed
<1>4. ASSUME UNCHANGED offered PROVE SpokenIsUsed'
  BY <1>2, <1>4 DEF Threads, SpokenIsUsed
<1>5. ASSUME UNCHANGED <<offered, toClient>> PROVE WireIsOffered'
  BY <1>5 DEF Threads, WireIsOffered
<1>6. ASSUME NEW c \in Calls, NEW id \in Ids, NEW kind \in Kinds,
             NEW timed \in BOOLEAN, Request(c, id, kind, timed)
      PROVE  Threads'
  <2>1. /\ toPeer' = Append(toPeer, [call |-> c, id |-> id, kind |-> kind])
        /\ UNCHANGED <<offered, toClient, prompts>>
        /\ idOf' = [idOf EXCEPT ![c] = id]
    BY <1>6 DEF Request
  <2>2. id \in UsedIds'
    BY <2>1 DEF UsedIds, TypeOK
  <2>3. ASSUME NEW k \in 1..Len(toPeer') PROVE toPeer'[k].id \in UsedIds'
    <3>1. toPeer \in Seq(Requests) /\ Len(toPeer) \in Nat
      BY DEF TypeOK
    <3>2. CASE k = Len(toPeer) + 1
      <4>1. toPeer'[k].id = id
        BY <2>1, <3>1, <3>2
      <4> QED
        BY <2>2, <4>1 DEF UsedIds
    <3>3. CASE k # Len(toPeer) + 1
      <4>1. k \in 1..Len(toPeer) /\ toPeer'[k] = toPeer[k]
        BY <2>1, <2>3, <3>1, <3>3
      <4>2. toPeer[k] \in Requests /\ toPeer[k].id \in UsedIds
        BY <3>1, <4>1 DEF Threads, AskedIsUsed
      <4>3. PICK i \in Ids : i = toPeer[k].id
        BY <4>2 DEF Requests
      <4> QED
        BY <1>2, <4>1, <4>2, <4>3 DEF UsedIds
    <3> QED
      BY <3>2, <3>3
  <2>4. \A p \in prompts' : p.id \in UsedIds'
    BY <1>2, <2>1 DEF Threads, AskedIsUsed, TypeOK, Requests, UsedIds
  <2> QED
    BY <1>1, <1>4, <1>5, <2>1, <2>3, <2>4 DEF Threads, AskedIsUsed, UsedIds
<1>7. ASSUME NEW c \in Calls, RequestThrows(c) \/ TimerFires(c) PROVE Threads'
  BY <1>1, <1>3, <1>4, <1>5, <1>7 DEF RequestThrows, TimerFires, peerVars, Threads
<1>8. ASSUME Receive PROVE Threads'
  <2>1. UNCHANGED <<offered, toPeer, prompts>> /\ toClient' = Tail(toClient) /\ toClient # <<>>
    BY <1>8 DEF Receive, peerVars
  <2>2. toClient \in Seq(Frames) /\ Len(toClient) \in Nat
    BY DEF TypeOK
  <2>3. ASSUME NEW k \in 1..Len(toClient')
        PROVE  k + 1 \in 1..Len(toClient) /\ toClient'[k] = toClient[k + 1]
    BY <2>1, <2>2
  <2>4. WireIsOffered'
    BY <2>1, <2>3 DEF Threads, WireIsOffered
  <2> QED
    BY <1>1, <1>3, <1>4, <2>1, <2>4 DEF Threads
<1>9. ASSUME Close PROVE Threads'
  BY <1>1, <1>3, <1>4, <1>5, <1>9 DEF Close, peerVars, Threads
<1>10. ASSUME ChannelCloses PROVE Threads'
  <2>1. UNCHANGED <<offered, prompts>> /\ toPeer' = <<>> /\ toClient' = <<>>
    BY <1>10 DEF ChannelCloses
  <2>2. \A p \in prompts' : p.id \in UsedIds'
    BY <1>2, <2>1 DEF Threads, AskedIsUsed, TypeOK, Requests, UsedIds
  <2> QED
    BY <1>1, <1>4, <2>1, <2>2 DEF Threads, AskedIsUsed, WireIsOffered
<1>11. ASSUME PeerReceives PROVE Threads'
  <2>1. /\ UNCHANGED <<offered, toClient>> /\ toPeer # <<>>
        /\ prompts' = prompts \cup {Head(toPeer)} /\ toPeer' = Tail(toPeer)
    BY <1>11 DEF PeerReceives
  <2>2. toPeer \in Seq(Requests) /\ Len(toPeer) \in Nat /\ Len(toPeer) > 0
    BY <2>1 DEF TypeOK
  <2>3. ASSUME NEW k \in 1..Len(toPeer)
        PROVE  toPeer[k].id \in Ids /\ toPeer[k].id \in UsedIds
    <3>1. toPeer[k] \in Requests
      BY <2>2
    <3> QED
      BY <3>1 DEF Requests, Threads, AskedIsUsed
  <2>4. \A k \in 1..Len(toPeer) : toPeer[k].id \in UsedIds'
    BY <1>2, <2>3 DEF UsedIds
  <2>5. \A k \in 1..Len(toPeer') : k + 1 \in 1..Len(toPeer) /\ toPeer'[k] = toPeer[k + 1]
    BY <2>1, <2>2
  <2>6. \A p \in prompts : p.id \in UsedIds'
    BY <1>2 DEF Threads, AskedIsUsed, TypeOK, Requests, UsedIds
  <2>7. Head(toPeer).id \in UsedIds'
    BY <2>2, <2>4
  <2> QED
    BY <1>1, <1>4, <1>5, <2>1, <2>4, <2>5, <2>6, <2>7 DEF Threads, AskedIsUsed, UsedIds
<1>12. ASSUME NEW p \in prompts, PeerResponderThrows(p) PROVE Threads'
  BY <1>1, <1>3, <1>4, <1>5, <1>12 DEF PeerResponderThrows, Threads
<1>13. ASSUME NEW id \in Ids, NEW t \in Types, PeerSends(id, t), id \in UsedIds,
              UNCHANGED toPeer, \A p \in prompts' : p \in prompts
       PROVE  Threads'
  <2>1. /\ WireIsOffered'
        /\ \A i \in Ids : offered'[i] # {} => offered[i] # {} \/ i = id
    BY <1>13, WireGrows DEF Threads
  <2>2. SpokenIsUsed'
    BY <1>2, <1>13, <2>1 DEF Threads, SpokenIsUsed
  <2> QED
    BY <1>1, <1>3, <1>13, <2>1, <2>2 DEF Threads
<1>14. ASSUME NEW p \in prompts, NEW t \in Types, PeerReplies(p, t) PROVE Threads'
  <2>1. p.id \in Ids /\ p.id \in UsedIds
    BY DEF TypeOK, Requests, Threads, AskedIsUsed
  <2> QED
    BY <1>13, <1>14, <2>1 DEF PeerReplies
<1>15. ASSUME NEW id \in Ids, NEW t \in Types, PeerSpeaks(id, t) PROVE Threads'
  <2>1. id \in UsedIds
    BY <1>15 DEF PeerSpeaks, Threads, AskedIsUsed, SpokenIsUsed
  <2> QED
    BY <1>13, <1>15, <2>1 DEF PeerSpeaks
<1>16. CASE UNCHANGED vars
  BY <1>1, <1>3, <1>4, <1>5, <1>16 DEF vars, Threads
<1> QED
  BY <1>6, <1>7, <1>8, <1>9, <1>10, <1>11, <1>12, <1>14, <1>15, <1>16 DEF Next

LEMMA AlwaysThreads == Spec => []Threads
<1>1. TypeOK /\ TypeOK' /\ Threads /\ [Next]_vars => Threads'
  BY ThreadsNext
<1> QED
  BY <1>1, ThreadsInit, TypeCorrect, PTL DEF Spec

-----------------------------------------------------------------------------
(* What each call shows of itself: the mapped variables, one call at a time. *)
OutcomeOf(c) ==
  CASE status[c] = "resolved" -> "answered"
    [] status[c] \in {"timedOut", "rejected", "threw"} -> "failed"
    [] OTHER -> status[c]
OfferedTo(c) == IF idOf[c] = NoId THEN {} ELSE offered[idOf[c]]
WantedBy(c) == IF idOf[c] = NoId THEN {} ELSE ResponseTypes(kindOf[c])

LEMMA OutcomeFacts ==
  ASSUME TypeOK, NEW c \in Calls
  PROVE  /\ OutcomeOf(c) = "idle" <=> status[c] = "idle"
         /\ OutcomeOf(c) = "waiting" <=> status[c] = "waiting"
         /\ status[c] = "resolved" => OutcomeOf(c) = "answered"
         /\ status[c] \in {"timedOut", "rejected", "threw"} => OutcomeOf(c) = "failed"
BY DEF TypeOK, OutcomeOf

\* A step of one call's promise, the others untouched.
LEMMA OneOutcome ==
  ASSUME NEW c \in Calls, \A d \in Calls : d # c => status'[d] = status[d]
  PROVE  [d \in Calls |-> OutcomeOf(d)]' =
           [[d \in Calls |-> OutcomeOf(d)] EXCEPT ![c] = OutcomeOf(c)']
BY DEF OutcomeOf

LEMMA SameOutcomes ==
  ASSUME UNCHANGED status
  PROVE  UNCHANGED [d \in Calls |-> OutcomeOf(d)]
BY DEF OutcomeOf

LEMMA SameWanted ==
  ASSUME UNCHANGED callVars
  PROVE  UNCHANGED [d \in Calls |-> WantedBy(d)]
BY DEF WantedBy, callVars

LEMMA SameOffered ==
  ASSUME UNCHANGED <<idOf, offered>>
  PROVE  UNCHANGED [d \in Calls |-> OfferedTo(d)]
BY DEF OfferedTo

-----------------------------------------------------------------------------
(* One lemma per kind of step: which step of the promise it is. *)
LEMMA RequestIssues ==
  ASSUME TypeOK, TypeOK', Correlated, Threads,
         NEW c \in Calls, NEW id \in Ids, NEW kind \in Kinds,
         NEW timed \in BOOLEAN, Request(c, id, kind, timed)
  PROVE  Promise!Next
<1>1. /\ status[c] = "idle" /\ \A d \in Calls : idOf[d] # id
      /\ ~closed /\ emitted' = emitted
      /\ status' = [status EXCEPT ![c] = "waiting"]
      /\ idOf' = [idOf EXCEPT ![c] = id]
      /\ kindOf' = [kindOf EXCEPT ![c] = kind]
      /\ offered' = offered
  BY DEF Request, MayUse, linkVars
<1>2. ~emitted
  BY <1>1 DEF Correlated, EndIsFinal
<1>3. idOf[c] = NoId /\ offered[id] = {}
  BY <1>1 DEF Threads, IssuedHasId, SpokenIsUsed, UsedIds
<1>4. /\ idOf'[c] = id /\ kindOf'[c] = kind /\ status'[c] = "waiting"
      /\ \A d \in Calls : d # c =>
           status'[d] = status[d] /\ idOf'[d] = idOf[d] /\ kindOf'[d] = kindOf[d]
  BY <1>1 DEF TypeOK
<1>5. OutcomeOf(c) = "idle" /\ OutcomeOf(c)' = "waiting"
  BY <1>1, <1>4, OutcomeFacts DEF OutcomeOf
<1>6. [d \in Calls |-> OutcomeOf(d)]' = [[d \in Calls |-> OutcomeOf(d)] EXCEPT ![c] = "waiting"]
  BY <1>4, <1>5, OneOutcome
<1>7. UNCHANGED [d \in Calls |-> OfferedTo(d)]
  BY <1>1, <1>3, <1>4, NoIdAssumption DEF OfferedTo
<1>8. [d \in Calls |-> WantedBy(d)]' =
        [[d \in Calls |-> WantedBy(d)] EXCEPT ![c] = ResponseTypes(kind)]
  BY <1>4, NoIdAssumption DEF WantedBy
<1>9. ResponseTypes(kind) \in SUBSET Types
  BY DEF ResponseTypes, Types
<1>10. Promise!Issue(c, ResponseTypes(kind))
  BY <1>1, <1>2, <1>5, <1>6, <1>7, <1>8
  DEF Promise!Issue, OutcomeOf, OfferedTo, WantedBy
<1> QED
  BY <1>9, <1>10 DEF Promise!Next

LEMMA ThrowRefuses ==
  ASSUME TypeOK, TypeOK', NEW c \in Calls, RequestThrows(c)
  PROVE  Promise!Next
<1>1. /\ status[c] = "idle" /\ status' = [status EXCEPT ![c] = "threw"]
      /\ UNCHANGED <<callVars, idOf, offered, emitted>>
  BY DEF RequestThrows, callVars, linkVars, peerVars
<1>2. status'[c] = "threw" /\ \A d \in Calls : d # c => status'[d] = status[d]
  BY <1>1 DEF TypeOK
<1>3. OutcomeOf(c) = "idle" /\ OutcomeOf(c)' = "failed"
  BY <1>1, <1>2, OutcomeFacts DEF OutcomeOf
<1>4. [d \in Calls |-> OutcomeOf(d)]' = [[d \in Calls |-> OutcomeOf(d)] EXCEPT ![c] = "failed"]
  BY <1>2, <1>3, OneOutcome
<1>5. Promise!Refuse(c)
  BY <1>1, <1>3, <1>4, SameOffered, SameWanted
  DEF Promise!Refuse, OutcomeOf, OfferedTo, WantedBy
<1> QED
  BY <1>5 DEF Promise!Next

LEMMA TimerTimesOut ==
  ASSUME TypeOK, TypeOK', Correlated, NEW c \in Calls, TimerFires(c)
  PROVE  Promise!Next
<1>1. /\ status[c] = "waiting" /\ status' = [status EXCEPT ![c] = "timedOut"]
      /\ UNCHANGED <<callVars, idOf, offered, emitted>>
  BY DEF TimerFires, Settle, Correlated, TimerIsLive, callVars, linkVars, peerVars, TypeOK
<1>2. status'[c] = "timedOut" /\ \A d \in Calls : d # c => status'[d] = status[d]
  BY <1>1 DEF TypeOK
<1>3. OutcomeOf(c) = "waiting" /\ OutcomeOf(c)' = "failed"
  BY <1>1, <1>2, OutcomeFacts DEF OutcomeOf
<1>4. [d \in Calls |-> OutcomeOf(d)]' = [[d \in Calls |-> OutcomeOf(d)] EXCEPT ![c] = "failed"]
  BY <1>2, <1>3, OneOutcome
<1>5. Promise!Timeout(c)
  BY <1>1, <1>3, <1>4, SameOffered, SameWanted
  DEF Promise!Timeout, OutcomeOf, OfferedTo, WantedBy
<1> QED
  BY <1>5 DEF Promise!Next

\* A frame that settles a waiter was offered in its thread, and is of a type it wants.
LEMMA MatchAnswers ==
  ASSUME TypeOK, TypeOK', Correlated, Threads, Receive, Matches(Head(toClient))
  PROVE  /\ Promise!Next
         /\ \E c \in Calls : status[c] = "waiting" /\ status'[c] = "resolved"
<1>1. /\ toClient # <<>> /\ Dispatch(Head(toClient))
      /\ UNCHANGED <<callVars, idOf, offered, emitted>>
  BY DEF Receive, callVars, linkVars, peerVars
<1>2. PICK m : m = Head(toClient)
  OBVIOUS
<1>3. m \in Frames /\ m.type \in offered[m.thid]
  <2>1. toClient \in Seq(Frames) /\ Len(toClient) > 0 /\ 1 \in 1..Len(toClient)
    BY <1>1 DEF TypeOK
  <2> QED
    BY <1>2, <2>1 DEF Threads, WireIsOffered
<1>4. PICK c : c = pending[m.thid]
  OBVIOUS
<1>5. m.thid \in Ids /\ c \in Calls
  BY <1>2, <1>3, <1>4 DEF Frames, Matches, TypeOK
<1>6. /\ idOf[c] = m.thid /\ status[c] = "waiting" /\ m.type \in ResponseTypes(kindOf[c])
      /\ Settle(c, "resolved")
  BY <1>1, <1>2, <1>4, <1>5, NoCallAssumption
  DEF Correlated, EntryIsLive, Matches, Dispatch
<1>7. status'[c] = "resolved" /\ \A d \in Calls : d # c => status'[d] = status[d]
  BY <1>5, <1>6 DEF Settle, TypeOK
<1>8. OutcomeOf(c) = "waiting" /\ OutcomeOf(c)' = "answered"
  BY <1>5, <1>6, <1>7, OutcomeFacts DEF OutcomeOf
<1>9. [d \in Calls |-> OutcomeOf(d)]' = [[d \in Calls |-> OutcomeOf(d)] EXCEPT ![c] = "answered"]
  BY <1>5, <1>7, <1>8, OneOutcome
<1>10. OfferedTo(c) \cap WantedBy(c) # {}
  BY <1>3, <1>5, <1>6, NoIdAssumption DEF OfferedTo, WantedBy
<1>11. Promise!Answer(c)
  BY <1>1, <1>5, <1>8, <1>9, <1>10, SameOffered, SameWanted
  DEF Promise!Answer, OutcomeOf, OfferedTo, WantedBy
<1> QED
  BY <1>5, <1>6, <1>7, <1>11 DEF Promise!Next

\* The hook fails exactly the calls that wait.
LEMMA CloseEnds ==
  ASSUME TypeOK, TypeOK', Correlated, OnClose, ~emitted, UNCHANGED <<callVars, offered>>
  PROVE  Promise!Next
<1>1. \A c \in Calls : status[c] = "waiting" => c \in Registered
  BY DEF Correlated, LiveHasEntry, Registered
<1>2. \A c \in Calls : status'[c] = IF status[c] = "waiting" THEN "rejected" ELSE status[c]
  BY <1>1 DEF OnClose
<1>3. ASSUME NEW c \in Calls
      PROVE  OutcomeOf(c)' = IF OutcomeOf(c) = "waiting" THEN "failed" ELSE OutcomeOf(c)
  <2>1. CASE status[c] = "waiting"
    <3>1. status'[c] = "rejected" /\ OutcomeOf(c) = "waiting"
      BY <1>2, <2>1, OutcomeFacts
    <3> QED
      BY <3>1 DEF OutcomeOf
  <2>2. CASE status[c] # "waiting"
    <3>1. status'[c] = status[c] /\ OutcomeOf(c) # "waiting"
      BY <1>2, <2>2, OutcomeFacts
    <3> QED
      BY <3>1 DEF OutcomeOf
  <2> QED
    BY <2>1, <2>2
<1>4. [c \in Calls |-> OutcomeOf(c)]' =
        [c \in Calls |-> IF [d \in Calls |-> OutcomeOf(d)][c] = "waiting" THEN "failed"
                         ELSE [d \in Calls |-> OutcomeOf(d)][c]]
  BY <1>3
<1>5. emitted' = TRUE /\ UNCHANGED <<idOf, offered>>
  BY DEF OnClose, callVars
<1>6. Promise!End
  BY <1>4, <1>5, SameOffered, SameWanted DEF Promise!End, OutcomeOf, OfferedTo, WantedBy
<1> QED
  BY <1>6 DEF Promise!Next

\* What the wallet says is offered to the one call of its thread.
LEMMA SpeechOffers ==
  ASSUME TypeOK, TypeOK', Correlated, Threads, NEW id \in Ids, NEW t \in Types,
         id \in UsedIds, PeerSends(id, t), UNCHANGED <<status, callVars, emitted>>
  PROVE  [Promise!Next]_Promise!vars
<1>1. idOf' = idOf
  BY DEF callVars
<1>2. CASE readyState # "open"
  BY <1>1, <1>2, SameOutcomes, SameOffered, SameWanted
  DEF PeerSends, Promise!vars, OutcomeOf, OfferedTo, WantedBy
<1>3. CASE readyState = "open"
  <2>1. PICK c \in Calls : idOf[c] = id
    BY DEF UsedIds
  <2>2. \A d \in Calls : d # c => idOf[d] # id
    BY <2>1, NoIdAssumption DEF Correlated, IdNamesOneCall
  <2>3. offered' = [offered EXCEPT ![id] = @ \cup {t}]
    BY <1>3 DEF PeerSends
  <2>4. OfferedTo(c)' = OfferedTo(c) \cup {t}
    BY <1>1, <2>1, <2>3, NoIdAssumption DEF OfferedTo, TypeOK
  <2>5. \A d \in Calls : d # c => OfferedTo(d)' = OfferedTo(d)
    BY <1>1, <2>2, <2>3 DEF OfferedTo, TypeOK
  <2>6. [d \in Calls |-> OfferedTo(d)]' =
          [[d \in Calls |-> OfferedTo(d)] EXCEPT ![c] = @ \cup {t}]
    BY <2>4, <2>5
  <2>7. OutcomeOf(c) # "idle"
    BY <2>1, NoIdAssumption, OutcomeFacts DEF Threads, IssuedHasId
  <2>8. Promise!Offer(c, t)
    BY <2>6, <2>7, SameOutcomes, SameWanted
    DEF Promise!Offer, OutcomeOf, OfferedTo, WantedBy
  <2> QED
    BY <2>8 DEF Promise!Next
<1> QED
  BY <1>2, <1>3

\* Everything else is between the client and its wire.
LEMMA SilentStutters ==
  ASSUME UNCHANGED <<status, callVars, offered, emitted>>
  PROVE  UNCHANGED Promise!vars
<1>1. UNCHANGED idOf
  BY DEF callVars
<1> QED
  BY <1>1, SameOutcomes, SameOffered, SameWanted
  DEF Promise!vars, OutcomeOf, OfferedTo, WantedBy

LEMMA StepRefines ==
  ASSUME TypeOK, TypeOK', Correlated, Threads, [Next]_vars
  PROVE  [Promise!Next]_Promise!vars
<1>1. ASSUME NEW c \in Calls, NEW id \in Ids, NEW kind \in Kinds,
             NEW timed \in BOOLEAN, Request(c, id, kind, timed)
      PROVE  [Promise!Next]_Promise!vars
  BY <1>1, RequestIssues
<1>2. ASSUME NEW c \in Calls, RequestThrows(c) \/ TimerFires(c)
      PROVE  [Promise!Next]_Promise!vars
  BY <1>2, ThrowRefuses, TimerTimesOut
<1>3. CASE Receive
  <2>1. CASE Matches(Head(toClient))
    BY <1>3, <2>1, MatchAnswers
  <2>2. CASE ~Matches(Head(toClient))
    <3>1. UNCHANGED <<status, callVars, offered, emitted>>
      BY <1>3, <2>2 DEF Receive, Dispatch, linkVars, peerVars
    <3> QED
      BY <3>1, SilentStutters
  <2> QED
    BY <2>1, <2>2
<1>4. CASE Close \/ ChannelCloses
  <2>1. UNCHANGED <<callVars, offered>>
    BY <1>4 DEF Close, ChannelCloses, peerVars
  <2>2. (OnClose /\ ~emitted) \/ UNCHANGED <<status, emitted>>
    BY <1>4 DEF Close, ChannelCloses
  <2> QED
    BY <2>1, <2>2, CloseEnds, SilentStutters
<1>5. CASE PeerReceives \/ (\E p \in prompts : PeerResponderThrows(p)) \/ UNCHANGED vars
  <2>1. UNCHANGED <<status, callVars, offered, emitted>>
    BY <1>5 DEF PeerReceives, PeerResponderThrows, vars, callVars, linkVars
  <2> QED
    BY <2>1, SilentStutters
<1>6. ASSUME NEW p \in prompts, NEW t \in Types, PeerReplies(p, t)
      PROVE  [Promise!Next]_Promise!vars
  <2>1. p.id \in Ids /\ p.id \in UsedIds
    BY DEF TypeOK, Requests, Threads, AskedIsUsed
  <2>2. PeerSends(p.id, t) /\ UNCHANGED <<status, callVars, emitted>>
    BY <1>6 DEF PeerReplies, linkVars
  <2> QED
    BY <2>1, <2>2, SpeechOffers
<1>7. ASSUME NEW id \in Ids, NEW t \in Types, PeerSpeaks(id, t)
      PROVE  [Promise!Next]_Promise!vars
  <2>1. id \in UsedIds
    BY <1>7 DEF PeerSpeaks, Threads, AskedIsUsed, SpokenIsUsed
  <2>2. PeerSends(id, t) /\ UNCHANGED <<status, callVars, emitted>>
    BY <1>7 DEF PeerSpeaks, linkVars
  <2> QED
    BY <2>1, <2>2, SpeechOffers
<1> QED
  BY <1>1, <1>2, <1>3, <1>4, <1>5, <1>6, <1>7 DEF Next

LEMMA StartRefines == Init => Promise!Init
<1> SUFFICES ASSUME Init PROVE Promise!Init
  OBVIOUS
<1>1. \A c \in Calls : OutcomeOf(c) = "idle" /\ OfferedTo(c) = {} /\ WantedBy(c) = {}
  BY DEF Init, OutcomeOf, OfferedTo, WantedBy
<1>2. emitted = FALSE
  BY DEF Init
<1> QED
  BY <1>1, <1>2 DEF Promise!Init, OutcomeOf, OfferedTo, WantedBy

\* Ac2Client implements the single-use promise: every request settles at most once, by
\* an answer the wallet gave in that very thread and of a type the caller asked for, or
\* by an error, and the end of the transport fails all of them at once (client.ts
\* 82-108, 320-407).
THEOREM ClientKeepsPromise == Spec => ImplementsSingleUse
<1>1. TypeOK /\ TypeOK' /\ Correlated /\ Threads /\ [Next]_vars => [Promise!Next]_Promise!vars
  BY StepRefines
<1> QED
  BY <1>1, StartRefines, TypeCorrect, AlwaysCorrelated, AlwaysThreads, PTL
  DEF Spec, ImplementsSingleUse, Promise!Spec

-----------------------------------------------------------------------------
\* A step that takes a frame off the wire dispatches it: nothing else shortens it.
LEMMA OnlyReceiveTakes ==
  ASSUME TypeOK, [Next]_vars, toClient # <<>>, toClient' = Tail(toClient),
         readyState' # "closed"
  PROVE  Receive
<1>1. toClient \in Seq(Frames)
  BY DEF TypeOK
<1>2. toClient' # toClient /\ \A f \in Frames : toClient' # Append(toClient, f)
  <2>1. PICK n \in Nat : n = Len(toClient)
    BY <1>1
  <2>2. Len(toClient') = n - 1
    BY <1>1, <2>1
  <2>3. ASSUME NEW f \in Frames PROVE Len(Append(toClient, f)) = n + 1
    BY <1>1, <2>1
  <2>4. n - 1 # n /\ n - 1 # n + 1
    OBVIOUS
  <2> QED
    BY <2>1, <2>2, <2>3, <2>4, Zenon
<1>3. ASSUME NEW id \in Ids, NEW t \in Types PROVE ~PeerSends(id, t)
  <2>1. [thid |-> id, type |-> t] \in Frames
    BY DEF Frames
  <2> QED
    BY <1>2, <2>1 DEF PeerSends
<1>4. ~ChannelCloses /\ ~UNCHANGED vars /\ ~Close /\ ~PeerReceives
  BY <1>2 DEF ChannelCloses, vars, Close, PeerReceives
<1>5. ASSUME NEW c \in Calls
      PROVE  /\ ~RequestThrows(c) /\ ~TimerFires(c)
             /\ \A id \in Ids, kind \in Kinds, timed \in BOOLEAN : ~Request(c, id, kind, timed)
  BY <1>2 DEF RequestThrows, TimerFires, Request
<1>6. ASSUME NEW p \in prompts
      PROVE  ~PeerResponderThrows(p) /\ \A t \in Types : ~PeerReplies(p, t)
  BY <1>2, <1>3 DEF PeerResponderThrows, PeerReplies, TypeOK, Requests
<1>7. \A id \in Ids, t \in Types : ~PeerSpeaks(id, t)
  BY <1>3 DEF PeerSpeaks
<1> QED
  BY <1>4, <1>5, <1>6, <1>7 DEF Next

LEMMA TakenIsSeen ==
  ASSUME TypeOK, TypeOK', Correlated, Threads, [Next]_vars,
         toClient # <<>>, toClient' = Tail(toClient), readyState' # "closed"
  PROVE  \/ \E c \in Calls : status[c] = "waiting" /\ status'[c] = "resolved"
         \/ handled' = handled + 1
<1>1. Receive
  BY OnlyReceiveTakes
<1>2. CASE Matches(Head(toClient))
  BY <1>1, <1>2, MatchAnswers
<1>3. CASE ~Matches(Head(toClient))
  BY <1>1, <1>3 DEF Receive, Dispatch
<1> QED
  BY <1>2, <1>3

\* No frame is swallowed: a delivered one settles a live waiter or is seen by the
\* handlers, however many answers the wallet gives to one request (client.ts 391-407).
THEOREM EveryFrameIsSeen == Spec => NoFrameSwallowed
<1>1. TypeOK /\ TypeOK' /\ Correlated /\ Threads /\ [Next]_vars
      => [toClient # <<>> /\ toClient' = Tail(toClient) /\ readyState' # "closed"
          => \/ \E c \in Calls : status[c] = "waiting" /\ status'[c] = "resolved"
             \/ handled' = handled + 1]_vars
  BY TakenIsSeen
<1> QED
  BY <1>1, TypeCorrect, AlwaysCorrelated, AlwaysThreads, PTL DEF Spec, NoFrameSwallowed
=============================================================================
