---------------------------- MODULE BrokerProofs ----------------------------
(***************************************************************************)
(* What holds of the broker for every number of cycles, handles, wallets   *)
(* and callers.  In every order of their steps: its state is well typed,   *)
(* the retry delay is that of its tier, and (until one is forgotten) an    *)
(* identity on disk has its key, and it keeps the contract of every        *)
(* pairing handle.  With one cycle at a time: what it publishes is true,   *)
(* what it grants is rightful, the binding lasts.  With cycles cancelled   *)
(* at any await: a cancelled loop is cut off.                              *)
(***************************************************************************)
EXTENDS Broker, TLAPS

Retries == [delay : {2, 4, 8, 16, 30, 300}, fails : 0..CooldownAfter,
            cooling : BOOLEAN]

Tiered(r) ==
  /\ r.cooling <=> r.fails = CooldownAfter
  /\ IF r.cooling THEN r.delay = CooldownDelay ELSE r.delay <= BackoffMax

\* A session knows its wallet; one that migrates read a stored identity.
SessionPeer ==
  \A t \in Tokens :
    /\ InSession(t) => peer[t].wallet \in Wallets
    /\ pc[t] = "migrate" => peer[t].stored \in Wallets

Inv == TypeOK /\ DelayMatchesTier /\ SessionPeer

-----------------------------------------------------------------------------
(* The retry policy keeps a well-typed record in its tier. *)
LEMMA FreshRetryTiered == FreshRetry \in Retries /\ Tiered(FreshRetry)
  BY CooldownAssumption
  DEF FreshRetry, Retries, Tiered, BackoffInitial, BackoffMax, CooldownDelay

LEMMA NoteFailureTiered ==
  ASSUME NEW r \in Retries, Tiered(r)
  PROVE  NoteFailure(r) \in Retries /\ Tiered(NoteFailure(r))
  BY CooldownAssumption
  DEF NoteFailure, Least, Retries, Tiered, BackoffMax, CooldownDelay

LEMMA DoubledTiered ==
  ASSUME NEW r \in Retries, Tiered(r)
  PROVE  Doubled(r) \in Retries /\ Tiered(Doubled(r))
  BY CooldownAssumption
  DEF Doubled, Least, Retries, Tiered, BackoffMax, CooldownDelay

-----------------------------------------------------------------------------
(* The shared pieces of the handlers keep the types of what they assign. *)
LEMMA GotoType ==
  ASSUME TypeOK, NEW t \in Tokens, NEW l \in Labels, Goto(t, l)
  PROVE  pc' \in [Tokens -> Labels]
  BY DEF TypeOK, Goto

LEMMA EnterLinkType ==
  ASSUME TypeOK, NEW t \in Tokens, EnterLink(t)
  PROVE  pc' \in [Tokens -> Labels] /\ reached' \in BOOLEAN
<1>1. pc' \in [Tokens -> Labels]
  BY DEF TypeOK, EnterLink, Goto, Labels
<1>2. reached' \in BOOLEAN
  <2>1. CASE MayRun(t)
    BY <2>1, Zenon DEF EnterLink
  <2>2. CASE ~MayRun(t)
    BY <2>2, Zenon DEF TypeOK, EnterLink
  <2> QED
    BY <2>1, <2>2
<1> QED
  BY <1>1, <1>2

LEMMA SleepType ==
  ASSUME TypeOK, NEW t \in Tokens, NEW l \in Sleeping, Sleep(t, l)
  PROVE  pc' \in [Tokens -> Labels] /\ wake' \in Tokens \cup {None}
  BY GotoType DEF Sleep, Sleeping, Labels

LEMMA ConnectedType ==
  ASSUME TypeOK, NEW t \in Tokens, Connected(t)
  PROVE  state' \in States /\ reached' \in BOOLEAN /\ pc' \in [Tokens -> Labels]
  BY GotoType DEF Connected, States, Labels

LEMMA UnlinkType ==
  ASSUME TypeOK, NEW h, Unlink(h)
  PROVE  link' \in [Handles -> BOOLEAN]
  BY DEF TypeOK, Unlink

LEMMA DisposeType ==
  ASSUME TypeOK, NEW h, Dispose(h)
  PROVE  /\ socket' \in [Handles -> {"free", "up", "down", "disposed"}]
         /\ link' \in [Handles -> BOOLEAN]
<1>1. socket' \in [Handles -> {"free", "up", "down", "disposed"}]
  BY DEF TypeOK, Dispose
<1> QED
  BY <1>1, UnlinkType DEF Dispose

LEMMA TakeHandleType ==
  ASSUME TypeOK, NEW x \in Teardowns, TakeHandle(x)
  PROVE  /\ handle' \in Handles \cup {None}
         /\ tearing' \in [Teardowns -> {"no", "channel", "handle"}]
         /\ state' \in States
         /\ socket' \in [Handles -> {"free", "up", "down", "disposed"}]
         /\ link' \in [Handles -> BOOLEAN]
<1>1. CASE handle = None
  BY <1>1 DEF TypeOK, TakeHandle, States, netVars
<1>2. CASE handle # None
  <2>1. Dispose(handle) /\ UNCHANGED state
    BY <1>2 DEF TakeHandle
  <2>2. tearing' \in [Teardowns -> {"no", "channel", "handle"}]
    BY <1>2 DEF TypeOK, TakeHandle
  <2> QED
    BY <2>1, <2>2, DisposeType DEF TypeOK, TakeHandle
<1> QED
  BY <1>1, <1>2

LEMMA RetryType ==
  ASSUME Inv, NEW t \in Tokens, NEW r,
         r \in {FreshRetry, NoteFailure(retry[t]), Doubled(retry[t])}
  PROVE  r \in Retries /\ Tiered(r)
<1>1. retry[t] \in Retries /\ Tiered(retry[t])
  BY DEF Inv, TypeOK, DelayMatchesTier, Retries, Tiered
<1> QED
  BY <1>1, FreshRetryTiered, NoteFailureTiered, DoubledTiered

LEMMA AfterSessionType ==
  ASSUME Inv, NEW t \in Tokens, AfterSession(t)
  PROVE  /\ retry' \in [Tokens -> Retries]
         /\ state' \in States
         /\ pc' \in [Tokens -> Labels]
         /\ reached' \in BOOLEAN
         /\ wake' \in Tokens \cup {None}
         /\ socket' \in [Handles -> {"free", "up", "down", "disposed"}]
         /\ link' \in [Handles -> BOOLEAN]
<1>1. TypeOK /\ retry \in [Tokens -> Retries]
  BY DEF Inv, TypeOK, Retries
<1>2. CASE ~MayRun(t)
  BY <1>1, <1>2, GotoType DEF TypeOK, AfterSession, Labels, netVars
<1>3. CASE MayRun(t)
  <2>1. retry' \in [Tokens -> Retries] /\ state' \in States
    BY <1>1, <1>3, RetryType DEF AfterSession, NextRetry, States
  <2>2. CASE EnterLink(t) /\ UNCHANGED <<wake, netVars>>
    BY <1>1, <2>1, <2>2, EnterLinkType DEF TypeOK, netVars
  <2>3. CASE Sleep(t, "rearm") /\ UNCHANGED <<reached, netVars>>
    BY <1>1, <2>1, <2>3, SleepType DEF TypeOK, netVars, Sleeping
  <2>4. CASE Dispose(active[t]) /\ Goto(t, "disposing") /\ UNCHANGED <<reached, wake>>
    BY <1>1, <2>1, <2>4, DisposeType, GotoType DEF TypeOK, Labels
  <2> QED
    BY <1>3, <2>2, <2>3, <2>4 DEF AfterSession
<1> QED
  BY <1>2, <1>3

-----------------------------------------------------------------------------
(* One step per action, and one per variable an action assigns. *)
LEMMA TypeStep ==
  ASSUME Inv, Next
  PROVE  TypeOK'
<1> USE NoneAssumption, TokenAssumption, EnteringAssumption DEF Inv, TypeOK
<1>1. ASSUME StartPairing PROVE TypeOK'
  <2>1. /\ pc' \in [Tokens -> Labels]
        /\ wake' \in Tokens \cup {None}
    BY <1>1 DEF StartPairing, CancelBackoff, Awake, Labels
  <2>2. entering' \in 0..MaxEntering
    BY <1>1 DEF StartPairing
  <2> QED
    BY <1>1, <2>1, <2>2 DEF StartPairing, gateVars, sessionVars, netVars, diskVars
<1>2. ASSUME EnterCycle PROVE TypeOK'
  <2>1. /\ cycleToken' \in 0..MaxToken
        /\ entering' \in 0..MaxEntering
    BY <1>2 DEF EnterCycle, Tokens
  <2>2. cycleActive' \in BOOLEAN
    BY <1>2 DEF EnterCycle
  <2>3. pc' \in [Tokens -> Labels]
    BY <1>2, GotoType DEF EnterCycle, Labels, Tokens
  <2> QED
    BY <1>2, <2>1, <2>2, <2>3 DEF EnterCycle, sessionVars, netVars, diskVars
<1>3. ASSUME NEW t \in Tokens, NEW h \in Handles, Begun(t, h) PROVE TypeOK'
  <2>1. socket' \in [Handles -> {"free", "up", "down", "disposed"}]
    BY <1>3 DEF Begun
  <2>2. /\ activePairing' \in Handles \cup {None}
        /\ handle' \in Handles \cup {None}
        /\ active' \in [Tokens -> Handles \cup {None}]
    BY <1>3 DEF Begun, Publish
  <2>3. state' \in States
    BY <1>3 DEF Begun, States
  <2>4. /\ pc' \in [Tokens -> Labels]
        /\ reached' \in BOOLEAN
    BY <1>3, EnterLinkType DEF Begun
  <2> QED
    BY <1>3, <2>1, <2>2, <2>3, <2>4 DEF Begun, gateVars, sessionVars, diskVars, callVars
<1>4. ASSUME NEW t \in Tokens, BeginFails(t) PROVE TypeOK'
  <2>1. cycleActive' \in BOOLEAN
    BY <1>4 DEF BeginFails
  <2>2. /\ pc' \in [Tokens -> Labels]
        /\ wake' \in Tokens \cup {None}
    BY <1>4, GotoType, SleepType DEF BeginFails, Sleeping, Labels
  <2>3. retry' \in [Tokens -> Retries]
    BY <1>4, RetryType DEF BeginFails, Retries
  <2> QED
    BY <1>4, <2>1, <2>2, <2>3 DEF BeginFails, sessionVars, netVars, diskVars, callVars, Retries
<1>5. ASSUME NEW t \in Tokens, NEW w \in Wallets, NEW named \in BOOLEAN, Link(t, w, named)
             PROVE TypeOK'
  <2>1. link' \in [Handles -> BOOLEAN]
    BY <1>5 DEF Link
  <2>2. /\ channel' \in Handles \cup {None}
        /\ sessionClient' \in Handles \cup {None}
    BY <1>5 DEF Link
  <2>3. peer' \in [Tokens -> [wallet : Wallets \cup {None}, named : BOOLEAN,
                               stored : Wallets \cup {None}]]
    BY <1>5 DEF Link
  <2>4. auth' \in [locked : BOOLEAN, granted : BOOLEAN, agent : Wallets \cup {None}]
    <3>1. auth' \in {Locked, NoAuth, Granted(identity)}
      BY <1>5, Zenon DEF Link, Linked
    <3>2. /\ Locked \in [locked : BOOLEAN, granted : BOOLEAN, agent : Wallets \cup {None}]
          /\ NoAuth \in [locked : BOOLEAN, granted : BOOLEAN, agent : Wallets \cup {None}]
      BY DEF Locked, NoAuth
    <3>3. Granted(identity) \in [locked : BOOLEAN, granted : BOOLEAN,
                                 agent : Wallets \cup {None}]
      BY DEF Granted
    <3> QED
      BY <3>1, <3>2, <3>3
  <2>5. /\ pc' \in [Tokens -> Labels]
        /\ reached' \in BOOLEAN
        /\ state' \in States
    <3>1. CASE Connected(t)
      BY <3>1, ConnectedType
    <3>2. CASE Goto(t, "migrate") /\ UNCHANGED <<state, reached>>
      BY <3>2, GotoType DEF Labels
    <3>3. CASE Goto(t, "bootstrap") /\ UNCHANGED <<state, reached>>
      BY <3>3, GotoType DEF Labels
    <3> QED
      BY <1>5, <3>1, <3>2, <3>3 DEF Link, Linked
  <2> QED
    BY <1>5, <2>1, <2>2, <2>3, <2>4, <2>5 DEF Link, gateVars, diskVars, callVars
<1>6. ASSUME NEW t \in Tokens, LinkFails(t) PROVE TypeOK'
  <2>1. AfterSession(t)
    BY <1>6 DEF LinkFails
  <2> QED
    BY <1>6, <2>1, AfterSessionType DEF LinkFails, gateVars, sessionVars, diskVars, callVars,
       Retries
<1>7. ASSUME NEW t \in Tokens, Migrate(t) PROVE TypeOK'
  <2>1. keys' \subseteq Wallets
    BY <1>7 DEF Migrate, SessionPeer
  <2>2. auth' \in [locked : BOOLEAN, granted : BOOLEAN, agent : Wallets \cup {None}]
    BY <1>7 DEF Migrate, Granting, SessionPeer
  <2>3. /\ pc' \in [Tokens -> Labels]
        /\ reached' \in BOOLEAN
        /\ state' \in States
    BY <1>7, ConnectedType DEF Migrate
  <2> QED
    BY <1>7, <2>1, <2>2, <2>3 DEF Migrate, gateVars, netVars, callVars
<1>8. ASSUME NEW t \in Tokens, KeystoreFails(t) PROVE TypeOK'
  <2>1. /\ channel' \in Handles \cup {None}
        /\ sessionClient' \in Handles \cup {None}
    BY <1>8 DEF KeystoreFails, Finally
  <2>2. auth' \in [locked : BOOLEAN, granted : BOOLEAN, agent : Wallets \cup {None}]
    BY <1>8 DEF KeystoreFails, Finally, NoAuth
  <2>3. link' \in [Handles -> BOOLEAN]
    BY <1>8, UnlinkType DEF KeystoreFails, Finally
  <2>4. pc' \in [Tokens -> Labels]
    BY <1>8, GotoType DEF KeystoreFails, Finally, Labels
  <2> QED
    BY <1>8, <2>1, <2>2, <2>3, <2>4 DEF KeystoreFails, gateVars, diskVars, callVars, Finally
<1>9. ASSUME NEW t \in Tokens, Approve(t) PROVE TypeOK'
  <2>1. pc' \in [Tokens -> Labels]
    BY <1>9, GotoType DEF Approve, Labels
  <2> QED
    BY <1>9, <2>1 DEF Approve, gateVars, sessionVars, netVars, diskVars, callVars
<1>10. ASSUME NEW t \in Tokens, BootstrapFails(t) PROVE TypeOK'
  <2>1. auth' \in [locked : BOOLEAN, granted : BOOLEAN, agent : Wallets \cup {None}]
    BY <1>10 DEF BootstrapFails
  <2>2. /\ pc' \in [Tokens -> Labels]
        /\ reached' \in BOOLEAN
        /\ state' \in States
    BY <1>10, ConnectedType DEF BootstrapFails
  <2> QED
    BY <1>10, <2>1, <2>2 DEF BootstrapFails, gateVars, netVars, diskVars, callVars
<1>11. ASSUME NEW t \in Tokens, StoreKey(t) PROVE TypeOK'
  <2>1. keys' \subseteq Wallets
    BY <1>11 DEF StoreKey, SessionPeer, InSession
  <2>2. pc' \in [Tokens -> Labels]
    BY <1>11, GotoType DEF StoreKey, Labels
  <2> QED
    BY <1>11, <2>1, <2>2 DEF StoreKey, gateVars, sessionVars, netVars, callVars
<1>12. ASSUME NEW t \in Tokens, PersistGrant(t) PROVE TypeOK'
  <2>1. identity' \in Wallets \cup {None}
    BY <1>12 DEF PersistGrant
  <2>2. legacy' \in BOOLEAN
    BY <1>12 DEF PersistGrant
  <2>3. auth' \in [locked : BOOLEAN, granted : BOOLEAN, agent : Wallets \cup {None}]
    BY <1>12 DEF PersistGrant, Granting
  <2>4. /\ pc' \in [Tokens -> Labels]
        /\ reached' \in BOOLEAN
        /\ state' \in States
    BY <1>12, ConnectedType DEF PersistGrant
  <2> QED
    BY <1>12, <2>1, <2>2, <2>3, <2>4 DEF PersistGrant, gateVars, netVars, callVars
<1>13. ASSUME NEW t \in Tokens, Drop(t) PROVE TypeOK'
  <2>1. /\ channel' \in Handles \cup {None}
        /\ sessionClient' \in Handles \cup {None}
    BY <1>13 DEF Drop, Finally
  <2>2. auth' \in [locked : BOOLEAN, granted : BOOLEAN, agent : Wallets \cup {None}]
    BY <1>13 DEF Drop, Finally, NoAuth
  <2>3. link' \in [Handles -> BOOLEAN]
    BY <1>13, UnlinkType DEF Drop, Finally
  <2>4. pc' \in [Tokens -> Labels]
    BY <1>13, GotoType DEF Drop, Finally, Labels
  <2> QED
    BY <1>13, <2>1, <2>2, <2>3, <2>4 DEF Drop, gateVars, diskVars, callVars, Finally
<1>14. ASSUME NEW t \in Tokens, SessionEnds(t) PROVE TypeOK'
  <2>1. AfterSession(t)
    BY <1>14 DEF SessionEnds
  <2> QED
    BY <1>14, <2>1, AfterSessionType DEF SessionEnds, gateVars, sessionVars, diskVars, callVars,
       Retries
<1>15. ASSUME NEW t \in Tokens, Disposed(t) PROVE TypeOK'
  <2>1. /\ pc' \in [Tokens -> Labels]
        /\ wake' \in Tokens \cup {None}
    BY <1>15, SleepType DEF Disposed, Sleeping
  <2> QED
    BY <1>15, <2>1 DEF Disposed, gateVars, sessionVars, netVars, diskVars, callVars
<1>16. ASSUME NEW t \in Tokens, TimerFires(t) PROVE TypeOK'
  <2>1. pc' \in [Tokens -> Labels]
    BY <1>16, GotoType DEF TimerFires, Awake, Labels
  <2>2. wake' \in Tokens \cup {None}
    BY <1>16 DEF TimerFires
  <2> QED
    BY <1>16, <2>1, <2>2 DEF TimerFires, gateVars, sessionVars, netVars, diskVars, callVars
<1>17. ASSUME NEW t \in Tokens, Resume(t) PROVE TypeOK'
  <2>1. retry' \in [Tokens -> Retries]
    BY <1>17, RetryType DEF Resume, Retries
  <2>2. pc' \in [Tokens -> Labels] /\ reached' \in BOOLEAN
    <3>1. CASE pc[t] = "rearmed"
      BY <1>17, <3>1, EnterLinkType DEF Resume
    <3>2. CASE pc[t] # "rearmed"
      BY <1>17, <3>2, GotoType DEF Resume, Onward, Labels
    <3> QED
      BY <3>1, <3>2
  <2> QED
    BY <1>17, <2>1, <2>2 DEF Resume, gateVars, sessionVars, netVars, diskVars, callVars, Retries
<1>18. ASSUME NEW x \in Teardowns, Teardown(x) PROVE TypeOK'
  <2>1. cycleToken' \in 0..MaxToken
    BY <1>18 DEF Teardown
  <2>2. stopped' \in BOOLEAN /\ cycleActive' \in BOOLEAN
    BY <1>18 DEF Teardown
  <2>3. activePairing' \in Handles \cup {None} /\ channel' \in Handles \cup {None}
    BY <1>18 DEF Teardown
  <2>4. auth' \in [locked : BOOLEAN, granted : BOOLEAN, agent : Wallets \cup {None}]
    BY <1>18 DEF Teardown, NoAuth
  <2>5. pc' \in [Tokens -> Labels] /\ wake' \in Tokens \cup {None}
    BY <1>18 DEF Teardown, CancelBackoff, Awake, Labels
  <2>6. /\ handle' \in Handles \cup {None}
        /\ tearing' \in [Teardowns -> {"no", "channel", "handle"}]
        /\ state' \in States
        /\ socket' \in [Handles -> {"free", "up", "down", "disposed"}]
        /\ link' \in [Handles -> BOOLEAN]
    <3>1. CASE channel = None
      BY <1>18, <3>1, TakeHandleType DEF Teardown
    <3>2. CASE channel # None
      BY <1>18, <3>2, UnlinkType DEF Teardown
    <3> QED
      BY <3>1, <3>2
  <2> QED
    BY <1>18, <2>1, <2>2, <2>3, <2>4, <2>5, <2>6 DEF Teardown, diskVars
<1>19. ASSUME NEW x \in Teardowns, ChannelClosed(x) PROVE TypeOK'
  <2>1. /\ handle' \in Handles \cup {None}
        /\ tearing' \in [Teardowns -> {"no", "channel", "handle"}]
        /\ state' \in States
        /\ socket' \in [Handles -> {"free", "up", "down", "disposed"}]
        /\ link' \in [Handles -> BOOLEAN]
    BY <1>19, TakeHandleType DEF ChannelClosed
  <2> QED
    BY <1>19, <2>1 DEF ChannelClosed, gateVars, sessionVars, loopVars, diskVars
<1>20. ASSUME NEW x \in Teardowns, HandleDisposed(x) PROVE TypeOK'
  <2>1. tearing' \in [Teardowns -> {"no", "channel", "handle"}]
    BY <1>20 DEF HandleDisposed
  <2>2. state' \in States
    BY <1>20 DEF HandleDisposed, States
  <2> QED
    BY <1>20, <2>1, <2>2 DEF HandleDisposed, gateVars, sessionVars, loopVars, netVars, diskVars
<1>21. ASSUME NEW h \in Handles, SignalingDown(h) PROVE TypeOK'
  <2>1. socket' \in [Handles -> {"free", "up", "down", "disposed"}]
    BY <1>21 DEF SignalingDown
  <2> QED
    BY <1>21, <2>1 DEF SignalingDown, gateVars, sessionVars, loopVars, diskVars, callVars
<1>22. ASSUME NEW h \in Handles, SignalingUp(h) PROVE TypeOK'
  <2>1. socket' \in [Handles -> {"free", "up", "down", "disposed"}]
    BY <1>22 DEF SignalingUp
  <2> QED
    BY <1>22, <2>1 DEF SignalingUp, gateVars, sessionVars, loopVars, diskVars, callVars
<1>23. ASSUME NEW h \in Handles, LinkDown(h) PROVE TypeOK'
  <2>1. link' \in [Handles -> BOOLEAN]
    BY <1>23, UnlinkType DEF LinkDown
  <2> QED
    BY <1>23, <2>1 DEF LinkDown, gateVars, sessionVars, loopVars, diskVars, callVars
<1>24. ASSUME ForgetAll PROVE TypeOK'
  <2>1. identity' \in Wallets \cup {None}
    BY <1>24 DEF ForgetAll
  <2>2. /\ legacy' \in BOOLEAN
        /\ forgetting' \in {"never", "clearing", "over"}
    BY <1>24 DEF ForgetAll
  <2> QED
    BY <1>24, <2>1, <2>2 DEF ForgetAll, gateVars, sessionVars, loopVars, netVars, callVars
<1>25. ASSUME ClearKeys PROVE TypeOK'
  <2>1. keys' \subseteq Wallets
    BY <1>25 DEF ClearKeys
  <2>2. forgetting' \in {"never", "clearing", "over"}
    BY <1>25 DEF ClearKeys
  <2> QED
    BY <1>25, <2>1, <2>2 DEF ClearKeys, gateVars, sessionVars, loopVars, netVars, callVars
<1>26. ASSUME Crash PROVE TypeOK'
  <2>1. /\ pc' \in [Tokens -> Labels]
        /\ active' \in [Tokens -> Handles \cup {None}]
        /\ peer' \in [Tokens -> [wallet : Wallets \cup {None}, named : BOOLEAN,
                                stored : Wallets \cup {None}]]
    BY <1>26 DEF Crash, Labels, NoPeer
  <2>2. retry' \in [Tokens -> Retries]
    BY <1>26, FreshRetryTiered DEF Crash
  <2>3. /\ socket' \in [Handles -> {"free", "up", "down", "disposed"}]
        /\ link' \in [Handles -> BOOLEAN]
        /\ tearing' \in [Teardowns -> {"no", "channel", "handle"}]
    BY <1>26 DEF Crash
  <2>4. auth' \in [locked : BOOLEAN, granted : BOOLEAN, agent : Wallets \cup {None}]
    BY <1>26 DEF Crash, NoAuth
  <2>5. state' \in States /\ cycleToken' \in 0..MaxToken /\ entering' \in 0..MaxEntering
    BY <1>26 DEF Crash, States
  <2>6. /\ cycleActive' \in BOOLEAN /\ stopped' \in BOOLEAN
        /\ reached' \in BOOLEAN /\ forgetting' \in {"never", "clearing", "over"}
    BY <1>26 DEF Crash, TypeOK
  <2> QED
    BY <1>26, <2>1, <2>2, <2>3, <2>4, <2>5, <2>6 DEF Crash, Retries
<1> HIDE DEF Inv, TypeOK
<1> QED
  BY <1>1, <1>2, <1>3, <1>4, <1>5, <1>6, <1>7, <1>8, <1>9, <1>10, <1>11, <1>12, <1>13,
     <1>14, <1>15, <1>16, <1>17, <1>18, <1>19, <1>20, <1>21, <1>22, <1>23, <1>24, <1>25, <1>26
  DEF Next, LoopStep

-----------------------------------------------------------------------------
(* Only a failure, a success or a sleep changes a loop's retry record. *)
LEMMA RetryStep ==
  ASSUME Inv, Next
  PROVE  \/ UNCHANGED retry
         \/ retry' = [t \in Tokens |-> FreshRetry]
         \/ \E t \in Tokens :
              \E r \in {FreshRetry, NoteFailure(retry[t]), Doubled(retry[t])} :
                retry' = [retry EXCEPT ![t] = r]
<1>1. ASSUME NEW t \in Tokens, BeginFails(t)
      PROVE  UNCHANGED retry \/ retry' = [retry EXCEPT ![t] = NoteFailure(retry[t])]
  BY <1>1 DEF BeginFails
<1>2. ASSUME NEW t \in Tokens, AfterSession(t)
      PROVE  \/ UNCHANGED retry
             \/ retry' = [retry EXCEPT ![t] = FreshRetry]
             \/ retry' = [retry EXCEPT ![t] = NoteFailure(retry[t])]
  BY <1>2 DEF AfterSession, NextRetry
<1>3. ASSUME NEW t \in Tokens, Resume(t)
      PROVE  retry' = [retry EXCEPT ![t] = Doubled(retry[t])]
  BY <1>3 DEF Resume
<1>4. ASSUME StartPairing \/ EnterCycle \/ ForgetAll \/ ClearKeys
      PROVE  UNCHANGED retry
  BY <1>4 DEF StartPairing, EnterCycle, ForgetAll, ClearKeys, loopVars
<1>5. ASSUME NEW t \in Tokens, NEW h \in Handles, Begun(t, h)
      PROVE  UNCHANGED retry
  BY <1>5 DEF Begun
<1>6. ASSUME NEW t \in Tokens,
             \/ Migrate(t) \/ KeystoreFails(t) \/ Approve(t) \/ BootstrapFails(t)
             \/ StoreKey(t) \/ PersistGrant(t) \/ Drop(t) \/ Disposed(t) \/ TimerFires(t)
      PROVE  UNCHANGED retry
  BY <1>6 DEF Migrate, KeystoreFails, Approve, BootstrapFails, StoreKey, PersistGrant,
              Drop, Disposed, TimerFires
<1>7. ASSUME NEW x \in Teardowns, Teardown(x) \/ ChannelClosed(x) \/ HandleDisposed(x)
      PROVE  UNCHANGED retry
  BY <1>7 DEF Teardown, ChannelClosed, HandleDisposed, loopVars
<1>8. ASSUME NEW h \in Handles, SignalingDown(h) \/ SignalingUp(h) \/ LinkDown(h)
      PROVE  UNCHANGED retry
  BY <1>8 DEF SignalingDown, SignalingUp, LinkDown, loopVars
<1>9. ASSUME Crash PROVE retry' = [t \in Tokens |-> FreshRetry]
  BY <1>9 DEF Crash
<1>10. ASSUME NEW t \in Tokens, NEW w \in Wallets, NEW named \in BOOLEAN, Link(t, w, named)
      PROVE  UNCHANGED retry
  BY <1>10 DEF Link
<1> QED
  BY <1>1, <1>2, <1>3, <1>4, <1>5, <1>6, <1>7, <1>8, <1>9, <1>10
  DEF Next, LoopStep, LinkFails, SessionEnds

LEMMA TierStep ==
  ASSUME Inv, Next
  PROVE  DelayMatchesTier'
<1> SUFFICES ASSUME NEW s \in Tokens PROVE Tiered(retry'[s])
  BY DEF DelayMatchesTier, Tiered
<1>1. retry \in [Tokens -> Retries] /\ Tiered(retry[s])
  BY DEF Inv, TypeOK, DelayMatchesTier, Retries, Tiered
<1>2. CASE UNCHANGED retry
  BY <1>1, <1>2
<1>3. CASE retry' = [t \in Tokens |-> FreshRetry]
  BY <1>3, FreshRetryTiered
<1>4. ASSUME NEW t \in Tokens,
             NEW r \in {FreshRetry, NoteFailure(retry[t]), Doubled(retry[t])},
             retry' = [retry EXCEPT ![t] = r]
      PROVE  Tiered(retry'[s])
  <2>1. Tiered(r)
    BY RetryType
  <2>2. retry'[s] = IF s = t THEN r ELSE retry[s]
    BY <1>1, <1>4
  <2> QED
    BY <1>1, <2>1, <2>2
<1> QED
  BY <1>2, <1>3, <1>4, RetryStep

-----------------------------------------------------------------------------
(* A session starts with a link; nothing else brings a loop into one. *)
Stays(t) ==
  /\ peer'[t] = peer[t]
  /\ InSession(t)' => InSession(t)
  /\ pc'[t] = "migrate" => pc[t] = "migrate"
  /\ pc'[t] = "stored" => pc[t] = "stored" \/ StoreKey(t)

LEMMA MovesOne ==
  ASSUME TypeOK, NEW s \in Tokens, NEW t \in Tokens, NEW l,
         peer' = peer, Goto(t, l),
         l \notin {"migrate", "bootstrap", "store", "stored", "serving"}
  PROVE  Stays(s)
  BY DEF TypeOK, Goto, Stays, InSession

LEMMA EnterLinkMoves ==
  ASSUME NEW t \in Tokens, EnterLink(t)
  PROVE  Goto(t, "link") \/ Goto(t, "done")
  BY DEF EnterLink

LEMMA CancelBackoffStays ==
  ASSUME TypeOK, NEW s \in Tokens, peer' = peer, CancelBackoff
  PROVE  Stays(s)
<1>1. CASE wake = None
  BY <1>1 DEF CancelBackoff, Stays, InSession
<1>2. CASE wake # None
  <2>1. pc'[s] = IF s = wake /\ pc[s] \in Sleeping THEN Awake(pc[s]) ELSE pc[s]
    BY <1>2 DEF CancelBackoff, TypeOK
  <2>2. Awake(pc[s]) \in {"slept", "rearmed"}
    BY DEF Awake
  <2> QED
    BY <2>1, <2>2 DEF Stays, InSession
<1> QED
  BY <1>1, <1>2

LEMMA AfterSessionStays ==
  ASSUME TypeOK, NEW s \in Tokens, NEW t \in Tokens, peer' = peer, AfterSession(t)
  PROVE  Stays(s)
<1>1. \/ Goto(t, "link") \/ Goto(t, "done") \/ Goto(t, "rearm") \/ Goto(t, "disposing")
  BY EnterLinkMoves DEF AfterSession, Sleep
<1> QED
  BY <1>1, MovesOne

LEMMA SessionStep ==
  ASSUME TypeOK, Next, NEW s \in Tokens
  PROVE  \/ Stays(s)
         \/ \E w \in Wallets, named \in BOOLEAN : Link(s, w, named)
         \/ Crash
<1>1. ASSUME UNCHANGED <<pc, peer>> PROVE Stays(s)
  BY <1>1 DEF Stays, InSession
<1>2. ASSUME StartPairing PROVE Stays(s)
  <2>1. peer' = peer /\ (UNCHANGED pc \/ CancelBackoff)
    BY <1>2 DEF StartPairing
  <2> QED
    BY <1>1, <2>1, CancelBackoffStays
<1>3. ASSUME EnterCycle PROVE Stays(s)
  <2>1. cycleToken + 1 \in Tokens
    BY <1>3, TokenAssumption DEF EnterCycle, TypeOK, Tokens
  <2> QED
    BY <1>3, <2>1, MovesOne DEF EnterCycle
<1>4. ASSUME NEW t \in Tokens, NEW h \in Handles, Begun(t, h) PROVE Stays(s)
  BY <1>4, MovesOne, EnterLinkMoves DEF Begun
<1>5. ASSUME NEW t \in Tokens, BeginFails(t) PROVE Stays(s)
  BY <1>5, MovesOne DEF BeginFails, Sleep
<1>6. ASSUME NEW t \in Tokens, NEW w \in Wallets, NEW named \in BOOLEAN,
             Link(t, w, named), t # s
      PROVE  Stays(s)
  <2>1. peer'[s] = peer[s]
    BY <1>6 DEF Link, TypeOK
  <2>2. \E l : pc' = [pc EXCEPT ![t] = l]
    BY <1>6 DEF Link, Linked, Connected, Goto
  <2> QED
    BY <1>6, <2>1, <2>2 DEF Stays, InSession, TypeOK
<1>7. ASSUME NEW t \in Tokens, LinkFails(t) \/ SessionEnds(t) PROVE Stays(s)
  BY <1>7, AfterSessionStays DEF LinkFails, SessionEnds
<1>8. ASSUME NEW t \in Tokens,
             Migrate(t) \/ BootstrapFails(t) \/ PersistGrant(t)
      PROVE  Stays(s)
  <2>1. peer' = peer /\ InSession(t) /\ Goto(t, "serving")
    BY <1>8 DEF Migrate, BootstrapFails, PersistGrant, Connected, InSession
  <2> QED
    BY <2>1 DEF Stays, InSession, Goto, TypeOK
<1>9. ASSUME NEW t \in Tokens, KeystoreFails(t) \/ Drop(t) PROVE Stays(s)
  BY <1>9, MovesOne DEF KeystoreFails, Drop, Finally
<1>10. ASSUME NEW t \in Tokens, Approve(t) PROVE Stays(s)
  BY <1>10 DEF Approve, Stays, InSession, Goto, TypeOK
<1>11. ASSUME NEW t \in Tokens, StoreKey(t) PROVE Stays(s)
  <2>1. peer' = peer /\ pc[t] = "store" /\ pc' = [pc EXCEPT ![t] = "stored"]
    BY <1>11 DEF StoreKey, Goto
  <2>2. CASE s = t
    BY <1>11, <2>1, <2>2 DEF Stays, InSession, TypeOK
  <2>3. CASE s # t
    BY <2>1, <2>3 DEF Stays, InSession, TypeOK
  <2> QED
    BY <2>2, <2>3
<1>12. ASSUME NEW t \in Tokens, Disposed(t) PROVE Stays(s)
  BY <1>12, MovesOne DEF Disposed, Sleep
<1>13. ASSUME NEW t \in Tokens, TimerFires(t) PROVE Stays(s)
  BY <1>13, MovesOne DEF TimerFires, Awake
<1>14. ASSUME NEW t \in Tokens, Resume(t) PROVE Stays(s)
  <2>1. peer' = peer /\ (Goto(t, "link") \/ Goto(t, "done") \/ Goto(t, "rebuild"))
    BY <1>14, EnterLinkMoves DEF Resume, Onward
  <2> QED
    BY <2>1, MovesOne
<1>15. ASSUME NEW x \in Teardowns, Teardown(x) PROVE Stays(s)
  BY <1>15, CancelBackoffStays DEF Teardown
<1>16. ASSUME NEW x \in Teardowns, ChannelClosed(x) \/ HandleDisposed(x) PROVE Stays(s)
  BY <1>1, <1>16 DEF ChannelClosed, HandleDisposed, loopVars
<1>17. ASSUME NEW h \in Handles, SignalingDown(h) \/ SignalingUp(h) \/ LinkDown(h)
       PROVE  Stays(s)
  BY <1>1, <1>17 DEF SignalingDown, SignalingUp, LinkDown, loopVars
<1>18. ASSUME ForgetAll \/ ClearKeys PROVE Stays(s)
  BY <1>1, <1>18 DEF ForgetAll, ClearKeys, loopVars
<1> QED
  BY <1>2, <1>3, <1>4, <1>5, <1>6, <1>7, <1>8, <1>9, <1>10, <1>11, <1>12, <1>13,
     <1>14, <1>15, <1>16, <1>17, <1>18
  DEF Next, LoopStep

LEMMA LinkPeer ==
  ASSUME TypeOK, NEW t \in Tokens, NEW w \in Wallets, NEW named \in BOOLEAN,
         Link(t, w, named)
  PROVE  /\ peer'[t].wallet \in Wallets
         /\ pc'[t] = "migrate" => peer'[t].stored \in Wallets
         /\ pc'[t] # "stored"
<1>1. peer'[t] = [wallet |-> w, named |-> named, stored |-> identity]
  BY DEF Link, TypeOK
<1>2. \/ pc'[t] \in {"serving", "bootstrap"}
      \/ pc'[t] = "migrate" /\ Decision(w, named) = "reuse"
  BY DEF Link, Linked, Connected, Goto, TypeOK
<1>3. Decision(w, named) = "reuse" => identity \in Wallets
  BY DEF Decision, TypeOK
<1> QED
  BY <1>1, <1>2, <1>3

LEMMA SessionPeerStep ==
  ASSUME Inv, Next
  PROVE  SessionPeer'
<1> SUFFICES ASSUME NEW s \in Tokens
             PROVE  /\ InSession(s)' => peer'[s].wallet \in Wallets
                    /\ pc'[s] = "migrate" => peer'[s].stored \in Wallets
  BY DEF SessionPeer
<1>1. CASE Stays(s)
  BY <1>1 DEF Inv, SessionPeer, Stays
<1>2. CASE \E w \in Wallets, named \in BOOLEAN : Link(s, w, named)
  BY <1>2, LinkPeer DEF Inv
<1>3. CASE Crash
  <2>1. pc'[s] = "none"
    BY <1>3 DEF Crash
  <2> QED
    BY <2>1 DEF InSession
<1> QED
  BY <1>1, <1>2, <1>3, SessionStep DEF Inv

-----------------------------------------------------------------------------
LEMMA Initially == Init => Inv
<1> SUFFICES ASSUME Init PROVE Inv
  OBVIOUS
<1>1. retry \in [Tokens -> Retries] /\ DelayMatchesTier
  BY FreshRetryTiered DEF Init, DelayMatchesTier, Tiered
<1>2. SessionPeer
  BY DEF Init, SessionPeer, InSession
<1>3. auth \in [locked : BOOLEAN, granted : BOOLEAN, agent : Wallets \cup {None}]
  BY DEF Init, NoAuth
<1>4. peer \in [Tokens -> [wallet : Wallets \cup {None}, named : BOOLEAN,
                           stored : Wallets \cup {None}]]
  BY DEF Init, NoPeer
<1>5. pc \in [Tokens -> Labels] /\ state \in States
  BY DEF Init, Labels, States
<1>6. /\ cycleActive \in BOOLEAN /\ stopped \in BOOLEAN /\ reached \in BOOLEAN
      /\ forgetting \in {"never", "clearing", "over"} /\ legacy \in BOOLEAN
  BY DEF Init
<1>7. cycleToken \in 0..MaxToken /\ entering \in 0..MaxEntering
  BY TokenAssumption, EnteringAssumption DEF Init
<1>8. identity \in Wallets \cup {None} /\ keys \subseteq Wallets
  BY DEF Init
<1>9. /\ socket \in [Handles -> {"free", "up", "down", "disposed"}]
      /\ link \in [Handles -> BOOLEAN]
      /\ tearing \in [Teardowns -> {"no", "channel", "handle"}]
      /\ active \in [Tokens -> Handles \cup {None}]
  BY DEF Init
<1>10. /\ activePairing \in Handles \cup {None} /\ handle \in Handles \cup {None}
       /\ channel \in Handles \cup {None} /\ sessionClient \in Handles \cup {None}
       /\ wake \in Tokens \cup {None}
  BY DEF Init
<1> QED
  BY <1>1, <1>2, <1>3, <1>4, <1>5, <1>6, <1>7, <1>8, <1>9, <1>10
  DEF Inv, TypeOK, Retries

LEMMA Inductive == Inv /\ [Next]_vars => Inv'
<1> SUFFICES ASSUME Inv, [Next]_vars PROVE Inv'
  OBVIOUS
<1>1. CASE Next
  BY <1>1, TypeStep, TierStep, SessionPeerStep DEF Inv
<1>2. CASE UNCHANGED vars
  <2>1. TypeOK'
    BY <1>2 DEF Inv, TypeOK, vars, gateVars, sessionVars, loopVars, netVars, callVars, diskVars
  <2>2. DelayMatchesTier'
    BY <1>2 DEF Inv, DelayMatchesTier, vars, loopVars
  <2>3. SessionPeer'
    BY <1>2 DEF Inv, SessionPeer, InSession, vars, loopVars
  <2> QED
    BY <2>1, <2>2, <2>3 DEF Inv
<1> QED
  BY <1>1, <1>2

\* The type invariant.
THEOREM TypeCorrect == Spec => []TypeOK
<1>1. Inv => TypeOK
  BY DEF Inv
<1> QED
  BY <1>1, Initially, Inductive, PTL DEF Spec

\* However many cycles run and overlap, a loop waits the delay of its tier: the
\* slow one exactly from FAILURES_BEFORE_COOLDOWN failures on (broker.ts 489-539).
THEOREM DelayIsOfItsTier == Spec => []DelayMatchesTier
<1>1. Inv => DelayMatchesTier
  BY DEF Inv
<1> QED
  BY <1>1, Initially, Inductive, PTL DEF Spec

-----------------------------------------------------------------------------
(***************************************************************************)
(* The order of recordIdentityKey and the metadata.  A session about to    *)
(* write its grant has its key in the keystore; keys are removed only by   *)
(* forgetting, so both hold until the operator asks for it.                *)
(***************************************************************************)
KeyInv ==
  /\ IdentityHasKey
  /\ forgetting = "never" =>
       \A t \in Tokens : pc[t] = "stored" => peer[t].wallet \in keys

LEMMA KeysStay ==
  ASSUME forgetting' = "never", Next
  PROVE  keys \subseteq keys' /\ forgetting = "never"
<1>1. ASSUME StartPairing \/ EnterCycle PROVE keys \subseteq keys' /\ forgetting = "never"
  BY <1>1 DEF StartPairing, EnterCycle, diskVars
<1>2. ASSUME NEW t \in Tokens, NEW h \in Handles, Begun(t, h)
      PROVE  keys \subseteq keys' /\ forgetting = "never"
  BY <1>2 DEF Begun, diskVars
<1>3. ASSUME NEW t \in Tokens,
             \/ BeginFails(t) \/ LinkFails(t) \/ KeystoreFails(t) \/ Approve(t)
             \/ BootstrapFails(t) \/ Drop(t) \/ SessionEnds(t) \/ Disposed(t)
             \/ TimerFires(t) \/ Resume(t)
      PROVE  keys \subseteq keys' /\ forgetting = "never"
  BY <1>3 DEF BeginFails, LinkFails, KeystoreFails, Approve, BootstrapFails, Drop,
              SessionEnds, Disposed, TimerFires, Resume, diskVars
<1>4. ASSUME NEW t \in Tokens, Migrate(t) \/ StoreKey(t) \/ PersistGrant(t)
      PROVE  keys \subseteq keys' /\ forgetting = "never"
  BY <1>4 DEF Migrate, StoreKey, PersistGrant
<1>5. ASSUME NEW x \in Teardowns, Teardown(x) \/ ChannelClosed(x) \/ HandleDisposed(x)
      PROVE  keys \subseteq keys' /\ forgetting = "never"
  BY <1>5 DEF Teardown, ChannelClosed, HandleDisposed, diskVars
<1>6. ASSUME NEW h \in Handles, SignalingDown(h) \/ SignalingUp(h) \/ LinkDown(h)
      PROVE  keys \subseteq keys' /\ forgetting = "never"
  BY <1>6 DEF SignalingDown, SignalingUp, LinkDown, diskVars
<1>7. ~ForgetAll /\ ~ClearKeys
  BY DEF ForgetAll, ClearKeys
<1>8. ASSUME Crash PROVE keys \subseteq keys' /\ forgetting = "never"
  BY <1>8 DEF Crash
<1>9. ASSUME NEW t \in Tokens, NEW w \in Wallets, NEW named \in BOOLEAN, Link(t, w, named)
      PROVE  keys \subseteq keys' /\ forgetting = "never"
  BY <1>9 DEF Link, diskVars
<1> QED
  BY <1>1, <1>2, <1>3, <1>4, <1>5, <1>6, <1>7, <1>8, <1>9 DEF Next, LoopStep

LEMMA GrantStep ==
  ASSUME forgetting' = "never", Next
  PROVE  \/ UNCHANGED <<identity, legacy>>
         \/ \E t \in Tokens : pc[t] = "stored" /\ identity' = peer[t].wallet
<1>1. ASSUME StartPairing \/ EnterCycle PROVE UNCHANGED <<identity, legacy>>
  BY <1>1 DEF StartPairing, EnterCycle, diskVars
<1>2. ASSUME NEW t \in Tokens, NEW h \in Handles, Begun(t, h)
      PROVE  UNCHANGED <<identity, legacy>>
  BY <1>2 DEF Begun, diskVars
<1>3. ASSUME NEW t \in Tokens,
             \/ BeginFails(t) \/ LinkFails(t) \/ KeystoreFails(t) \/ Approve(t)
             \/ BootstrapFails(t) \/ Drop(t) \/ SessionEnds(t) \/ Disposed(t)
             \/ TimerFires(t) \/ Resume(t) \/ Migrate(t) \/ StoreKey(t)
      PROVE  UNCHANGED <<identity, legacy>>
  BY <1>3 DEF BeginFails, LinkFails, KeystoreFails, Approve, BootstrapFails, Drop,
              SessionEnds, Disposed, TimerFires, Resume, Migrate, StoreKey, diskVars
<1>4. ASSUME NEW t \in Tokens, PersistGrant(t)
      PROVE  pc[t] = "stored" /\ identity' = peer[t].wallet
  BY <1>4 DEF PersistGrant
<1>5. ASSUME NEW x \in Teardowns, Teardown(x) \/ ChannelClosed(x) \/ HandleDisposed(x)
      PROVE  UNCHANGED <<identity, legacy>>
  BY <1>5 DEF Teardown, ChannelClosed, HandleDisposed, diskVars
<1>6. ASSUME NEW h \in Handles, SignalingDown(h) \/ SignalingUp(h) \/ LinkDown(h)
      PROVE  UNCHANGED <<identity, legacy>>
  BY <1>6 DEF SignalingDown, SignalingUp, LinkDown, diskVars
<1>7. ~ForgetAll /\ ~ClearKeys
  BY DEF ForgetAll, ClearKeys
<1>8. ASSUME Crash PROVE UNCHANGED <<identity, legacy>>
  BY <1>8 DEF Crash
<1>9. ASSUME NEW t \in Tokens, NEW w \in Wallets, NEW named \in BOOLEAN, Link(t, w, named)
      PROVE  UNCHANGED <<identity, legacy>>
  BY <1>9 DEF Link, diskVars
<1> QED
  BY <1>1, <1>2, <1>3, <1>4, <1>5, <1>6, <1>7, <1>8, <1>9 DEF Next, LoopStep

LEMMA KeyStep ==
  ASSUME Inv, KeyInv, Next, forgetting' = "never"
  PROVE  KeyInv'
<1>1. keys \subseteq keys' /\ forgetting = "never"
  BY KeysStay DEF KeyInv
<1>2. ASSUME NEW s \in Tokens, pc'[s] = "stored" PROVE peer'[s].wallet \in keys'
  <2>1. CASE Stays(s) /\ pc[s] = "stored"
    BY <1>1, <2>1 DEF Stays, KeyInv
  <2>2. CASE Stays(s) /\ StoreKey(s)
    BY <2>2 DEF Stays, StoreKey
  <2>3. ASSUME NEW w \in Wallets, NEW named \in BOOLEAN, Link(s, w, named) PROVE FALSE
    BY <1>2, <2>3, LinkPeer DEF Inv
  <2>4. ~Crash
    BY <1>2 DEF Crash
  <2> QED
    BY <1>2, <2>1, <2>2, <2>3, <2>4, SessionStep DEF Inv, Stays
<1>3. IdentityHasKey'
  BY <1>1, GrantStep DEF KeyInv, IdentityHasKey
<1> QED
  BY <1>1, <1>2, <1>3 DEF KeyInv

LEMMA KeyStart == Init => KeyInv
  BY DEF Init, KeyInv, IdentityHasKey

LEMMA KeyInductive == Inv /\ KeyInv /\ [Next]_vars => KeyInv'
<1> SUFFICES ASSUME Inv, KeyInv, [Next]_vars PROVE KeyInv'
  OBVIOUS
<1>1. CASE Next /\ forgetting' = "never"
  BY <1>1, KeyStep
<1>2. CASE forgetting' # "never"
  BY <1>2 DEF KeyInv, IdentityHasKey
<1>3. CASE UNCHANGED vars
  BY <1>3 DEF KeyInv, IdentityHasKey, vars, loopVars, diskVars
<1> QED
  BY <1>1, <1>2, <1>3

\* In every order of cycles, crashes and keychain failures, and until the operator
\* forgets, an identity on disk has its key in the keystore or still carries its
\* material (198-207, 351-370).
THEOREM KeyNeverLost == Spec => []IdentityHasKey
<1>1. KeyInv => IdentityHasKey
  BY DEF KeyInv
<1> QED
  BY <1>1, KeyStart, KeyInductive, Initially, Inductive, PTL DEF Spec

-----------------------------------------------------------------------------
(***************************************************************************)
(* One cycle at a time.  When callers wait for their answers and nothing   *)
(* is cancelled, the loop of the newest token is the only one: everything  *)
(* the broker publishes is that loop's.                                    *)
(***************************************************************************)
OneCycle == Serial /\ Teardowns = {}

Running(t) == pc[t] \notin {"none", "done", "begin"}
Foreign(t) == peer[t].named /\ peer[t].stored \notin {None, peer[t].wallet}

\* A loop that has not ended belongs to the newest token, and no call is on its
\* way to start another.
Alone ==
  /\ ~stopped
  /\ entering <= 1
  /\ \A t \in Tokens : pc[t] \notin {"none", "done"} => t = cycleToken /\ entering = 0

\* Until an invitation is out there is nothing to find.
Fresh ==
  (\A t \in Tokens : ~Running(t)) =>
    /\ activePairing = None /\ handle = None
    /\ channel = None /\ sessionClient = None /\ auth = NoAuth
    /\ \A h \in Handles : socket[h] \notin {"up", "down"}

\* A running loop's handle is the one published and the only one with a socket;
\* its channel is published while it is in a session.
Published(t) ==
  /\ cycleActive /\ active[t] \in Handles
  /\ activePairing = active[t] /\ handle = active[t]
  /\ \A h \in Handles : socket[h] \in {"up", "down"} => h = active[t]
  /\ pc[t] \in {"disposing", "backoff", "slept", "rebuild"} =>
       socket[active[t]] \notin {"up", "down"}
  /\ channel = (IF InSession(t) THEN active[t] ELSE None)
  /\ sessionClient = channel
  /\ pc[t] \in Sleeping => wake = t
  /\ pc[t] # "serving" => auth = NoAuth

\* A session that will bind its wallet found the agent unbound, and it still is;
\* one that migrates has the bound identity; a foreign one is locked out.
Entitled(t) ==
  /\ pc[t] \in {"bootstrap", "store", "stored"} => identity = None
  /\ pc[t] = "migrate" /\ forgetting = "never" => peer[t].stored = identity
  /\ InSession(t) /\ Foreign(t) => pc[t] = "serving" /\ auth = Locked

LoopInv(t) ==
  /\ pc[t] = "begin" => cycleActive
  /\ Running(t) => Published(t) /\ Entitled(t)

LoneInv == Alone /\ Fresh /\ (\A t \in Tokens : LoopInv(t)) /\ GrantedHasKey

LEMMA AuthFacts ==
  /\ NoAuth.granted = FALSE /\ Locked.granted = FALSE
  /\ \A w : Granted(w).agent = w
  BY DEF NoAuth, Locked, Granted

\* Whoever acts is the only loop there is.
LEMMA OnlyLoop ==
  ASSUME Inv, Alone, NEW t \in Tokens, pc[t] \notin {"none", "done"}
  PROVE  /\ t = cycleToken /\ entering = 0 /\ MayRun(t)
         /\ \A s \in Tokens : s # t => pc[s] \in {"none", "done"}
  BY DEF Inv, Alone, MayRun

\* The step of that loop keeps it the only one; what is left to show is about it.
LEMMA LoopMoves ==
  ASSUME Inv, LoneInv, NEW t \in Tokens, pc[t] \notin {"none", "done"}, NEW l, Goto(t, l),
         UNCHANGED <<cycleToken, stopped, entering>>,
         l \notin {"none", "done", "begin"},
         Published(t)', Entitled(t)', GrantedHasKey'
  PROVE  LoneInv'
<1>1. /\ t = cycleToken /\ entering = 0
      /\ \A s \in Tokens : s # t => pc[s] \in {"none", "done"}
  BY OnlyLoop DEF LoneInv
<1>2. pc'[t] = l /\ \A s \in Tokens : s # t => pc'[s] = pc[s]
  BY DEF Goto, Inv, TypeOK
<1>3. Alone'
  BY <1>1, <1>2 DEF LoneInv, Alone
<1>4. Fresh'
  BY <1>2 DEF Fresh, Running
<1>5. \A s \in Tokens : LoopInv(s)'
  BY <1>1, <1>2 DEF LoopInv, Running
<1> QED
  BY <1>3, <1>4, <1>5 DEF LoneInv

\* A step that grants nothing, or leaves the grant alone, keeps it rightful.
LEMMA GrantKept ==
  ASSUME GrantedHasKey, Next, auth' = auth \/ ~auth'.granted,
         forgetting' = "never" => identity' = identity
  PROVE  GrantedHasKey'
  BY KeysStay DEF GrantedHasKey

-----------------------------------------------------------------------------
(* The steps of a loop. *)
LEMMA BegunLone ==
  ASSUME Inv, LoneInv, Next, NEW t \in Tokens, NEW h \in Handles, Begun(t, h)
  PROVE  LoneInv'
<1>1. /\ pc[t] \in {"begin", "rebuild"}
      /\ UNCHANGED <<cycleToken, cycleActive, stopped, entering, channel, sessionClient,
                     auth, identity, forgetting, wake>>
  BY DEF Begun, gateVars, sessionVars, callVars, diskVars
<1>2. /\ t = cycleToken /\ entering = 0 /\ MayRun(t)
      /\ \A s \in Tokens : s # t => pc[s] \in {"none", "done"}
  BY <1>1, OnlyLoop DEF LoneInv
<1>3. Goto(t, "link") /\ pc'[t] = "link"
  BY <1>2 DEF Begun, EnterLink, Goto, Inv, TypeOK
<1>4. cycleActive /\ auth = NoAuth /\ channel = None /\ sessionClient = None
  <2>1. CASE pc[t] = "begin"
    BY <1>2, <2>1 DEF LoneInv, LoopInv, Fresh, Running
  <2>2. CASE pc[t] = "rebuild"
    BY <2>2 DEF LoneInv, LoopInv, Running, Published, InSession
  <2> QED
    BY <1>1, <2>1, <2>2
<1>5. \A g \in Handles : socket[g] \notin {"up", "down"}
  <2>1. CASE pc[t] = "begin"
    BY <1>2, <2>1 DEF LoneInv, Fresh, Running
  <2>2. CASE pc[t] = "rebuild"
    BY <2>2 DEF LoneInv, LoopInv, Running, Published
  <2> QED
    BY <1>1, <2>1, <2>2
<1>6. /\ active'[t] = h /\ handle' = h /\ activePairing' = h
      /\ \A g \in Handles : g # h => socket'[g] = socket[g]
  BY DEF Begun, Publish, Inv, TypeOK
<1>7. Published(t)'
  BY <1>1, <1>3, <1>4, <1>5, <1>6 DEF Published, InSession, Sleeping
<1>8. Entitled(t)'
  BY <1>3 DEF Entitled, InSession
<1>9. GrantedHasKey'
  BY <1>1, GrantKept DEF LoneInv
<1> QED
  BY <1>1, <1>3, <1>7, <1>8, <1>9, LoopMoves

LEMMA BeginFailsLone ==
  ASSUME Inv, LoneInv, Next, NEW t \in Tokens, BeginFails(t)
  PROVE  LoneInv'
<1>1. UNCHANGED <<cycleToken, stopped, entering, activePairing, handle, channel,
                  sessionClient, auth, active, peer, socket, identity, forgetting>>
  BY DEF BeginFails, sessionVars, netVars, callVars, diskVars
<1>2. pc[t] \notin {"none", "done"}
  BY DEF BeginFails
<1>3. /\ t = cycleToken /\ entering = 0
      /\ \A s \in Tokens : s # t => pc[s] \in {"none", "done"}
  BY <1>2, OnlyLoop DEF LoneInv
<1>4. GrantedHasKey'
  BY <1>1, GrantKept DEF LoneInv
<1>5. CASE pc[t] = "begin"
  <2>1. pc' = [pc EXCEPT ![t] = "done"]
    BY <1>5 DEF BeginFails, Goto
  <2>2. \A s \in Tokens : pc'[s] \in {"none", "done"}
    BY <1>3, <2>1 DEF Inv, TypeOK
  <2>3. \A s \in Tokens : ~Running(s)
    BY <1>3, <1>5 DEF Running
  <2>4. Fresh'
    BY <1>1, <2>3 DEF LoneInv, Fresh
  <2> QED
    BY <1>1, <1>4, <2>2, <2>4 DEF LoneInv, Alone, LoopInv, Running
<1>6. CASE pc[t] = "rebuild"
  <2>1. Goto(t, "backoff") /\ wake' = t /\ cycleActive' = cycleActive
    BY <1>6 DEF BeginFails, Sleep
  <2>2. pc'[t] = "backoff"
    BY <2>1 DEF Goto, Inv, TypeOK
  <2>3. Published(t)' /\ Entitled(t)'
    BY <1>1, <1>6, <2>1, <2>2
    DEF LoneInv, LoopInv, Running, Published, Entitled, InSession, Sleeping
  <2> QED
    BY <1>1, <1>2, <1>4, <2>1, <2>3, LoopMoves
<1> QED
  BY <1>5, <1>6 DEF BeginFails

LEMMA AfterSessionLone ==
  ASSUME Inv, LoneInv, Next, NEW t \in Tokens, LinkFails(t) \/ SessionEnds(t)
  PROVE  LoneInv'
<1>1. /\ pc[t] \in {"link", "closing"} /\ AfterSession(t)
      /\ UNCHANGED <<cycleToken, cycleActive, stopped, entering, activePairing, handle,
                     channel, sessionClient, auth, active, peer, identity, forgetting>>
  BY DEF LinkFails, SessionEnds, gateVars, sessionVars, callVars, diskVars
<1>2. MayRun(t) /\ Published(t)
  BY <1>1, OnlyLoop DEF LoneInv, LoopInv, Running
<1>3. GrantedHasKey'
  BY <1>1, GrantKept DEF LoneInv
<1>4. ASSUME NEW l \in {"link", "rearm", "disposing"}, Goto(t, l),
             \A h \in Handles : socket'[h] \in {"up", "down"} => socket[h] \in {"up", "down"},
             l = "disposing" => socket'[active[t]] = "disposed",
             l = "rearm" => wake' = t
      PROVE  LoneInv'
  <2>1. pc'[t] = l
    BY <1>4 DEF Goto, Inv, TypeOK
  <2>2. Published(t)'
    BY <1>1, <1>2, <1>4, <2>1 DEF Published, InSession, Sleeping
  <2>3. Entitled(t)'
    BY <2>1 DEF Entitled, InSession
  <2> QED
    BY <1>1, <1>3, <1>4, <2>2, <2>3, LoopMoves
<1>5. CASE EnterLink(t) /\ UNCHANGED <<wake, netVars>>
  BY <1>2, <1>4, <1>5 DEF EnterLink, netVars
<1>6. CASE Sleep(t, "rearm") /\ UNCHANGED <<reached, netVars>>
  BY <1>4, <1>6 DEF Sleep, netVars
<1>7. CASE Dispose(active[t]) /\ Goto(t, "disposing")
  <2>1. socket' = [socket EXCEPT ![active[t]] = "disposed"]
    BY <1>7 DEF Dispose
  <2>2. active[t] \in Handles
    BY <1>2 DEF Published
  <2> QED
    BY <1>4, <1>7, <2>1, <2>2 DEF Inv, TypeOK
<1> QED
  BY <1>1, <1>2, <1>5, <1>6, <1>7 DEF AfterSession

LEMMA SleepLone ==
  ASSUME Inv, LoneInv, Next, NEW t \in Tokens, Disposed(t) \/ TimerFires(t) \/ Resume(t)
  PROVE  LoneInv'
<1>1. /\ UNCHANGED <<cycleToken, cycleActive, stopped, entering, activePairing, handle,
                     channel, sessionClient, auth, active, peer, socket, identity,
                     forgetting>>
      /\ pc[t] \in {"disposing", "backoff", "slept", "rearm", "rearmed"}
  BY DEF Disposed, TimerFires, Resume, gateVars, sessionVars, netVars, callVars, diskVars,
         Sleeping
<1>2. MayRun(t) /\ Published(t)
  BY <1>1, OnlyLoop DEF LoneInv, LoopInv, Running
<1>3. GrantedHasKey'
  BY <1>1, GrantKept DEF LoneInv
<1>4. \E l \in {"backoff", "slept", "rearmed", "rebuild", "link"} :
        /\ Goto(t, l)
        /\ l = "backoff" => wake' = t
        /\ l \in {"backoff", "slept", "rebuild"} => pc[t] \in {"disposing", "backoff", "slept"}
  <2>1. CASE Disposed(t)
    BY <2>1 DEF Disposed, Sleep
  <2>2. CASE TimerFires(t)
    BY <2>2 DEF TimerFires, Awake, Sleeping
  <2>3. CASE Resume(t)
    BY <1>2, <2>3 DEF Resume, EnterLink, Onward
  <2> QED
    BY <2>1, <2>2, <2>3
<1>5. PICK l \in {"backoff", "slept", "rearmed", "rebuild", "link"} :
        /\ Goto(t, l)
        /\ l = "backoff" => wake' = t
        /\ l \in {"backoff", "slept", "rebuild"} => pc[t] \in {"disposing", "backoff", "slept"}
  BY <1>4
<1>6. pc'[t] = l
  BY <1>5 DEF Goto, Inv, TypeOK
<1>7. Published(t)'
  BY <1>1, <1>2, <1>5, <1>6 DEF Published, InSession, Sleeping
<1>8. Entitled(t)'
  BY <1>6 DEF Entitled, InSession
<1> QED
  BY <1>1, <1>3, <1>5, <1>7, <1>8, LoopMoves

-----------------------------------------------------------------------------
(* The steps of a session. *)

\* A session that goes on keeps what it published.
LEMMA SessionGoesOn ==
  ASSUME Inv, LoneInv, NEW t \in Tokens, InSession(t),
         NEW l \in {"store", "stored", "serving"}, Goto(t, l),
         UNCHANGED <<cycleToken, cycleActive, stopped, entering, activePairing, handle,
                     channel, sessionClient, active, peer, socket>>,
         l # "serving" => auth' = auth /\ pc[t] # "serving" /\ identity' = None,
         l = "serving" => ~Foreign(t), GrantedHasKey'
  PROVE  LoneInv'
<1>1. pc'[t] = l
  BY DEF Goto, Inv, TypeOK
<1>2. Published(t) /\ Entitled(t)
  BY DEF LoneInv, LoopInv, Running, InSession
<1>3. Published(t)'
  BY <1>1, <1>2 DEF Published, InSession, Sleeping
<1>4. ~Foreign(t)'
  BY <1>2 DEF Entitled, Foreign
<1>5. Entitled(t)'
  BY <1>1, <1>4 DEF Entitled
<1>6. pc[t] \notin {"none", "done"}
  BY DEF InSession
<1> QED
  BY <1>3, <1>5, <1>6, LoopMoves

LEMMA LinkLone ==
  ASSUME Inv, LoneInv, KeyInv, Next, NEW t \in Tokens, NEW w \in Wallets,
         NEW named \in BOOLEAN, Link(t, w, named)
  PROVE  LoneInv'
<1>1. /\ pc[t] = "link" /\ Linked(t, w, named)
      /\ UNCHANGED <<cycleToken, cycleActive, stopped, entering, activePairing, handle,
                     active, socket, identity, legacy, keys, forgetting>>
      /\ channel' = active[t] /\ sessionClient' = active[t]
  BY DEF Link, gateVars, callVars, diskVars
<1>2. Published(t)
  BY <1>1 DEF LoneInv, LoopInv, Running
<1>3. peer'[t] = [wallet |-> w, named |-> named, stored |-> identity]
  BY DEF Link, Inv, TypeOK
<1>4. Foreign(t)' <=> Decision(w, named) = "locked"
  BY <1>3, NoneAssumption DEF Foreign, Decision, Inv, TypeOK
<1>5. Decision(w, named) = "reuse" => identity # None
  BY DEF Decision
<1>6. Decision(w, named) = "register" => identity = None
  BY DEF Decision
<1>7. \/ Goto(t, "serving") /\ Decision(w, named) = "locked" /\ auth' = Locked
      \/ /\ Goto(t, "serving") /\ Decision(w, named) = "reuse"
         /\ auth' = Granted(identity) /\ ~(legacy /\ identity \notin keys)
      \/ Goto(t, "migrate") /\ Decision(w, named) = "reuse" /\ auth' = NoAuth
      \/ Goto(t, "bootstrap") /\ Decision(w, named) = "register" /\ auth' = NoAuth
  BY <1>1 DEF Linked, Connected
<1>8. PICK l \in {"serving", "migrate", "bootstrap"} :
        /\ Goto(t, l)
        /\ l # "serving" => auth' = NoAuth
        /\ Decision(w, named) = "locked" => l = "serving" /\ auth' = Locked
        /\ l = "bootstrap" => identity = None
  BY <1>6, <1>7
<1>9. pc'[t] = l
  BY <1>8 DEF Goto, Inv, TypeOK
<1>10. Published(t)'
  BY <1>1, <1>2, <1>8, <1>9 DEF Published, InSession, Sleeping
<1>11. Entitled(t)'
  BY <1>1, <1>3, <1>4, <1>8, <1>9 DEF Entitled
<1>12. GrantedHasKey'
  <2>1. CASE auth' = Granted(identity) /\ ~(legacy /\ identity \notin keys) /\ identity # None
    BY <1>1, <2>1, AuthFacts DEF GrantedHasKey, KeyInv, IdentityHasKey
  <2>2. CASE auth' = NoAuth \/ auth' = Locked
    BY <2>2, AuthFacts DEF GrantedHasKey
  <2> QED
    BY <1>5, <1>7, <2>1, <2>2
<1> QED
  BY <1>1, <1>8, <1>10, <1>11, <1>12, LoopMoves

LEMMA MigrateLone ==
  ASSUME Inv, LoneInv, Next, NEW t \in Tokens, Migrate(t)
  PROVE  LoneInv'
<1>1. /\ pc[t] = "migrate" /\ Goto(t, "serving")
      /\ UNCHANGED <<cycleToken, cycleActive, stopped, entering, activePairing, handle,
                     channel, sessionClient, active, peer, socket, identity, forgetting>>
      /\ keys' = keys \cup {peer[t].stored} /\ auth' = Granting(peer[t].stored)
  BY DEF Migrate, Connected, gateVars, netVars, callVars
<1>2. Entitled(t) /\ InSession(t)
  BY <1>1 DEF LoneInv, LoopInv, Running, InSession
<1>3. ~Foreign(t)
  BY <1>1, <1>2 DEF Entitled
<1>4. auth'.agent = peer[t].stored
  BY <1>1 DEF Granting, Inv, TypeOK
<1>5. GrantedHasKey'
  BY <1>1, <1>2, <1>4 DEF GrantedHasKey, Entitled
<1> QED
  BY <1>1, <1>2, <1>3, <1>5, SessionGoesOn

LEMMA BootstrapLone ==
  ASSUME Inv, LoneInv, Next, NEW t \in Tokens,
         Approve(t) \/ BootstrapFails(t) \/ StoreKey(t)
  PROVE  LoneInv'
<1>1. /\ pc[t] \in {"bootstrap", "store"}
      /\ UNCHANGED <<cycleToken, cycleActive, stopped, entering, activePairing, handle,
                     channel, sessionClient, active, peer, socket, identity, forgetting>>
  BY DEF Approve, BootstrapFails, StoreKey, gateVars, sessionVars, netVars, callVars, diskVars
<1>2. Entitled(t) /\ InSession(t)
  BY <1>1 DEF LoneInv, LoopInv, Running, InSession
<1>3. ~Foreign(t) /\ identity = None
  BY <1>1, <1>2 DEF Entitled
<1>4. CASE Approve(t) \/ StoreKey(t)
  <2>1. auth' = auth /\ (Goto(t, "store") \/ Goto(t, "stored"))
    BY <1>4 DEF Approve, StoreKey, sessionVars
  <2>2. GrantedHasKey'
    BY <1>1, <2>1, GrantKept DEF LoneInv
  <2> QED
    BY <1>1, <1>2, <1>3, <2>1, <2>2, SessionGoesOn
<1>5. CASE BootstrapFails(t)
  <2>1. Goto(t, "serving") /\ ~auth'.granted
    BY <1>5 DEF BootstrapFails, Connected, Inv, TypeOK
  <2>2. GrantedHasKey'
    BY <2>1 DEF GrantedHasKey
  <2> QED
    BY <1>1, <1>2, <1>3, <2>1, <2>2, SessionGoesOn
<1> QED
  BY <1>4, <1>5

LEMMA PersistGrantLone ==
  ASSUME Inv, LoneInv, KeyInv, Next, NEW t \in Tokens, PersistGrant(t)
  PROVE  LoneInv'
<1>1. /\ pc[t] = "stored" /\ Goto(t, "serving")
      /\ UNCHANGED <<cycleToken, cycleActive, stopped, entering, activePairing, handle,
                     channel, sessionClient, active, peer, socket, keys, forgetting>>
      /\ identity' = peer[t].wallet /\ auth' = Granting(peer[t].wallet)
  BY DEF PersistGrant, Connected, gateVars, netVars, callVars
<1>2. Entitled(t) /\ InSession(t)
  BY <1>1 DEF LoneInv, LoopInv, Running, InSession
<1>3. ~Foreign(t)
  BY <1>1, <1>2 DEF Entitled
<1>4. auth'.agent = peer[t].wallet
  BY <1>1 DEF Granting, Inv, TypeOK
<1>5. GrantedHasKey'
  BY <1>1, <1>4 DEF GrantedHasKey, KeyInv
<1> QED
  BY <1>1, <1>2, <1>3, <1>5, SessionGoesOn

LEMMA FinallyLone ==
  ASSUME Inv, LoneInv, Next, NEW t \in Tokens, KeystoreFails(t) \/ Drop(t)
  PROVE  LoneInv'
<1>1. /\ InSession(t) /\ Goto(t, "closing")
      /\ UNCHANGED <<cycleToken, cycleActive, stopped, entering, activePairing, handle,
                     active, socket>>
      /\ channel' = None /\ sessionClient' = None /\ auth' = NoAuth
  BY DEF KeystoreFails, Drop, Finally, InSession, gateVars, callVars
<1>2. Published(t) /\ pc[t] \notin {"none", "done"}
  BY <1>1 DEF LoneInv, LoopInv, Running, InSession
<1>3. pc'[t] = "closing"
  BY <1>1 DEF Goto, Inv, TypeOK
<1>4. Published(t)'
  BY <1>1, <1>2, <1>3 DEF Published, InSession, Sleeping
<1>5. Entitled(t)'
  BY <1>3 DEF Entitled, InSession
<1>6. GrantedHasKey'
  BY <1>1, AuthFacts DEF GrantedHasKey
<1> QED
  BY <1>1, <1>2, <1>4, <1>5, <1>6, LoopMoves

-----------------------------------------------------------------------------
(* The callers, the network, the operator and the machine. *)
LEMMA StartPairingLone ==
  ASSUME Inv, LoneInv, Next, Serial, StartPairing
  PROVE  LoneInv'
<1>1. /\ UNCHANGED <<cycleToken, cycleActive, stopped, activePairing, handle, channel,
                     sessionClient, auth, active, peer, socket, identity, forgetting>>
      /\ entering = 0 /\ \A t \in Tokens : pc[t] # "begin"
  BY DEF StartPairing, Admitted, gateVars, sessionVars, netVars, diskVars
<1>2. GrantedHasKey'
  BY <1>1, GrantKept DEF LoneInv
<1>3. CASE cycleActive /\ activePairing # None
  <2>1. CancelBackoff /\ entering' = entering
    BY <1>3 DEF StartPairing
  <2>2. \A s \in Tokens : \/ pc'[s] = pc[s]
                          \/ pc[s] = "backoff" /\ pc'[s] = "slept"
                          \/ pc[s] = "rearm" /\ pc'[s] = "rearmed"
    BY <2>1 DEF CancelBackoff, Awake, Sleeping, Inv, TypeOK
  <2>3. \A s \in Tokens : pc'[s] \in Sleeping => wake' = wake
    BY <2>1, NoneAssumption, TokenAssumption
    DEF CancelBackoff, Awake, Sleeping, Inv, TypeOK, LoneInv, LoopInv, Running, Published
  <2>4. Alone'
    BY <1>1, <2>1, <2>2 DEF LoneInv, Alone
  <2>5. Fresh'
    BY <1>1, <2>2 DEF LoneInv, Fresh, Running
  <2>6. ASSUME NEW s \in Tokens PROVE LoopInv(s)'
    <3>1. pc'[s] = "begin" => cycleActive'
      BY <1>1, <2>2 DEF LoneInv, LoopInv
    <3>2. CASE Running(s)'
      <4>1. Published(s) /\ Entitled(s)
        BY <2>2, <3>2 DEF LoneInv, LoopInv, Running
      <4>2. Published(s)'
        BY <1>1, <2>2, <2>3, <4>1 DEF Published, InSession, Sleeping
      <4>3. Entitled(s)'
        BY <1>1, <2>2, <4>1 DEF Entitled, InSession, Foreign
      <4> QED
        BY <3>1, <4>2, <4>3 DEF LoopInv
    <3> QED
      BY <3>1, <3>2 DEF LoopInv
  <2> QED
    BY <1>2, <2>4, <2>5, <2>6 DEF LoneInv
<1>4. CASE ~(cycleActive /\ activePairing # None)
  <2>1. pc' = pc /\ entering' = 1
    BY <1>1, <1>4 DEF StartPairing
  <2>2. \A t \in Tokens : pc[t] \in {"none", "done"}
    BY <1>1, <1>4, NoneAssumption DEF LoneInv, LoopInv, Running, Published
  <2>3. Alone'
    BY <1>1, <2>1, <2>2 DEF LoneInv, Alone
  <2>4. Fresh'
    BY <1>1, <2>1 DEF LoneInv, Fresh, Running
  <2>5. \A t \in Tokens : LoopInv(t)'
    BY <2>1, <2>2 DEF LoopInv, Running
  <2> QED
    BY <1>2, <2>3, <2>4, <2>5 DEF LoneInv
<1> QED
  BY <1>3, <1>4

LEMMA EnterCycleLone ==
  ASSUME Inv, LoneInv, Next, EnterCycle
  PROVE  LoneInv'
<1>1. /\ UNCHANGED <<stopped, activePairing, handle, channel, sessionClient, auth, active,
                     peer, socket, identity, forgetting>>
      /\ cycleActive' = TRUE /\ cycleToken' = cycleToken + 1
      /\ entering > 0 /\ entering' = entering - 1
      /\ pc' = [pc EXCEPT ![cycleToken + 1] = "begin"]
  BY DEF EnterCycle, Goto, sessionVars, netVars, diskVars
<1>2. entering' = 0 /\ \A t \in Tokens : pc[t] \in {"none", "done"}
  BY <1>1, EnteringAssumption DEF LoneInv, Alone, Inv, TypeOK
<1>3. \A t \in Tokens : pc'[t] \in {"none", "done"} \/ (t = cycleToken' /\ pc'[t] = "begin")
  <2> SUFFICES ASSUME NEW t \in Tokens
               PROVE  pc'[t] \in {"none", "done"} \/ (t = cycleToken' /\ pc'[t] = "begin")
    OBVIOUS
  <2>1. CASE t = cycleToken + 1
    BY <1>1, <2>1 DEF Inv, TypeOK
  <2>2. CASE t # cycleToken + 1
    <3>1. pc'[t] = pc[t]
      BY <1>1, <2>2 DEF Inv, TypeOK
    <3> QED
      BY <1>2, <3>1
  <2> QED
    BY <2>1, <2>2
<1>4. Alone'
  <2>1. ~stopped' /\ entering' <= 1
    BY <1>1, <1>2 DEF LoneInv, Alone
  <2> QED
    BY <1>2, <1>3, <2>1 DEF Alone
<1>5. Fresh'
  BY <1>1, <1>2, <1>3 DEF LoneInv, Fresh, Running
<1>6. \A t \in Tokens : LoopInv(t)'
  BY <1>1, <1>3 DEF LoopInv, Running
<1>7. GrantedHasKey'
  BY <1>1, GrantKept DEF LoneInv
<1> QED
  BY <1>4, <1>5, <1>6, <1>7 DEF LoneInv

\* What no step of the broker itself does disturbs nothing it publishes.
LEMMA AroundLone ==
  ASSUME Inv, LoneInv, Next,
         UNCHANGED <<cycleToken, cycleActive, stopped, entering, activePairing, handle,
                     channel, sessionClient, auth, wake, pc, active, peer>>,
         \A h \in Handles : socket'[h] \in {"up", "down"} => socket[h] \in {"up", "down"},
         identity' \in {identity, None},
         forgetting' = "never" => identity' = identity /\ forgetting = "never"
  PROVE  LoneInv'
<1>1. Alone'
  BY DEF LoneInv, Alone
<1>2. Fresh'
  BY DEF LoneInv, Fresh, Running
<1>3. ASSUME NEW t \in Tokens PROVE LoopInv(t)'
  <2>1. Published(t) => Published(t)'
    BY DEF Published, InSession
  <2>2. Entitled(t) => Entitled(t)'
    BY DEF Entitled, InSession, Foreign
  <2> QED
    BY <2>1, <2>2 DEF LoneInv, LoopInv, Running
<1>4. GrantedHasKey'
  BY GrantKept DEF LoneInv
<1> QED
  BY <1>1, <1>2, <1>3, <1>4 DEF LoneInv

LEMMA OutsideLone ==
  ASSUME Inv, LoneInv, Next,
         \/ \E h \in Handles : SignalingDown(h) \/ SignalingUp(h) \/ LinkDown(h)
         \/ ForgetAll \/ ClearKeys
  PROVE  LoneInv'
<1>1. ASSUME NEW h \in Handles, SignalingDown(h) \/ SignalingUp(h) PROVE LoneInv'
  <2>1. \A g \in Handles : socket'[g] \in {"up", "down"} => socket[g] \in {"up", "down"}
    BY <1>1 DEF SignalingDown, SignalingUp, Inv, TypeOK
  <2> QED
    BY <1>1, <2>1, AroundLone
    DEF SignalingDown, SignalingUp, gateVars, sessionVars, loopVars, callVars, diskVars
<1>2. ASSUME NEW h \in Handles, LinkDown(h) PROVE LoneInv'
  BY <1>2, AroundLone DEF LinkDown, gateVars, sessionVars, loopVars, callVars, diskVars
<1>3. CASE ForgetAll \/ ClearKeys
  BY <1>3, AroundLone
  DEF ForgetAll, ClearKeys, gateVars, sessionVars, loopVars, netVars, callVars
<1> QED
  BY <1>1, <1>2, <1>3

LEMMA StartLone ==
  ASSUME Init
  PROVE  LoneInv
<1>1. Alone
  BY DEF Init, Alone
<1>2. Fresh
  BY DEF Init, Fresh
<1>3. \A t \in Tokens : LoopInv(t)
  BY DEF Init, LoopInv, Running
<1>4. GrantedHasKey
  BY AuthFacts DEF Init, GrantedHasKey
<1> QED
  BY <1>1, <1>2, <1>3, <1>4 DEF LoneInv

LEMMA CrashLone ==
  ASSUME Crash
  PROVE  LoneInv'
<1>1. Alone'
  BY DEF Crash, Alone
<1>2. Fresh'
  BY DEF Crash, Fresh
<1>3. \A t \in Tokens : LoopInv(t)'
  BY DEF Crash, LoopInv, Running
<1>4. GrantedHasKey'
  BY AuthFacts DEF Crash, GrantedHasKey
<1> QED
  BY <1>1, <1>2, <1>3, <1>4 DEF LoneInv

LEMMA LoneStep ==
  ASSUME OneCycle, Inv, KeyInv, LoneInv, [Next]_vars
  PROVE  LoneInv'
<1>1. CASE Next
  <2>1. ASSUME NEW t \in Tokens, LoopStep(t) PROVE LoneInv'
    BY <1>1, <2>1, BegunLone, BeginFailsLone, AfterSessionLone, SleepLone, LinkLone,
       MigrateLone, BootstrapLone, PersistGrantLone, FinallyLone
    DEF LoopStep
  <2> QED
    BY <1>1, <2>1, StartPairingLone, EnterCycleLone, OutsideLone, CrashLone
    DEF Next, OneCycle
<1>2. CASE UNCHANGED vars
  <2>1. UNCHANGED <<cycleToken, cycleActive, stopped, entering, activePairing, handle,
                    channel, sessionClient, auth, wake, pc, active, peer, socket, identity,
                    keys, forgetting>>
    BY <1>2 DEF vars, gateVars, sessionVars, loopVars, netVars, callVars, diskVars
  <2>2. Alone' /\ Fresh' /\ GrantedHasKey'
    BY <2>1 DEF LoneInv, Alone, Fresh, GrantedHasKey, Running
  <2>3. ASSUME NEW t \in Tokens PROVE LoopInv(t)'
    BY <2>1 DEF LoneInv, LoopInv, Running, Published, Entitled, InSession, Foreign
  <2> QED
    BY <2>2, <2>3 DEF LoneInv
<1> QED
  BY <1>1, <1>2

-----------------------------------------------------------------------------
LEMMA LoneImplies ==
  ASSUME Inv, LoneInv
  PROVE  SocketOwned /\ CallersSeeTruth /\ GrantIsRightful
<1>1. SocketOwned
  <2>1. CASE \E t \in Tokens : Running(t)
    BY <2>1 DEF SocketOwned, LoneInv, LoopInv, Published
  <2>2. CASE \A t \in Tokens : ~Running(t)
    BY <2>2 DEF SocketOwned, LoneInv, Fresh
  <2> QED
    BY <2>1, <2>2
<1>2. AdvertisedIsServed
  BY DEF AdvertisedIsServed, LoneInv, LoopInv, Published, Running
<1>3. TryNow
  BY DEF TryNow, LoneInv, LoopInv, Published, Running, Sleeping
<1>4. SessionPublished
  <2>1. \A t \in Tokens : InSession(t) => channel = active[t] /\ sessionClient = active[t]
    BY DEF InSession, LoneInv, LoopInv, Published, Running
  <2>2. ASSUME sessionClient # None PROVE \E t \in Tokens : InSession(t)
    BY <2>2 DEF LoneInv, LoopInv, Published, Running, Fresh
  <2> QED
    BY <2>1, <2>2 DEF SessionPublished
<1>5. ForeignIsLocked
  BY DEF ForeignIsLocked, LoneInv, LoopInv, Entitled, Foreign, InSession, Running
<1> QED
  BY <1>1, <1>2, <1>3, <1>4, <1>5 DEF LoneInv, CallersSeeTruth, GrantIsRightful

\* What a step does to the stored controller.
LEMMA IdentityStep ==
  ASSUME Next
  PROVE  \/ identity' \in {identity, None}
         \/ \E t \in Tokens : PersistGrant(t)
<1>1. ASSUME NEW t \in Tokens, LoopStep(t), ~PersistGrant(t) PROVE identity' = identity
  BY <1>1
  DEF LoopStep, BeginFails, Begun, Link, LinkFails, Migrate, KeystoreFails, Approve,
      BootstrapFails, StoreKey, Drop, SessionEnds, Disposed, TimerFires, Resume, diskVars
<1>2. ASSUME ~\E t \in Tokens : LoopStep(t) PROVE identity' \in {identity, None}
  BY <1>2
  DEF Next, StartPairing, EnterCycle, Teardown, ChannelClosed, HandleDisposed,
      SignalingDown, SignalingUp, LinkDown, ForgetAll, ClearKeys, Crash, diskVars
<1> QED
  BY <1>1, <1>2

LEMMA BoundStep ==
  ASSUME LoneInv, [Next]_vars, identity # None
  PROVE  identity' \in {identity, None}
<1>1. CASE UNCHANGED vars
  BY <1>1 DEF vars, diskVars
<1>2. CASE Next
  <2>1. ASSUME NEW t \in Tokens PROVE ~PersistGrant(t)
    BY DEF PersistGrant, LoneInv, LoopInv, Entitled, Running
  <2> QED
    BY <1>2, <2>1, IdentityStep
<1> QED
  BY <1>1, <1>2

LEMMA LoneHolds == OneCycle => (Spec => []Inv /\ []LoneInv)
<1> SUFFICES ASSUME OneCycle PROVE Spec => []Inv /\ []LoneInv
  OBVIOUS
<1>1. Init => Inv /\ KeyInv /\ LoneInv
  BY Initially, KeyStart, StartLone
<1>2. Inv /\ KeyInv /\ LoneInv /\ [Next]_vars => (Inv /\ KeyInv /\ LoneInv)'
  BY Inductive, KeyInductive, LoneStep
<1> QED
  BY <1>1, <1>2, PTL DEF Spec

\* One cycle at a time, the broker drops no signaling socket, however often links
\* fail, sockets die, rebuilds fail and the process is killed: the one that is up is
\* the one a teardown or a rebuild will dispose of (broker.ts 578-584, 609, 631-638).
THEOREM SocketAlwaysOwned == OneCycle => (Spec => []SocketOwned)
<1>1. Inv /\ LoneInv => SocketOwned
  BY LoneImplies
<1> QED
  BY <1>1, LoneHolds, PTL

\* ... what callers find is the truth: the invitation is the one the loop listens on,
\* the channel and the client are the running session's and there are none without
\* one, and pair.start can cut any delay short (159-172, 235-252, 269, 464-472, 652-660).
THEOREM CallersAreToldTheTruth == OneCycle => (Spec => []CallersSeeTruth)
<1>1. Inv /\ LoneInv => CallersSeeTruth
  BY LoneImplies
<1> QED
  BY <1>1, LoneHolds, PTL

\* ... a grant is for the bound controller with its key in the keystore, and a
\* foreign wallet's session is locked and grants nothing (315-325, 351-370, 434, 447).
THEOREM GrantAlwaysRightful == OneCycle => (Spec => []GrantIsRightful)
<1>1. Inv /\ LoneInv => GrantIsRightful
  BY LoneImplies
<1> QED
  BY <1>1, LoneHolds, PTL

\* ... and a bound agent is never bound to another wallet: the session that writes
\* its controller found none, and none was written since (identity/binding.ts 4-13).
THEOREM BindingIsForLife == OneCycle => (Spec => BoundStaysBound)
<1>1. LoneInv /\ [Next]_vars => [identity # None => identity' \in {identity, None}]_vars
  BY BoundStep
<1> QED
  BY <1>1, LoneHolds, PTL DEF Spec, BoundStaysBound

\* A loop that waits for its link has served nobody since it called connect().
Unserved == \A t \in Tokens : pc[t] = "link" => ~reached

LEMMA UnservedStep ==
  ASSUME Inv, LoneInv, Unserved, [Next]_vars
  PROVE  Unserved'
<1>p. pc \in [Tokens -> Labels]
  BY DEF Inv, TypeOK
<1>1. ASSUME reached' = FALSE PROVE Unserved'
  BY <1>1 DEF Unserved
<1>2. ASSUME reached' = reached, \A s \in Tokens : pc'[s] = "link" => pc[s] = "link"
      PROVE  Unserved'
  BY <1>2 DEF Unserved
<1>3. ASSUME NEW t \in Tokens, NEW l, l # "link", Goto(t, l), reached' = reached PROVE Unserved'
  BY <1>2, <1>3, <1>p DEF Goto
<1>4. ASSUME NEW t \in Tokens, EnterLink(t) PROVE Unserved'
  BY <1>1, <1>3, <1>4 DEF EnterLink
<1>5. ASSUME NEW t \in Tokens, Connected(t), pc[t] \notin {"none", "done"} PROVE Unserved'
  <2>1. \A s \in Tokens : pc[s] \notin {"none", "done"} => s = t
    BY <1>5 DEF LoneInv, Alone
  <2>2. \A s \in Tokens : pc'[s] # "link"
    BY <1>5, <1>p, <2>1 DEF Connected, Goto
  <2> QED BY <2>2 DEF Unserved
<1>6. ASSUME NEW t \in Tokens, LoopStep(t) PROVE Unserved'
  <2>1. CASE BeginFails(t) \/ Disposed(t)
    BY <1>3, <2>1 DEF BeginFails, Disposed, Sleep
  <2>2. ASSUME NEW h \in Handles, Begun(t, h) PROVE Unserved'
    BY <1>4, <2>2 DEF Begun
  <2>3. ASSUME NEW w \in Wallets, NEW named \in BOOLEAN, Link(t, w, named) PROVE Unserved'
    BY <1>3, <1>5, <2>3 DEF Link, Linked
  <2>4. CASE AfterSession(t)
    BY <1>3, <1>4, <2>4 DEF AfterSession, Sleep
  <2>5. CASE Migrate(t) \/ StoreKey(t) \/ PersistGrant(t) \/ BootstrapFails(t)
    <3>1. pc[t] \notin {"none", "done"}
      BY <2>5 DEF Migrate, StoreKey, PersistGrant, BootstrapFails
    <3>2. Connected(t) \/ \E l : l # "link" /\ Goto(t, l) /\ reached' = reached
      BY <2>5 DEF Migrate, StoreKey, PersistGrant, BootstrapFails
    <3> QED BY <1>3, <1>5, <3>1, <3>2
  <2>6. CASE KeystoreFails(t) \/ Approve(t) \/ Drop(t)
    <3>1. \E l : l # "link" /\ Goto(t, l) /\ reached' = reached
      <4>1. CASE KeystoreFails(t) \/ Drop(t)
        <5>1. Goto(t, "closing") /\ reached' = reached
          BY <4>1 DEF KeystoreFails, Drop, Finally
        <5> QED BY <5>1
      <4>2. CASE Approve(t)
        <5>1. Goto(t, "store") /\ reached' = reached
          BY <4>2 DEF Approve
        <5> QED BY <5>1
      <4> QED BY <2>6, <4>1, <4>2
    <3> QED BY <1>3, <3>1
  <2>7. CASE TimerFires(t)
    BY <1>3, <2>7 DEF TimerFires, Awake
  <2>8. CASE Resume(t)
    BY <1>3, <1>4, <2>8 DEF Resume, Onward
  <2> QED
    BY <1>6, <2>1, <2>2, <2>3, <2>4, <2>5, <2>6, <2>7, <2>8 DEF LoopStep, LinkFails, SessionEnds
<1>7. ASSUME reached' = reached, CancelBackoff \/ pc' = pc PROVE Unserved'
  <2>1. \A s \in Tokens : pc'[s] = "link" => pc[s] = "link"
    BY <1>7, <1>p DEF CancelBackoff, Awake
  <2> QED BY <1>2, <1>7, <2>1
<1>8. CASE StartPairing
  BY <1>7, <1>8 DEF StartPairing
<1>9. CASE EnterCycle
  <2>1. \A s \in Tokens : pc'[s] = "link" => pc[s] = "link"
    BY <1>9, <1>p DEF EnterCycle, Goto
  <2> QED BY <1>2, <1>9, <2>1 DEF EnterCycle
<1>10. ASSUME NEW x \in Teardowns, Teardown(x) \/ ChannelClosed(x) \/ HandleDisposed(x)
       PROVE  Unserved'
  BY <1>7, <1>10 DEF Teardown, ChannelClosed, HandleDisposed, loopVars
<1>11. ASSUME NEW h \in Handles, SignalingDown(h) \/ SignalingUp(h) \/ LinkDown(h)
       PROVE  Unserved'
  BY <1>7, <1>11 DEF SignalingDown, SignalingUp, LinkDown, loopVars
<1>12. CASE ForgetAll \/ ClearKeys \/ UNCHANGED vars
  BY <1>7, <1>12 DEF ForgetAll, ClearKeys, loopVars, vars
<1>13. CASE Crash
  BY <1>1, <1>13 DEF Crash
<1> QED BY <1>6, <1>8, <1>9, <1>10, <1>11, <1>12, <1>13 DEF Next

\* Another failure never shortens the delay, nor does doubling it.
LEMMA DelayGrows ==
  ASSUME NEW r \in Retries, Tiered(r)
  PROVE  NoteFailure(r).delay >= r.delay /\ Doubled(r).delay >= r.delay
  BY CooldownAssumption
  DEF Retries, Tiered, NoteFailure, Doubled, Least, BackoffMax, CooldownDelay

LEMMA RampStep ==
  ASSUME Inv, Unserved, Next, NEW t \in Tokens, retry'[t].delay < retry[t].delay
  PROVE  pc[t] = "closing" \/ pc'[t] = "none"
<1>1. retry \in [Tokens -> Retries] /\ \A s \in Tokens : Tiered(retry[s])
  BY DEF Inv, TypeOK, DelayMatchesTier, Retries, Tiered
<1>2. retry[t].delay \in Nat
  BY <1>1 DEF Retries
<1>3. ~(retry[t].delay < retry[t].delay)
  BY <1>2
<1>4. ASSUME NEW s \in Tokens, NEW r \in {NoteFailure(retry[s]), Doubled(retry[s])},
             retry' = [retry EXCEPT ![s] = r]
      PROVE  FALSE
  <2>1. r.delay >= retry[s].delay
    BY <1>1, DelayGrows
  <2>2. s = t
    BY <1>1, <1>3, <1>4
  <2>3. retry'[t] = r
    BY <1>1, <1>4, <2>2
  <2>4. r.delay < retry[t].delay /\ r.delay >= retry[t].delay
    BY <2>1, <2>2, <2>3
  <2>5. r \in Retries
    BY <1>1, RetryType
  <2> QED BY <1>2, <2>4, <2>5 DEF Retries
<1>5. retry' # retry
  BY <1>3
<1>6. ASSUME NEW s \in Tokens, AfterSession(s), pc[s] = "link" \/ pc[s] = "closing"
      PROVE  pc[t] = "closing"
  <2>1. \/ retry' = [retry EXCEPT ![s] = FreshRetry]
        \/ retry' = [retry EXCEPT ![s] = NoteFailure(retry[s])]
    BY <1>5, <1>6 DEF AfterSession, NextRetry
  <2>2. pc[s] = "link" => retry' = [retry EXCEPT ![s] = NoteFailure(retry[s])]
    BY <1>5, <1>6 DEF AfterSession, NextRetry, Unserved
  <2>3. pc[s] = "closing" /\ retry' = [retry EXCEPT ![s] = FreshRetry]
    BY <1>4, <1>6, <2>1, <2>2
  <2> QED BY <1>1, <1>3, <2>3
<1>7. ASSUME NEW s \in Tokens, LoopStep(s) PROVE pc[t] = "closing"
  <2>1. CASE BeginFails(s)
    BY <1>4, <1>5, <2>1 DEF BeginFails
  <2>2. CASE Resume(s)
    BY <1>4, <2>2 DEF Resume
  <2>3. CASE LinkFails(s) \/ SessionEnds(s)
    BY <1>6, <2>3 DEF LinkFails, SessionEnds
  <2> QED
    BY <1>5, <1>7, <2>1, <2>2, <2>3
    DEF LoopStep, Begun, Link, Migrate, KeystoreFails, Approve, BootstrapFails, StoreKey,
        PersistGrant, Drop, Disposed, TimerFires
<1>8. CASE Crash
  BY <1>8 DEF Crash
<1> QED
  BY <1>5, <1>7, <1>8
  DEF Next, StartPairing, EnterCycle, Teardown, ChannelClosed, HandleDisposed,
      SignalingDown, SignalingUp, LinkDown, ForgetAll, ClearKeys, loopVars

\* ... and the ramp falls only when a session that was served ends: no sequence of
\* failed links, dead sockets or failed rebuilds starts it over (498-501, 534-539, 560).
THEOREM RampNeverRestarts == OneCycle => (Spec => RampFallsOnlyAfterService)
<1>1. Init => Unserved
  BY DEF Init, Unserved
<1>2. Inv /\ LoneInv /\ Unserved /\ [Next]_vars => Unserved'
  BY UnservedStep
<1>3. Inv /\ Unserved /\ [Next]_vars
        => [\A t \in Tokens :
              retry'[t].delay < retry[t].delay => pc[t] = "closing" \/ pc'[t] = "none"]_vars
  BY RampStep
<1> QED
  BY <1>1, <1>2, <1>3, LoneHolds, PTL DEF Spec, RampFallsOnlyAfterService

-----------------------------------------------------------------------------
(***************************************************************************)
(* Cancelling.  Cycles follow one another, each may be torn down at any    *)
(* await of its loop, and the loops of the old ones are still on their way *)
(* out.  A cancelled loop cannot be answered any more: the one handle the  *)
(* broker keeps is the newest cycle's, never a cancelled one's.            *)
(***************************************************************************)

\* No cycle starts while a cancelled one's rebuild is still with the provider: the
\* late handle would replace the new cycle's (broker.ts 598-611, 631-636).
NotOvertaken ==
  \A s, t \in Tokens :
    pc[t] = "rebuild" /\ Stale(t) => Stale(s) \/ pc[s] \in {"none", "done"}

SessionLabels == {"migrate", "bootstrap", "store", "stored", "serving"}

\* Calls are answered one by one; a cycle starts with the newest token.
Calls ==
  /\ entering <= 1
  /\ entering > 0 => ~stopped /\ \A x \in Teardowns : tearing[x] = "no"
  /\ \A t \in Tokens :
       /\ pc[t] \notin {"none", "done"} => t <= cycleToken
       /\ pc[t] = "begin" => ~Stale(t)
       /\ ~Stale(t) /\ pc[t] \notin {"none", "done"} =>
            /\ cycleActive /\ entering = 0
            /\ \A x \in Teardowns : tearing[x] = "no"

\* The handle to dispose of is the current loop's; a published channel is that of
\* its session.
Current ==
  /\ \A t \in Tokens :
       ~Stale(t) /\ Running(t) =>
         active[t] \in Handles /\ handle = active[t] /\ activePairing # None
  /\ channel # None =>
       \E t \in Tokens : ~Stale(t) /\ InSession(t) /\ channel = active[t]

\* A stale loop has a disposed socket while it waits for a wallet and a closed
\* channel while it is in a session, and is not about to get them back.
Severed(t) ==
  Stale(t) =>
    /\ pc[t] = "link" => socket[active[t]] = "disposed"
    /\ InSession(t) => ~link[active[t]]
    /\ pc[t] = "link" \/ InSession(t) =>
         /\ active[t] \in Handles
         /\ (\A x \in Teardowns : tearing[x] # "channel") => active[t] # handle

CutInv == Calls /\ Current /\ \A t \in Tokens : Severed(t)

-----------------------------------------------------------------------------
(* A step of a running loop that neither links nor takes a handle. *)
LEMMA CutLoop ==
  ASSUME Inv, CutInv, NEW t \in Tokens, Running(t), NEW l, Goto(t, l), l # "begin",
         UNCHANGED <<cycleToken, cycleActive, stopped, entering, tearing, activePairing,
                     handle, active>>,
         channel' = None \/ (channel' = channel /\ (InSession(t) => l \in SessionLabels)),
         Stale(t) => l # "link",
         l \in SessionLabels => InSession(t),
         \A h \in Handles : socket[h] = "disposed" => socket'[h] = "disposed",
         \A h \in Handles : link'[h] => link[h]
  PROVE  CutInv'
<1>1. pc'[t] = l /\ \A s \in Tokens : s # t => pc'[s] = pc[s]
  BY DEF Goto, Inv, TypeOK
<1>2. \A s \in Tokens : Stale(s)' = Stale(s)
  BY DEF Stale
<1>3. Calls'
  BY <1>1, <1>2 DEF CutInv, Calls, Running
<1>4. \A s \in Tokens : Running(s)' => Running(s)
  BY <1>1 DEF Running
<1>5. ASSUME channel' # None
      PROVE  \E s \in Tokens : ~Stale(s)' /\ InSession(s)' /\ channel' = active'[s]
  <2>1. PICK s \in Tokens : ~Stale(s) /\ InSession(s) /\ channel = active[s]
    BY <1>5 DEF CutInv, Current
  <2>2. InSession(s)'
    BY <1>1, <1>5, <2>1 DEF InSession, SessionLabels
  <2> QED
    BY <1>2, <1>5, <2>1, <2>2
<1>6. Current'
  BY <1>2, <1>4, <1>5 DEF CutInv, Current
<1>7. ASSUME NEW s \in Tokens PROVE Severed(s)'
  <2>1. Stale(s) /\ pc'[s] = "link" => pc[s] = "link"
    BY <1>1
  <2>2. InSession(s)' => InSession(s)
    BY <1>1 DEF InSession, SessionLabels
  <2>3. Severed(s)
    BY DEF CutInv
  <2> QED
    BY <1>2, <2>1, <2>2, <2>3 DEF Severed
<1> QED
  BY <1>3, <1>6, <1>7 DEF CutInv

LEMMA LoopEffects ==
  ASSUME Inv, NEW t \in Tokens,
         \/ Migrate(t) \/ Approve(t) \/ BootstrapFails(t) \/ StoreKey(t) \/ PersistGrant(t)
         \/ KeystoreFails(t) \/ Drop(t) \/ LinkFails(t) \/ SessionEnds(t)
         \/ Disposed(t) \/ TimerFires(t) \/ Resume(t)
  PROVE  /\ UNCHANGED <<cycleToken, cycleActive, stopped, entering, tearing, activePairing,
                        handle, active>>
         /\ Running(t)
<1>1. UNCHANGED <<cycleToken, cycleActive, stopped, entering, tearing, activePairing,
                  handle, active>>
  BY DEF Migrate, Approve, BootstrapFails, StoreKey, PersistGrant, KeystoreFails, Drop,
         LinkFails, SessionEnds, Disposed, TimerFires, Resume, gateVars, callVars
<1>2. Running(t)
  BY DEF Running, Migrate, Approve, BootstrapFails, StoreKey, PersistGrant, KeystoreFails,
         Drop, LinkFails, SessionEnds, Disposed, TimerFires, Resume, Sleeping
<1> QED
  BY <1>1, <1>2

LEMMA CutSession ==
  ASSUME Inv, CutInv, NEW t \in Tokens,
         \/ Migrate(t) \/ Approve(t) \/ BootstrapFails(t) \/ StoreKey(t) \/ PersistGrant(t)
  PROVE  CutInv'
<1>1. InSession(t) /\ UNCHANGED <<channel, socket, link>>
  BY DEF Migrate, Approve, BootstrapFails, StoreKey, PersistGrant, InSession, sessionVars,
         netVars
<1>2. PICK l \in {"store", "stored", "serving"} : Goto(t, l)
  BY DEF Migrate, Approve, BootstrapFails, StoreKey, PersistGrant, Connected
<1>3. l \in SessionLabels /\ l # "link" /\ l # "begin"
  BY <1>2 DEF SessionLabels
<1> QED
  BY <1>1, <1>2, <1>3, LoopEffects, CutLoop

LEMMA CutFinally ==
  ASSUME Inv, CutInv, NEW t \in Tokens, KeystoreFails(t) \/ Drop(t)
  PROVE  CutInv'
<1>1. Finally(t) /\ UNCHANGED socket
  BY DEF KeystoreFails, Drop
<1>2. \A h \in Handles : link'[h] => link[h]
  BY <1>1 DEF Finally, Unlink, Inv, TypeOK
<1> QED
  BY <1>1, <1>2, LoopEffects, CutLoop DEF Finally, SessionLabels

LEMMA DisposeEffects ==
  ASSUME Inv, NEW h \in Handles, Dispose(h)
  PROVE  /\ \A g \in Handles : socket'[g] = IF g = h THEN "disposed" ELSE socket[g]
         /\ \A g \in Handles : link'[g] => link[g] /\ g # h
  BY DEF Dispose, Unlink, Inv, TypeOK

LEMMA CutAfterSession ==
  ASSUME Inv, CutInv, NEW t \in Tokens, LinkFails(t) \/ SessionEnds(t)
  PROVE  CutInv'
<1>1. /\ AfterSession(t) /\ UNCHANGED channel /\ ~InSession(t)
      /\ UNCHANGED <<cycleToken, stopped>>
  BY DEF LinkFails, SessionEnds, InSession, sessionVars, gateVars
<1>2. MayRun(t) <=> ~Stale(t)
  BY DEF MayRun, Stale
<1>3. ASSUME NEW l \in {"done", "link", "rearm", "disposing"}, Goto(t, l),
             Stale(t) => l # "link",
             \A h \in Handles : socket[h] = "disposed" => socket'[h] = "disposed",
             \A h \in Handles : link'[h] => link[h]
      PROVE  CutInv'
  BY <1>1, <1>3, LoopEffects, CutLoop DEF SessionLabels
<1>4. CASE ~MayRun(t)
  BY <1>1, <1>3, <1>4 DEF AfterSession, netVars
<1>5. CASE MayRun(t)
  <2>1. CASE EnterLink(t) /\ UNCHANGED <<wake, netVars>>
    BY <1>2, <1>3, <1>5, <2>1 DEF EnterLink, netVars
  <2>2. CASE Sleep(t, "rearm") /\ UNCHANGED <<reached, netVars>>
    BY <1>3, <2>2 DEF Sleep, netVars
  <2>3. CASE Dispose(active[t]) /\ Goto(t, "disposing")
    <3>1. active[t] \in Handles
      BY <1>2, <1>5, LoopEffects DEF CutInv, Current
    <3> QED
      BY <1>3, <2>3, <3>1, DisposeEffects
  <2> QED
    BY <1>1, <1>5, <2>1, <2>2, <2>3 DEF AfterSession
<1> QED
  BY <1>4, <1>5

LEMMA CutSleep ==
  ASSUME Inv, CutInv, NEW t \in Tokens, Disposed(t) \/ TimerFires(t) \/ Resume(t)
  PROVE  CutInv'
<1>1. UNCHANGED <<channel, socket, link>> /\ ~InSession(t)
  BY DEF Disposed, TimerFires, Resume, InSession, Sleeping, sessionVars, netVars
<1>2. MayRun(t) <=> ~Stale(t)
  BY DEF MayRun, Stale
<1>3. PICK l \in {"done", "backoff", "slept", "rearmed", "rebuild", "link"} :
        Goto(t, l) /\ (Stale(t) => l # "link")
  BY <1>2 DEF Disposed, Sleep, TimerFires, Awake, Resume, EnterLink, Onward
<1>4. l \notin SessionLabels /\ l # "begin"
  BY <1>3 DEF SessionLabels
<1> QED
  BY <1>1, <1>3, <1>4, LoopEffects, CutLoop

LEMMA CutBeginFails ==
  ASSUME Inv, CutInv, NEW t \in Tokens, BeginFails(t)
  PROVE  CutInv'
<1>1. UNCHANGED <<cycleToken, stopped, entering, tearing, activePairing, handle, active,
                  channel, socket, link>>
  BY DEF BeginFails, sessionVars, netVars, callVars
<1>2. CASE pc[t] = "rebuild"
  <2>1. Goto(t, "backoff") /\ cycleActive' = cycleActive
    BY <1>2 DEF BeginFails, Sleep
  <2> QED
    BY <1>1, <1>2, <2>1, CutLoop DEF Running, InSession, SessionLabels
<1>3. CASE pc[t] = "begin"
  <2>1. pc' = [pc EXCEPT ![t] = "done"]
    BY <1>3 DEF BeginFails, Goto
  <2>2. pc'[t] = "done" /\ \A s \in Tokens : s # t => pc'[s] = pc[s]
    BY <2>1 DEF Inv, TypeOK
  <2>3. \A s \in Tokens : Stale(s)' = Stale(s)
    BY <1>1 DEF Stale
  <2>4. ~Stale(t) /\ \A s \in Tokens : s # t => Stale(s)
    BY <1>3 DEF CutInv, Calls, Stale
  <2>5. Calls'
    BY <1>1, <2>2, <2>3, <2>4 DEF CutInv, Calls
  <2>6. Current'
    BY <1>1, <1>3, <2>2, <2>3 DEF CutInv, Current, Running, InSession
  <2>7. \A s \in Tokens : Severed(s)'
    BY <1>1, <2>2, <2>3 DEF CutInv, Severed, InSession
  <2> QED
    BY <2>5, <2>6, <2>7 DEF CutInv
<1> QED
  BY <1>2, <1>3 DEF BeginFails

\* Only the current loop takes a handle that stays; a late rebuild takes one when
\* no cycle has followed.
LEMMA CutBegun ==
  ASSUME Inv, CutInv, NotOvertaken, NEW t \in Tokens, NEW h \in Handles, Begun(t, h)
  PROVE  CutInv'
<1>1. /\ pc[t] \in {"begin", "rebuild"} /\ Unused(h)
      /\ UNCHANGED <<cycleToken, cycleActive, stopped, entering, tearing, channel, link>>
      /\ handle' = h /\ activePairing' = h
      /\ active' = [active EXCEPT ![t] = h]
      /\ socket' = [socket EXCEPT ![h] = "up"]
  BY DEF Begun, Publish, gateVars, sessionVars, callVars
<1>2. active'[t] = h /\ \A s \in Tokens : s # t => active'[s] = active[s]
  BY <1>1 DEF Inv, TypeOK
<1>3. \A s \in Tokens : Stale(s)' = Stale(s)
  BY <1>1 DEF Stale
<1>4. /\ pc'[t] = IF Stale(t) THEN "done" ELSE "link"
      /\ \A s \in Tokens : s # t => pc'[s] = pc[s]
  <2>1. Goto(t, IF Stale(t) THEN "done" ELSE "link")
    BY DEF Begun, EnterLink, MayRun, Stale
  <2> QED
    BY <2>1 DEF Goto, Inv, TypeOK
<1>5. \A s \in Tokens : s # t /\ ~Stale(s) => pc[s] \in {"none", "done"}
  BY <1>1 DEF CutInv, Calls, NotOvertaken, Stale
<1>6. Calls'
  BY <1>1, <1>3, <1>4 DEF CutInv, Calls
<1>7. ASSUME channel # None PROVE FALSE
  BY <1>1, <1>5, <1>7 DEF CutInv, Current, InSession
<1>8. Current'
  BY <1>1, <1>2, <1>3, <1>4, <1>5, <1>7, NoneAssumption DEF Current, Running
<1>9. ASSUME NEW s \in Tokens, Stale(s) PROVE Severed(s)'
  <2>1. CASE s = t
    BY <1>4, <1>9, <2>1 DEF Severed, InSession
  <2>2. CASE s # t
    <3>1. active[s] = h => pc[s] \in {"none", "done"}
      BY <1>1 DEF Unused
    <3>2. \A g \in Handles : g # h => socket'[g] = socket[g]
      BY <1>1 DEF Inv, TypeOK
    <3> QED
      BY <1>1, <1>2, <1>3, <1>4, <1>9, <2>2, <3>1, <3>2 DEF CutInv, Severed, InSession
  <2> QED
    BY <2>1, <2>2
<1> QED
  BY <1>3, <1>6, <1>8, <1>9 DEF CutInv, Severed

LEMMA CutLink ==
  ASSUME Inv, CutInv, NEW t \in Tokens, NEW w \in Wallets, NEW named \in BOOLEAN,
         Link(t, w, named)
  PROVE  CutInv'
<1>1. /\ pc[t] = "link" /\ socket[active[t]] # "disposed"
      /\ UNCHANGED <<cycleToken, cycleActive, stopped, entering, tearing, activePairing,
                     handle, active, socket>>
      /\ channel' = active[t]
      /\ link' = [link EXCEPT ![active[t]] = TRUE]
  BY DEF Link, gateVars, callVars
<1>2. ~Stale(t)
  BY <1>1 DEF CutInv, Severed
<1>3. /\ active[t] \in Handles /\ handle = active[t]
      /\ \A x \in Teardowns : tearing[x] # "channel"
  BY <1>1, <1>2 DEF CutInv, Current, Calls, Running
<1>4. \A s \in Tokens : Stale(s)' = Stale(s)
  BY <1>1 DEF Stale
<1>5. PICK l \in {"serving", "migrate", "bootstrap"} : Goto(t, l)
  BY DEF Link, Linked, Connected
<1>6. pc'[t] = l /\ \A s \in Tokens : s # t => pc'[s] = pc[s]
  BY <1>5 DEF Goto, Inv, TypeOK
<1>7. Calls'
  BY <1>1, <1>4, <1>6 DEF CutInv, Calls
<1>8. InSession(t)'
  BY <1>6 DEF InSession
<1>9. Current'
  BY <1>1, <1>2, <1>4, <1>6, <1>8 DEF CutInv, Current, Running
<1>10. ASSUME NEW s \in Tokens, Stale(s) PROVE Severed(s)'
  <2>1. s # t /\ pc'[s] = pc[s]
    BY <1>2, <1>6, <1>10
  <2>2. pc[s] = "link" \/ InSession(s) => active[s] # active[t] /\ active[s] \in Handles
    BY <1>3, <1>10 DEF CutInv, Severed
  <2>3. \A g \in Handles : g # active[t] => link'[g] = link[g]
    BY <1>1 DEF Inv, TypeOK
  <2> QED
    BY <1>1, <1>10, <2>1, <2>2, <2>3 DEF CutInv, Severed, InSession
<1> QED
  BY <1>4, <1>7, <1>9, <1>10 DEF CutInv, Severed

-----------------------------------------------------------------------------
(* The callers. *)
LEMMA CancelBackoffMoves ==
  ASSUME Inv, CancelBackoff
  PROVE  \A s \in Tokens : \/ pc'[s] = pc[s]
                           \/ pc[s] = "backoff" /\ pc'[s] = "slept"
                           \/ pc[s] = "rearm" /\ pc'[s] = "rearmed"
  BY DEF CancelBackoff, Awake, Sleeping, Inv, TypeOK

LEMMA CutStartPairing ==
  ASSUME Inv, CutInv, Serial, StartPairing
  PROVE  CutInv'
<1>1. /\ UNCHANGED <<cycleToken, cycleActive, stopped, activePairing, handle, channel,
                     active, socket, link, tearing>>
      /\ ~stopped /\ entering = 0 /\ \A x \in Teardowns : tearing[x] = "no"
      /\ \A t \in Tokens : pc[t] # "begin"
  BY DEF StartPairing, Admitted, gateVars, sessionVars, netVars, diskVars
<1>2. \A s \in Tokens : Stale(s)' = Stale(s)
  BY <1>1 DEF Stale
<1>3. \A s \in Tokens : \/ pc'[s] = pc[s]
                        \/ pc[s] = "backoff" /\ pc'[s] = "slept"
                        \/ pc[s] = "rearm" /\ pc'[s] = "rearmed"
  BY CancelBackoffMoves DEF StartPairing
<1>4. Current'
  BY <1>1, <1>2, <1>3 DEF CutInv, Current, Running, InSession
<1>5. \A s \in Tokens : Severed(s)'
  BY <1>1, <1>2, <1>3 DEF CutInv, Severed, InSession
<1>6. CASE cycleActive /\ activePairing # None
  <2>1. entering' = 0
    BY <1>1, <1>6 DEF StartPairing
  <2>2. Calls'
    BY <1>1, <1>2, <1>3, <2>1 DEF CutInv, Calls
  <2> QED
    BY <1>4, <1>5, <2>2 DEF CutInv
<1>7. CASE ~(cycleActive /\ activePairing # None)
  <2>1. entering' = 1 /\ pc' = pc
    BY <1>1, <1>7 DEF StartPairing
  <2>2. \A s \in Tokens : ~Stale(s) => pc[s] \in {"none", "done"}
    BY <1>1, <1>7 DEF CutInv, Current, Calls, Running
  <2>3. Calls'
    BY <1>1, <1>2, <2>1, <2>2 DEF CutInv, Calls
  <2> QED
    BY <1>4, <1>5, <2>3 DEF CutInv
<1> QED
  BY <1>6, <1>7

LEMMA CutEnterCycle ==
  ASSUME Inv, CutInv, EnterCycle
  PROVE  CutInv'
<1>1. /\ UNCHANGED <<stopped, activePairing, handle, channel, active, socket, link, tearing>>
      /\ cycleActive' = TRUE /\ cycleToken' = cycleToken + 1
      /\ entering > 0 /\ entering' = entering - 1
      /\ pc' = [pc EXCEPT ![cycleToken + 1] = "begin"]
  BY DEF EnterCycle, Goto, sessionVars, netVars
<1>2. cycleToken \in Nat /\ entering \in Nat
  BY TokenAssumption, EnteringAssumption DEF Inv, TypeOK
<1>3. /\ entering' = 0 /\ ~stopped
      /\ \A x \in Teardowns : tearing[x] = "no"
      /\ \A s \in Tokens : ~Stale(s) => pc[s] \in {"none", "done"}
  BY <1>1, <1>2 DEF CutInv, Calls
<1>4. ASSUME NEW s \in Tokens
      PROVE  IF s = cycleToken + 1 THEN pc'[s] = "begin" ELSE pc'[s] = pc[s]
  BY <1>1 DEF Inv, TypeOK
<1>5. \A s \in Tokens : Stale(s)' <=> s # cycleToken + 1
  BY <1>1, <1>3 DEF Stale
<1>6. \A s \in Tokens : s # cycleToken + 1 /\ pc[s] \notin {"none", "done"} => Stale(s)
  BY <1>3
<1>7. Calls'
  <2>1. entering' <= 1 /\ ~(entering' > 0)
    BY <1>3
  <2>2. ASSUME NEW s \in Tokens, pc'[s] \notin {"none", "done"} PROVE s <= cycleToken'
    <3>1. CASE s = cycleToken + 1
      BY <1>1, <1>2, <3>1 DEF Tokens
    <3>2. CASE s # cycleToken + 1
      <4>1. s <= cycleToken
        BY <1>4, <2>2, <3>2 DEF CutInv, Calls
      <4> QED
        BY <1>1, <1>2, <4>1 DEF Tokens
    <3> QED
      BY <3>1, <3>2
  <2>3. \A s \in Tokens : pc'[s] = "begin" => ~Stale(s)'
    BY <1>4, <1>5, <1>6 DEF CutInv, Calls
  <2> QED
    BY <1>1, <1>3, <2>1, <2>2, <2>3 DEF Calls
<1>8. Current'
  <2>1. channel = None
    BY <1>3 DEF CutInv, Current, InSession
  <2> QED
    BY <1>1, <1>4, <1>5, <2>1 DEF Current, Running
<1>9. ASSUME NEW s \in Tokens PROVE Severed(s)'
  BY <1>1, <1>4, <1>5, <1>6 DEF CutInv, Severed, InSession
<1> QED
  BY <1>7, <1>8, <1>9 DEF CutInv

\* What teardownCycle needs of the moment it takes the handle: every loop is stale,
\* and one that could still be answered is on that handle.
LEMMA CutTakeHandle ==
  ASSUME Inv, NEW x \in Teardowns, TakeHandle(x),
         NEW s \in Tokens,
         pc'[s] = "link" \/ InSession(s)' => active'[s] \in Handles /\ active'[s] = active[s],
         pc'[s] = "link" => active[s] = handle \/ socket[active[s]] = "disposed",
         InSession(s)' => active[s] = handle \/ ~link[active[s]]
  PROVE  Severed(s)'
<1>1. handle' = None
  BY DEF TakeHandle
<1>2. CASE handle = None
  BY <1>1, <1>2, NoneAssumption DEF TakeHandle, netVars, Severed
<1>3. CASE handle # None
  <2>1. handle \in Handles /\ Dispose(handle)
    BY <1>3 DEF TakeHandle, Inv, TypeOK
  <2>2. /\ \A g \in Handles : socket'[g] = IF g = handle THEN "disposed" ELSE socket[g]
        /\ \A g \in Handles : link'[g] => link[g] /\ g # handle
    BY <2>1, DisposeEffects
  <2> QED
    BY <1>1, <2>2, NoneAssumption DEF Severed
<1> QED
  BY <1>2, <1>3

LEMMA CutTeardown ==
  ASSUME Inv, CutInv, Serial, NEW x \in Teardowns, Teardown(x)
  PROVE  CutInv'
<1>1. /\ UNCHANGED <<active, entering>>
      /\ entering = 0 /\ \A t \in Tokens : pc[t] # "begin"
      /\ \A y \in Teardowns : tearing[y] = "no"
      /\ cycleToken' = cycleToken + 1
      /\ stopped' = (stopped \/ x = "stop")
      /\ channel' = None /\ CancelBackoff
  BY DEF Teardown, Admitted
<1>2. cycleToken \in Nat
  BY TokenAssumption DEF Inv, TypeOK
<1>3. \A s \in Tokens : \/ pc'[s] = pc[s]
                        \/ pc[s] = "backoff" /\ pc'[s] = "slept"
                        \/ pc[s] = "rearm" /\ pc'[s] = "rearmed"
  BY <1>1, CancelBackoffMoves
<1>4. \A s \in Tokens : pc'[s] \notin {"none", "done"} =>
        pc[s] \notin {"none", "done"} /\ s <= cycleToken /\ s # cycleToken' /\ s <= cycleToken'
  <2>1. ASSUME NEW s \in Tokens, pc'[s] \notin {"none", "done"}
        PROVE  pc[s] \notin {"none", "done"} /\ s <= cycleToken
    BY <1>3, <2>1 DEF CutInv, Calls
  <2> QED
    BY <1>1, <1>2, <2>1 DEF Tokens
<1>5. Calls'
  <2>1. \A s \in Tokens : pc'[s] # "begin"
    BY <1>1, <1>3
  <2> QED
    BY <1>1, <1>4, <2>1 DEF Calls, Stale
<1>6. Current'
  BY <1>1, <1>4 DEF Current, Running, Stale
<1>7. ASSUME NEW s \in Tokens PROVE Severed(s)'
  <2>1. pc'[s] = "link" => pc[s] = "link"
    BY <1>3
  <2>2. InSession(s)' => InSession(s)
    BY <1>3 DEF InSession
  <2>3. /\ pc[s] = "link" =>
             /\ active[s] \in Handles
             /\ (~Stale(s) /\ active[s] = handle) \/ socket[active[s]] = "disposed"
        /\ InSession(s) =>
             /\ active[s] \in Handles
             /\ (~Stale(s) /\ active[s] = handle) \/ ~link[active[s]]
    BY DEF CutInv, Current, Severed, Running, InSession
  <2>4. CASE channel = None
    <3>1. TakeHandle(x)
      BY <2>4 DEF Teardown
    <3> QED
      BY <1>1, <2>1, <2>2, <2>3, <3>1, CutTakeHandle
  <2>5. CASE channel # None
    <3>1. PICK t \in Tokens : ~Stale(t) /\ InSession(t) /\ channel = active[t]
      BY <2>5 DEF CutInv, Current
    <3>2. /\ socket' = socket /\ tearing'[x] = "channel"
          /\ link' = [link EXCEPT ![channel] = FALSE]
      BY <2>5 DEF Teardown, Unlink, Inv, TypeOK
    <3>3. ~Stale(s) => s = t
      BY <3>1 DEF Stale
    <3>4. pc'[s] = "link" => socket'[active'[s]] = "disposed"
      BY <1>1, <2>1, <2>3, <3>1, <3>2, <3>3 DEF InSession
    <3>5. InSession(s)' => ~link'[active'[s]]
      BY <1>1, <2>2, <2>3, <3>1, <3>2, <3>3 DEF Inv, TypeOK
    <3> QED
      BY <1>1, <2>1, <2>2, <2>3, <3>2, <3>4, <3>5 DEF Severed
  <2> QED
    BY <2>4, <2>5
<1> QED
  BY <1>5, <1>6, <1>7 DEF CutInv

LEMMA CutTearing ==
  ASSUME Inv, CutInv, NEW x \in Teardowns, ChannelClosed(x) \/ HandleDisposed(x)
  PROVE  CutInv'
<1>1. /\ UNCHANGED <<cycleToken, cycleActive, stopped, entering, activePairing, channel, pc,
                     active>>
      /\ tearing[x] # "no"
  BY DEF ChannelClosed, HandleDisposed, gateVars, sessionVars, loopVars
<1>2. /\ ~(entering > 0)
      /\ \A s \in Tokens : ~Stale(s) => pc[s] \in {"none", "done"}
  BY <1>1 DEF CutInv, Calls
<1>3. \A s \in Tokens : Stale(s)' = Stale(s)
  BY <1>1 DEF Stale
<1>4. Calls'
  BY <1>1, <1>2, <1>3 DEF CutInv, Calls
<1>5. Current'
  BY <1>1, <1>2, <1>3 DEF CutInv, Current, Running, InSession
<1>6. ASSUME NEW s \in Tokens PROVE Severed(s)'
  <2>1. CASE ChannelClosed(x)
    <3>1. TakeHandle(x)
      BY <2>1 DEF ChannelClosed
    <3>2. /\ pc[s] = "link" => active[s] \in Handles /\ socket[active[s]] = "disposed"
          /\ InSession(s) => active[s] \in Handles /\ ~link[active[s]]
      BY <1>2 DEF CutInv, Severed, InSession
    <3> QED
      BY <1>1, <3>1, <3>2, CutTakeHandle DEF InSession
  <2>2. CASE HandleDisposed(x)
    <3>1. /\ UNCHANGED <<handle, socket, link>> /\ tearing[x] = "handle"
          /\ tearing' = [tearing EXCEPT ![x] = "no"]
      BY <2>2 DEF HandleDisposed, netVars
    <3>2. (\A y \in Teardowns : tearing'[y] # "channel")
            => \A y \in Teardowns : tearing[y] # "channel"
      BY <3>1 DEF Inv, TypeOK
    <3> QED
      BY <1>1, <1>3, <3>1, <3>2 DEF CutInv, Severed, InSession
  <2> QED
    BY <2>1, <2>2
<1> QED
  BY <1>4, <1>5, <1>6 DEF CutInv

LEMMA CutAround ==
  ASSUME Inv, CutInv,
         \/ \E h \in Handles : SignalingDown(h) \/ SignalingUp(h) \/ LinkDown(h)
         \/ ForgetAll \/ ClearKeys \/ UNCHANGED vars
  PROVE  CutInv'
<1>1. UNCHANGED <<cycleToken, cycleActive, stopped, entering, tearing, activePairing, handle,
                  active, channel, pc>>
  BY DEF SignalingDown, SignalingUp, LinkDown, ForgetAll, ClearKeys, vars, gateVars,
         sessionVars, loopVars, callVars
<1> DEFINE Monotone ==
      /\ \A g \in Handles : socket[g] = "disposed" => socket'[g] = "disposed"
      /\ \A g \in Handles : link'[g] => link[g]
<1>2. Monotone
  <2>1. ASSUME NEW h \in Handles, SignalingDown(h) \/ SignalingUp(h) PROVE Monotone
    BY <2>1 DEF SignalingDown, SignalingUp, Inv, TypeOK
  <2>2. ASSUME NEW h \in Handles, LinkDown(h) PROVE Monotone
    BY <2>2 DEF LinkDown, Unlink, Inv, TypeOK
  <2>3. CASE ForgetAll \/ ClearKeys \/ UNCHANGED vars
    BY <2>3 DEF ForgetAll, ClearKeys, vars, netVars
  <2> QED
    BY <2>1, <2>2, <2>3
<1>3. \A s \in Tokens : Stale(s)' = Stale(s)
  BY <1>1 DEF Stale
<1>4. Calls'
  BY <1>1, <1>3 DEF CutInv, Calls
<1>5. Current'
  BY <1>1, <1>3 DEF CutInv, Current, Running, InSession
<1>6. \A s \in Tokens : Severed(s)'
  BY <1>1, <1>2, <1>3 DEF CutInv, Severed, InSession
<1> QED
  BY <1>4, <1>5, <1>6 DEF CutInv

LEMMA CutStart == Init => CutInv
<1> SUFFICES ASSUME Init PROVE CutInv
  OBVIOUS
<1>1. Calls
  BY DEF Init, Calls
<1>2. Current
  BY DEF Init, Current, Running
<1>3. \A t \in Tokens : Severed(t)
  BY DEF Init, Severed, InSession
<1> QED
  BY <1>1, <1>2, <1>3 DEF CutInv

LEMMA CutCrash ==
  ASSUME Crash
  PROVE  CutInv'
<1>1. Calls'
  BY DEF Crash, Calls
<1>2. Current'
  BY DEF Crash, Current, Running
<1>3. \A t \in Tokens : Severed(t)'
  BY DEF Crash, Severed, InSession
<1> QED
  BY <1>1, <1>2, <1>3 DEF CutInv

LEMMA CutStep ==
  ASSUME Serial, Inv, CutInv, NotOvertaken, [Next]_vars
  PROVE  CutInv'
<1>1. ASSUME NEW t \in Tokens, LoopStep(t) PROVE CutInv'
  BY <1>1, CutBegun, CutBeginFails, CutLink, CutAfterSession, CutSession, CutFinally, CutSleep
  DEF LoopStep
<1> QED
  BY <1>1, CutStartPairing, CutEnterCycle, CutTeardown, CutTearing, CutAround, CutCrash
  DEF Next

\* However many cycles are started and cancelled, and wherever their loops are: once
\* teardownCycle has run, a cancelled loop cannot be answered and its session has no
\* channel, unless a new cycle starts while a cancelled rebuild is still with the
\* provider (157, 614-639).
THEOREM StaleLoopAlwaysCut ==
  Serial => (Spec /\ []NotOvertaken => []StaleLoopIsCut)
<1> SUFFICES ASSUME Serial PROVE Spec /\ []NotOvertaken => []StaleLoopIsCut
  OBVIOUS
<1>1. Inv /\ CutInv /\ NotOvertaken /\ [Next]_vars => (Inv /\ CutInv)'
  BY Inductive, CutStep
<1>2. CutInv => StaleLoopIsCut
  BY DEF CutInv, Severed, StaleLoopIsCut
<1> QED
  BY <1>1, <1>2, Initially, CutStart, PTL DEF Spec

-----------------------------------------------------------------------------
(***************************************************************************)
(* The contract of the pairing handles.  Two loops never run on the same   *)
(* handle, and a loop on its way to connect() has no channel open on its   *)
(* handle: so connect() finds nothing outstanding, in every order of       *)
(* cycles, cancels, rebuilds and crashes, without any of the conditions    *)
(* the invariants above need.                                              *)
(***************************************************************************)

\* A running loop's handle exists, is its own, and is linked in a session only.
Held ==
  \A t \in Tokens : Running(t) =>
    /\ active[t] \in Handles
    /\ socket[active[t]] # "free"
    /\ link[active[t]] => InSession(t)
    /\ \A s \in Tokens : s # t /\ Running(s) => active[s] # active[t]

\* No channel without a socket; the handle to dispose of exists; a token is new.
HandleInv ==
  /\ Held
  /\ \A h \in Handles : link[h] => socket[h] \in {"up", "down"}
  /\ handle # None => socket[handle] # "free"
  /\ \A t \in Tokens : t > cycleToken => pc[t] = "none"

\* Sockets are disposed of at most, channels close at most.
Fading ==
  \A h \in Handles :
    /\ link'[h] => link[h]
    /\ \/ socket'[h] = socket[h]
       \/ socket'[h] = "disposed" /\ ~link'[h]

HandleStep(h) == [Handle(h)!Next]_(Handle(h)!vars)

\* What a step of one loop, or of none, does to a handle it leaves alone.
LEMMA HandleQuiet ==
  ASSUME NEW h \in Handles, socket'[h] = socket[h], link'[h] = link[h],
         Connecting(h)' = Connecting(h)
  PROVE  HandleStep(h)
<1>1. SignalingSeen(h)' = SignalingSeen(h)
  BY DEF SignalingSeen
<1> QED
  BY <1>1 DEF HandleStep, Handle!vars

\* A step of a running loop on the handle it has.
LEMMA HeldLoop ==
  ASSUME Inv, HandleInv, NEW t \in Tokens, Running(t), NEW l, Goto(t, l),
         UNCHANGED <<cycleToken, handle, active>>, Fading,
         link'[active[t]] /\ InSession(t) => l \in SessionLabels
  PROVE  HandleInv'
<1>1. pc'[t] = l /\ \A s \in Tokens : s # t => pc'[s] = pc[s]
  BY DEF Goto, Inv, TypeOK
<1>2. \A s \in Tokens : Running(s)' => Running(s)
  BY <1>1 DEF Running
<1>3. \A s \in Tokens : s # t /\ InSession(s) => InSession(s)'
  BY <1>1 DEF InSession
<1>4. l \in SessionLabels => InSession(t)'
  BY <1>1 DEF InSession, SessionLabels
<1>5. Held'
  BY <1>1, <1>2, <1>3, <1>4 DEF HandleInv, Held, Fading
<1>6. \A h \in Handles : link'[h] => socket'[h] \in {"up", "down"}
  BY DEF HandleInv, Fading, Inv, TypeOK
<1> QED
  BY <1>1, <1>5, <1>6 DEF HandleInv, Running, Fading, Inv, TypeOK

-----------------------------------------------------------------------------
(* The loops keep it. *)
LEMMA HeldSession ==
  ASSUME Inv, HandleInv, NEW t \in Tokens,
         \/ Migrate(t) \/ Approve(t) \/ BootstrapFails(t) \/ StoreKey(t) \/ PersistGrant(t)
  PROVE  HandleInv'
<1>1. InSession(t) /\ UNCHANGED <<socket, link>>
  BY DEF Migrate, Approve, BootstrapFails, StoreKey, PersistGrant, InSession, netVars
<1>2. PICK l \in {"store", "stored", "serving"} : Goto(t, l)
  BY DEF Migrate, Approve, BootstrapFails, StoreKey, PersistGrant, Connected
<1>3. l \in SessionLabels
  BY <1>2 DEF SessionLabels
<1> QED
  BY <1>1, <1>2, <1>3, LoopEffects, HeldLoop, Zenon DEF Fading

LEMMA HeldFinally ==
  ASSUME Inv, HandleInv, NEW t \in Tokens, KeystoreFails(t) \/ Drop(t)
  PROVE  HandleInv'
<1>1. Finally(t) /\ UNCHANGED socket
  BY DEF KeystoreFails, Drop
<1>2. active[t] \in Handles
  BY LoopEffects DEF HandleInv, Held
<1>3. Fading /\ ~link'[active[t]]
  BY <1>1, <1>2 DEF Finally, Unlink, Fading, Inv, TypeOK
<1> QED
  BY <1>1, <1>3, LoopEffects, HeldLoop DEF Finally

LEMMA HeldAfterSession ==
  ASSUME Inv, HandleInv, NEW t \in Tokens, LinkFails(t) \/ SessionEnds(t)
  PROVE  HandleInv'
<1>1. /\ AfterSession(t) /\ ~InSession(t)
      /\ active[t] \in Handles
  BY LoopEffects DEF LinkFails, SessionEnds, InSession, HandleInv, Held
<1>2. ASSUME NEW l, Goto(t, l), Fading PROVE HandleInv'
  BY <1>1, <1>2, LoopEffects, HeldLoop
<1>3. CASE Dispose(active[t]) /\ Goto(t, "disposing")
  BY <1>1, <1>2, <1>3, DisposeEffects DEF Fading
<1>4. CASE UNCHANGED netVars
  <2>1. PICK l : Goto(t, l)
    BY <1>1 DEF AfterSession, EnterLink, Sleep
  <2> QED
    BY <1>2, <1>4, <2>1 DEF Fading, netVars
<1> QED
  BY <1>1, <1>3, <1>4 DEF AfterSession, netVars

LEMMA HeldSleep ==
  ASSUME Inv, HandleInv, NEW t \in Tokens, Disposed(t) \/ TimerFires(t) \/ Resume(t)
  PROVE  HandleInv'
<1>1. UNCHANGED <<socket, link>> /\ ~InSession(t)
  BY DEF Disposed, TimerFires, Resume, InSession, Sleeping, netVars
<1>2. PICK l : Goto(t, l)
  BY DEF Disposed, Sleep, TimerFires, Resume, EnterLink
<1> QED
  BY <1>1, <1>2, LoopEffects, HeldLoop DEF Fading

LEMMA HeldBeginFails ==
  ASSUME Inv, HandleInv, NEW t \in Tokens, BeginFails(t)
  PROVE  HandleInv'
<1>1. UNCHANGED <<cycleToken, handle, active, socket, link>>
  BY DEF BeginFails, netVars
<1>2. CASE pc[t] = "rebuild"
  <2>1. Goto(t, "backoff")
    BY <1>2 DEF BeginFails, Sleep
  <2> QED
    BY <1>1, <1>2, <2>1, HeldLoop DEF Running, InSession, Fading
<1>3. CASE pc[t] = "begin"
  <2>1. pc'[t] = "done" /\ \A s \in Tokens : s # t => pc'[s] = pc[s]
    BY <1>3 DEF BeginFails, Goto, Inv, TypeOK
  <2> QED
    BY <1>1, <1>3, <2>1 DEF HandleInv, Held, Running, InSession
<1> QED
  BY <1>2, <1>3 DEF BeginFails

LEMMA HeldBegun ==
  ASSUME Inv, HandleInv, NEW t \in Tokens, NEW h \in Handles, Begun(t, h)
  PROVE  HandleInv'
<1>1. /\ pc[t] \in {"begin", "rebuild"} /\ Unused(h)
      /\ UNCHANGED <<cycleToken, link>>
      /\ handle' = h
      /\ active'[t] = h /\ \A s \in Tokens : s # t => active'[s] = active[s]
      /\ \A g \in Handles : socket'[g] = IF g = h THEN "up" ELSE socket[g]
  BY DEF Begun, gateVars, Inv, TypeOK
<1>2. PICK l \in {"link", "done"} : Goto(t, l)
  BY EnterLinkMoves DEF Begun
<1>3. pc'[t] = l /\ \A s \in Tokens : s # t => pc'[s] = pc[s]
  BY <1>2 DEF Goto, Inv, TypeOK
<1>4. ~link[h]
  BY <1>1 DEF HandleInv, Unused
<1>5. \A s \in Tokens : s # t /\ Running(s) => active[s] # h
  BY <1>1 DEF Unused, Running
<1>6. Held'
  BY <1>1, <1>3, <1>4, <1>5 DEF HandleInv, Held, Running, InSession
<1> QED
  BY <1>1, <1>3, <1>4, <1>6 DEF HandleInv

LEMMA HeldLink ==
  ASSUME Inv, HandleInv, NEW t \in Tokens, NEW w \in Wallets, NEW named \in BOOLEAN,
         Link(t, w, named)
  PROVE  HandleInv'
<1>1. /\ Running(t) /\ socket[active[t]] \in {"up", "down"}
      /\ UNCHANGED <<cycleToken, handle, active, socket>>
  BY DEF Link, Running, gateVars
<1>2. \A h \in Handles : link'[h] = IF h = active[t] THEN TRUE ELSE link[h]
  BY DEF Link, Inv, TypeOK
<1>3. PICK l \in {"serving", "migrate", "bootstrap"} : Goto(t, l)
  BY DEF Link, Linked, Connected
<1>4. pc'[t] = l /\ \A s \in Tokens : s # t => pc'[s] = pc[s]
  BY <1>3 DEF Goto, Inv, TypeOK
<1>5. /\ \A s \in Tokens : Running(s)' => Running(s)
      /\ \A s \in Tokens : InSession(s) => InSession(s)'
      /\ InSession(t)'
  BY <1>1, <1>4 DEF Link, Running, InSession
<1>6. Held'
  BY <1>1, <1>2, <1>5 DEF HandleInv, Held
<1> QED
  BY <1>1, <1>2, <1>4, <1>6 DEF HandleInv, Running

-----------------------------------------------------------------------------
(* So do the callers, the network and the machine. *)

\* Sleeping loops wake, nothing else of theirs changes.
LEMMA HeldAround ==
  ASSUME Inv, HandleInv, UNCHANGED <<cycleToken, active>>,
         \A s \in Tokens : \/ pc'[s] = pc[s]
                           \/ pc[s] = "backoff" /\ pc'[s] = "slept"
                           \/ pc[s] = "rearm" /\ pc'[s] = "rearmed",
         Fading, handle' \in {handle, None}
  PROVE  HandleInv'
<1>1. /\ \A s \in Tokens : Running(s)' => Running(s)
      /\ \A s \in Tokens : InSession(s) => InSession(s)'
  BY DEF Running, InSession
<1>2. Held'
  BY <1>1 DEF HandleInv, Held, Fading
<1> QED
  BY <1>2 DEF HandleInv, Fading, Inv, TypeOK

LEMMA HeldTakeHandle ==
  ASSUME Inv, HandleInv, NEW x \in Teardowns, TakeHandle(x)
  PROVE  Fading /\ handle' \in {handle, None}
<1>1. CASE handle = None
  BY <1>1 DEF TakeHandle, Fading, netVars
<1>2. CASE handle # None
  <2>1. Dispose(handle) /\ handle \in Handles
    BY <1>2 DEF TakeHandle, Inv, TypeOK
  <2> QED
    BY <2>1, DisposeEffects DEF TakeHandle, Fading
<1> QED
  BY <1>1, <1>2

LEMMA HeldStartPairing ==
  ASSUME Inv, HandleInv, StartPairing
  PROVE  HandleInv'
<1>1. UNCHANGED <<cycleToken, active, handle, socket, link>>
  BY DEF StartPairing, gateVars, netVars
<1>2. \A s \in Tokens : \/ pc'[s] = pc[s]
                        \/ pc[s] = "backoff" /\ pc'[s] = "slept"
                        \/ pc[s] = "rearm" /\ pc'[s] = "rearmed"
  BY CancelBackoffMoves DEF StartPairing
<1> QED
  BY <1>1, <1>2, HeldAround DEF Fading

LEMMA HeldEnterCycle ==
  ASSUME Inv, HandleInv, EnterCycle
  PROVE  HandleInv' /\ pc' = [pc EXCEPT ![cycleToken + 1] = "begin"]
                    /\ pc[cycleToken + 1] = "none"
<1>1. /\ UNCHANGED <<active, handle, socket, link>>
      /\ cycleToken' = cycleToken + 1 /\ cycleToken < MaxToken
      /\ pc' = [pc EXCEPT ![cycleToken + 1] = "begin"]
  BY DEF EnterCycle, Goto, netVars
<1>2. cycleToken \in Nat /\ cycleToken + 1 \in Tokens
  BY <1>1, TokenAssumption DEF Inv, TypeOK, Tokens
<1>3. \A s \in Tokens : pc'[s] = IF s = cycleToken + 1 THEN "begin" ELSE pc[s]
  BY <1>1 DEF Inv, TypeOK
<1>4. pc[cycleToken + 1] = "none"
  BY <1>2 DEF HandleInv
<1>5. Held'
  BY <1>1, <1>3, <1>4 DEF HandleInv, Held, Running, InSession
<1>6. ASSUME NEW s \in Tokens, s > cycleToken' PROVE pc'[s] = "none"
  BY <1>1, <1>2, <1>3, <1>6 DEF HandleInv, Tokens
<1> QED
  BY <1>1, <1>4, <1>5, <1>6 DEF HandleInv

LEMMA HeldTearing ==
  ASSUME Inv, HandleInv, NEW x \in Teardowns,
         Teardown(x) \/ ChannelClosed(x) \/ HandleDisposed(x)
  PROVE  HandleInv'
<1>1. CASE Teardown(x)
  <2>1. active' = active /\ cycleToken' = cycleToken + 1
    BY <1>1 DEF Teardown
  <2>2. Fading /\ handle' \in {handle, None}
    <3>1. CASE channel = None
      BY <1>1, <3>1, HeldTakeHandle DEF Teardown
    <3>2. CASE channel # None
      BY <1>1, <3>2 DEF Teardown, Unlink, Fading, Inv, TypeOK
    <3> QED
      BY <3>1, <3>2
  <2>3. \A s \in Tokens : \/ pc'[s] = pc[s]
                          \/ pc[s] = "backoff" /\ pc'[s] = "slept"
                          \/ pc[s] = "rearm" /\ pc'[s] = "rearmed"
    BY <1>1, CancelBackoffMoves DEF Teardown
  <2>4. /\ \A s \in Tokens : Running(s)' => Running(s)
        /\ \A s \in Tokens : InSession(s) => InSession(s)'
    BY <2>3 DEF Running, InSession
  <2>5. Held'
    BY <2>1, <2>2, <2>4 DEF HandleInv, Held, Fading
  <2>6. ASSUME NEW s \in Tokens, s > cycleToken' PROVE pc'[s] = "none"
    <3>1. s > cycleToken
      BY <2>1, <2>6, TokenAssumption DEF Inv, TypeOK, Tokens
    <3> QED
      BY <2>3, <3>1 DEF HandleInv
  <2> QED
    BY <2>2, <2>5, <2>6 DEF HandleInv, Fading, Inv, TypeOK
<1>2. CASE ChannelClosed(x)
  BY <1>2, HeldTakeHandle, HeldAround DEF ChannelClosed, gateVars, loopVars
<1>3. CASE HandleDisposed(x)
  BY <1>3, HeldAround DEF HandleDisposed, gateVars, loopVars, netVars, Fading
<1> QED
  BY <1>1, <1>2, <1>3

LEMMA HeldSignaling ==
  ASSUME Inv, HandleInv, NEW h \in Handles, SignalingDown(h) \/ SignalingUp(h)
  PROVE  HandleInv'
<1>1. UNCHANGED <<cycleToken, pc, active, handle, link>>
  BY DEF SignalingDown, SignalingUp, gateVars, loopVars
<1>2. PICK st \in {"up", "down"} :
        socket[h] \in {"up", "down"} /\ socket' = [socket EXCEPT ![h] = st]
  BY DEF SignalingDown, SignalingUp
<1>3. \A g \in Handles : socket'[g] = IF g = h THEN st ELSE socket[g]
  BY <1>2 DEF Inv, TypeOK
<1>4. Held'
  BY <1>1, <1>2, <1>3 DEF HandleInv, Held, Running, InSession
<1> QED
  BY <1>1, <1>2, <1>3, <1>4 DEF HandleInv, Inv, TypeOK

LEMMA HeldElse ==
  ASSUME Inv, HandleInv,
         \/ \E h \in Handles : LinkDown(h)
         \/ ForgetAll \/ ClearKeys \/ UNCHANGED vars
  PROVE  HandleInv'
<1>1. UNCHANGED <<cycleToken, active, pc, handle>>
  BY DEF LinkDown, ForgetAll, ClearKeys, vars, gateVars, loopVars
<1>2. Fading
  BY DEF LinkDown, Unlink, ForgetAll, ClearKeys, vars, netVars, Fading, Inv, TypeOK
<1> QED
  BY <1>1, <1>2, HeldAround

LEMMA HeldStart == Init => HandleInv
<1>1. Init => Held
  BY DEF Init, Held, Running
<1> QED
  BY <1>1 DEF Init, HandleInv

LEMMA HeldCrash == Crash => HandleInv'
<1>1. Crash => Held'
  BY DEF Crash, Held, Running
<1> QED
  BY <1>1 DEF Crash, HandleInv

LEMMA HeldStep == Inv /\ HandleInv /\ [Next]_vars => HandleInv'
<1> SUFFICES ASSUME Inv, HandleInv, [Next]_vars PROVE HandleInv'
  OBVIOUS
<1>1. ASSUME NEW t \in Tokens, LoopStep(t) PROVE HandleInv'
  BY <1>1, HeldBegun, HeldBeginFails, HeldLink, HeldAfterSession, HeldSession, HeldFinally,
     HeldSleep
  DEF LoopStep
<1> QED
  BY <1>1, HeldStartPairing, HeldEnterCycle, HeldTearing, HeldSignaling, HeldElse, HeldCrash
  DEF Next

-----------------------------------------------------------------------------
(* Every step is one of the contract's, for every handle. *)

\* The loops that wait for a wallet on a handle, after a step of loop t.
LEMMA WaitingAfter ==
  ASSUME Inv, NEW t \in Tokens, NEW l, Goto(t, l), active' = active, NEW h
  PROVE  /\ active[t] # h \/ (pc[t] # "link" /\ l # "link")
              => Connecting(h)' = Connecting(h)
         /\ active[t] = h /\ l # "link" => Connecting(h)' = Connecting(h) \ {t}
         /\ active[t] = h /\ l = "link" => Connecting(h)' = Connecting(h) \cup {t}
<1>1. pc'[t] = l /\ \A s \in Tokens : s # t => pc'[s] = pc[s]
  BY DEF Goto, Inv, TypeOK
<1> QED
  BY <1>1 DEF Connecting

\* Only the loop whose handle it is.
LEMMA WaitingAlone ==
  ASSUME HandleInv, NEW t \in Tokens, Running(t)
  PROVE  Connecting(active[t]) = IF pc[t] = "link" THEN {t} ELSE {}
<1>1. \A s \in Tokens : pc[s] = "link" => Running(s)
  BY DEF Running
<1> QED
  BY <1>1 DEF HandleInv, Held, Connecting

LEMMA StepUnlinked ==
  ASSUME Inv, HandleInv, NEW h \in Handles, NEW g \in Handles,
         Unlink(g), socket' = socket, Connecting(h)' = Connecting(h)
  PROVE  HandleStep(h)
<1>1. \A k \in Handles : link'[k] = IF k = g THEN FALSE ELSE link[k]
  BY DEF Unlink, Inv, TypeOK
<1>2. CASE link[h] /\ h = g
  <2>1. SignalingSeen(h)' = SignalingSeen(h)
    BY DEF SignalingSeen
  <2> QED
    BY <1>1, <1>2, <2>1 DEF HandleStep, Handle!Next, Handle!Closes
<1>3. CASE ~(link[h] /\ h = g)
  BY <1>1, <1>3, HandleQuiet DEF Inv, TypeOK
<1> QED
  BY <1>2, <1>3

LEMMA StepDisposed ==
  ASSUME Inv, HandleInv, NEW h \in Handles, NEW g \in Handles, Dispose(g),
         socket[g] # "free",
         Connecting(h)' = Connecting(h) \/ (h = g /\ Connecting(h)' = {})
  PROVE  HandleStep(h)
<1>1. /\ \A k \in Handles : socket'[k] = IF k = g THEN "disposed" ELSE socket[k]
      /\ \A k \in Handles : link'[k] = IF k = g THEN FALSE ELSE link[k]
  BY DEF Dispose, Unlink, Inv, TypeOK
<1>2. CASE h # g
  BY <1>1, <1>2, HandleQuiet
<1>3. CASE h = g /\ socket[g] \in {"up", "down"}
  <2>1. SignalingSeen(h) \in {"alive", "lost"} /\ SignalingSeen(h)' = "disposed"
    BY <1>1, <1>3 DEF SignalingSeen
  <2> QED
    BY <1>1, <1>3, <2>1
    DEF HandleStep, Handle!Next, Handle!Disposes, Handle!Stands, Handle!MayReject
<1>4. CASE h = g /\ socket[g] = "disposed"
  <2>1. SignalingSeen(h)' = SignalingSeen(h) /\ ~link[h] /\ ~link'[h]
    BY <1>1, <1>4 DEF SignalingSeen, HandleInv
  <2> QED
    BY <1>4, <2>1 DEF HandleStep, Handle!Next, Handle!Rejects, Handle!vars
<1> QED
  BY <1>2, <1>3, <1>4 DEF Inv, TypeOK

LEMMA StepSession ==
  ASSUME Inv, HandleInv, NEW h \in Handles, NEW t \in Tokens,
         \/ Migrate(t) \/ Approve(t) \/ BootstrapFails(t) \/ StoreKey(t) \/ PersistGrant(t)
         \/ Disposed(t) \/ TimerFires(t)
  PROVE  HandleStep(h)
<1>1. pc[t] # "link" /\ UNCHANGED <<socket, link, active>>
  BY DEF Migrate, Approve, BootstrapFails, StoreKey, PersistGrant, Disposed, TimerFires,
         Sleeping, netVars
<1>2. PICK l : Goto(t, l) /\ l # "link"
  BY DEF Migrate, Approve, BootstrapFails, StoreKey, PersistGrant, Connected, Disposed, Sleep,
         TimerFires, Awake
<1> QED
  BY <1>1, <1>2, WaitingAfter, HandleQuiet

LEMMA StepFinally ==
  ASSUME Inv, HandleInv, NEW h \in Handles, NEW t \in Tokens, KeystoreFails(t) \/ Drop(t)
  PROVE  HandleStep(h)
<1>1. pc[t] # "link" /\ UNCHANGED <<socket, active>> /\ Finally(t)
  BY DEF KeystoreFails, Drop
<1>2. active[t] \in Handles
  BY LoopEffects DEF HandleInv, Held
<1>3. Connecting(h)' = Connecting(h)
  BY <1>1, WaitingAfter DEF Finally
<1> QED
  BY <1>1, <1>2, <1>3, StepUnlinked DEF Finally

\* connect() on the handle a loop has: nothing is outstanding there.
LEMMA StepConnects ==
  ASSUME Inv, HandleInv, NEW h \in Handles, NEW t \in Tokens,
         Running(t), ~InSession(t), pc[t] # "link", Goto(t, "link"),
         UNCHANGED <<active, socket, link>>
  PROVE  HandleStep(h)
<1>1. CASE active[t] # h
  BY <1>1, WaitingAfter, HandleQuiet
<1>2. CASE active[t] = h
  <2>1. Connecting(h) = {} /\ Connecting(h)' = {t}
    BY <1>2, WaitingAlone, WaitingAfter
  <2>2. SignalingSeen(h)' = SignalingSeen(h) /\ SignalingSeen(h) # "none"
    BY <1>2 DEF SignalingSeen, HandleInv, Held, Inv, TypeOK
  <2>3. ~link[h] /\ ~link'[h]
    BY <1>2 DEF HandleInv, Held
  <2> QED
    BY <2>1, <2>2, <2>3 DEF HandleStep, Handle!Next, Handle!Connects
<1> QED
  BY <1>1, <1>2

\* A loop that goes anywhere else leaves no call behind.
LEMMA StepLeaves ==
  ASSUME Inv, HandleInv, NEW h \in Handles, NEW t \in Tokens,
         Running(t), NEW l, Goto(t, l), l # "link", UNCHANGED <<active, socket, link>>
  PROVE  HandleStep(h)
<1>1. SignalingSeen(h)' = SignalingSeen(h)
  BY DEF SignalingSeen
<1>2. CASE active[t] # h \/ pc[t] # "link"
  BY <1>2, WaitingAfter, HandleQuiet
<1>3. CASE active[t] = h /\ pc[t] = "link"
  <2>1. Connecting(h) = {t} /\ Connecting(h)' = {}
    BY <1>3, WaitingAlone, WaitingAfter
  <2> QED
    BY <1>1, <2>1 DEF HandleStep, Handle!Next, Handle!Rejects
<1> QED
  BY <1>2, <1>3

LEMMA StepAfterSession ==
  ASSUME Inv, HandleInv, NEW h \in Handles, NEW t \in Tokens, LinkFails(t) \/ SessionEnds(t)
  PROVE  HandleStep(h)
<1>1. /\ AfterSession(t) /\ Running(t) /\ ~InSession(t) /\ active' = active
      /\ active[t] \in Handles /\ socket[active[t]] # "free"
  BY LoopEffects DEF LinkFails, SessionEnds, InSession, HandleInv, Held
<1>2. CASE \E l \in {"done", "rearm"} : Goto(t, l) /\ UNCHANGED netVars
  BY <1>1, <1>2, StepLeaves DEF netVars
<1>3. CASE Goto(t, "link") /\ UNCHANGED netVars
  <2>1. CASE pc[t] = "link"
    <3>1. pc' = pc
      BY <1>3, <2>1 DEF Goto, Inv, TypeOK
    <3>2. Connecting(h)' = Connecting(h)
      BY <1>1, <3>1 DEF Connecting
    <3> QED
      BY <1>3, <3>2, HandleQuiet DEF netVars
  <2> QED
    BY <1>1, <1>3, <2>1, StepConnects DEF netVars
<1>4. CASE Dispose(active[t]) /\ Goto(t, "disposing")
  <2>1. h = active[t] => Connecting(h)' = {}
    <3>1. Connecting(active[t]) \in {{}, {t}}
      BY <1>1, WaitingAlone
    <3>2. active[t] = h => Connecting(h)' = Connecting(h) \ {t}
      BY <1>1, <1>4, WaitingAfter
    <3> QED
      BY <3>1, <3>2
  <2>2. h # active[t] => Connecting(h)' = Connecting(h)
    BY <1>1, <1>4, WaitingAfter
  <2> QED
    BY <1>1, <1>4, <2>1, <2>2, StepDisposed
<1> QED
  BY <1>1, <1>2, <1>3, <1>4, EnterLinkMoves DEF AfterSession, Sleep, netVars

LEMMA StepResume ==
  ASSUME Inv, HandleInv, NEW h \in Handles, NEW t \in Tokens, Resume(t)
  PROVE  HandleStep(h)
<1>1. /\ Running(t) /\ ~InSession(t) /\ pc[t] # "link"
      /\ UNCHANGED <<active, socket, link>>
  BY DEF Resume, Running, InSession, netVars
<1>2. \E l \in {"link", "done", "rebuild"} : Goto(t, l)
  BY EnterLinkMoves DEF Resume, Onward
<1> QED
  BY <1>1, <1>2, StepConnects, StepLeaves

LEMMA StepBeginFails ==
  ASSUME Inv, HandleInv, NEW h \in Handles, NEW t \in Tokens, BeginFails(t)
  PROVE  HandleStep(h)
<1>1. UNCHANGED <<active, socket, link>> /\ pc[t] # "link"
  BY DEF BeginFails, netVars
<1>2. \E l \in {"done", "backoff"} : Goto(t, l)
  BY DEF BeginFails, Sleep
<1> QED
  BY <1>1, <1>2, WaitingAfter, HandleQuiet

LEMMA StepBegun ==
  ASSUME Inv, HandleInv, NEW h \in Handles, NEW t \in Tokens, NEW g \in Handles, Begun(t, g)
  PROVE  HandleStep(h)
<1>1. /\ pc[t] \in {"begin", "rebuild"} /\ Unused(g)
      /\ link' = link
      /\ active'[t] = g /\ \A s \in Tokens : s # t => active'[s] = active[s]
      /\ \A k \in Handles : socket'[k] = IF k = g THEN "up" ELSE socket[k]
  BY DEF Begun, Inv, TypeOK
<1>2. PICK l \in {"link", "done"} : Goto(t, l)
  BY EnterLinkMoves DEF Begun
<1>3. pc'[t] = l /\ \A s \in Tokens : s # t => pc'[s] = pc[s]
  BY <1>2 DEF Goto, Inv, TypeOK
<1>4. CASE h # g
  <2>1. Connecting(h)' = Connecting(h)
    BY <1>1, <1>3, <1>4 DEF Connecting
  <2> QED
    BY <1>1, <1>4, <2>1, HandleQuiet
<1>5. CASE h = g
  <2>1. SignalingSeen(h) \in {"none", "disposed"} /\ SignalingSeen(h)' = "alive"
    BY <1>1, <1>5 DEF SignalingSeen, Unused
  <2>2. ~link[h] /\ ~link'[h]
    BY <1>1, <1>5 DEF Unused, HandleInv
  <2>3. Connecting(h) = {} /\ Connecting(h)' \in {{}, {t}}
    BY <1>1, <1>3, <1>5 DEF Connecting, Unused
  <2> QED
    BY <2>1, <2>2, <2>3 DEF HandleStep, Handle!Next, Handle!Begins
<1> QED
  BY <1>4, <1>5

LEMMA StepLink ==
  ASSUME Inv, HandleInv, NEW h \in Handles, NEW t \in Tokens,
         NEW w \in Wallets, NEW named \in BOOLEAN, Link(t, w, named)
  PROVE  HandleStep(h)
<1>1. /\ pc[t] = "link" /\ Running(t) /\ socket[active[t]] \in {"up", "down"}
      /\ UNCHANGED <<active, socket>>
  BY DEF Link, Running
<1>2. \A k \in Handles : link'[k] = IF k = active[t] THEN TRUE ELSE link[k]
  BY DEF Link, Inv, TypeOK
<1>3. PICK l \in {"serving", "migrate", "bootstrap"} : Goto(t, l)
  BY DEF Link, Linked, Connected
<1>4. CASE h # active[t]
  BY <1>1, <1>2, <1>3, <1>4, WaitingAfter, HandleQuiet
<1>5. CASE h = active[t]
  <2>1. Connecting(h) = {t} /\ Connecting(h)' = {}
    BY <1>1, <1>3, <1>5, WaitingAlone, WaitingAfter
  <2>2. SignalingSeen(h)' = SignalingSeen(h) /\ SignalingSeen(h) \in {"alive", "lost"}
    BY <1>1, <1>5 DEF SignalingSeen
  <2> QED
    BY <1>2, <1>5, <2>1, <2>2 DEF HandleStep, Handle!Next, Handle!Resolves, Handle!Stands
<1> QED
  BY <1>4, <1>5

\* Waking a loop is no step of a handle.
LEMMA WaitingKept ==
  ASSUME active' = active,
         \A s \in Tokens : \/ pc'[s] = pc[s]
                           \/ pc[s] = "backoff" /\ pc'[s] = "slept"
                           \/ pc[s] = "rearm" /\ pc'[s] = "rearmed",
         NEW h
  PROVE  Connecting(h)' = Connecting(h)
  BY DEF Connecting

LEMMA StepTakeHandle ==
  ASSUME Inv, HandleInv, NEW h \in Handles, NEW x \in Teardowns, TakeHandle(x),
         Connecting(h)' = Connecting(h)
  PROVE  HandleStep(h)
<1>1. CASE handle = None
  BY <1>1, HandleQuiet DEF TakeHandle, netVars
<1>2. CASE handle # None
  BY <1>2, StepDisposed DEF TakeHandle, HandleInv, Inv, TypeOK
<1> QED
  BY <1>1, <1>2

LEMMA StepTearing ==
  ASSUME Inv, HandleInv, NEW h \in Handles, NEW x \in Teardowns,
         Teardown(x) \/ ChannelClosed(x) \/ HandleDisposed(x)
  PROVE  HandleStep(h)
<1>1. CASE Teardown(x)
  <2>1. Connecting(h)' = Connecting(h)
    BY <1>1, CancelBackoffMoves, WaitingKept DEF Teardown
  <2>2. CASE channel = None
    BY <1>1, <2>1, <2>2, StepTakeHandle DEF Teardown
  <2>3. CASE channel # None
    BY <1>1, <2>1, <2>3, StepUnlinked DEF Teardown, Inv, TypeOK
  <2> QED
    BY <2>2, <2>3
<1>2. CASE ChannelClosed(x)
  BY <1>2, WaitingKept, StepTakeHandle DEF ChannelClosed, loopVars
<1>3. CASE HandleDisposed(x)
  BY <1>3, WaitingKept, HandleQuiet DEF HandleDisposed, loopVars, netVars
<1> QED
  BY <1>1, <1>2, <1>3

LEMMA StepCycle ==
  ASSUME Inv, HandleInv, NEW h \in Handles, StartPairing \/ EnterCycle
  PROVE  HandleStep(h)
<1>1. UNCHANGED <<active, socket, link>>
  BY DEF StartPairing, EnterCycle, netVars
<1>2. CASE StartPairing
  BY <1>1, <1>2, CancelBackoffMoves, WaitingKept, HandleQuiet DEF StartPairing
<1>3. CASE EnterCycle
  <2>1. \A s \in Tokens : pc'[s] = "link" <=> pc[s] = "link"
    BY <1>3, HeldEnterCycle DEF Inv, TypeOK
  <2>2. Connecting(h)' = Connecting(h)
    BY <1>1, <2>1 DEF Connecting
  <2> QED
    BY <1>1, <2>2, HandleQuiet
<1> QED
  BY <1>2, <1>3

LEMMA StepNetwork ==
  ASSUME Inv, HandleInv, NEW h \in Handles, NEW g \in Handles,
         SignalingDown(g) \/ SignalingUp(g) \/ LinkDown(g)
  PROVE  HandleStep(h)
<1>1. Connecting(h)' = Connecting(h)
  BY DEF SignalingDown, SignalingUp, LinkDown, loopVars, Connecting
<1>2. CASE LinkDown(g)
  BY <1>1, <1>2, StepUnlinked DEF LinkDown
<1>3. CASE SignalingDown(g) \/ SignalingUp(g)
  <2>1. /\ link' = link
        /\ \A k \in Handles : k # g => socket'[k] = socket[k]
        /\ \/ socket[g] = "up" /\ socket'[g] = "down"
           \/ socket[g] = "down" /\ socket'[g] = "up"
    BY <1>3 DEF SignalingDown, SignalingUp, Inv, TypeOK
  <2>2. CASE h # g
    BY <1>1, <2>1, <2>2, HandleQuiet
  <2>3. CASE h = g
    <3>1. \/ SignalingSeen(h) = "alive" /\ SignalingSeen(h)' = "lost"
          \/ SignalingSeen(h) = "lost" /\ SignalingSeen(h)' = "alive"
      BY <2>1, <2>3 DEF SignalingSeen
    <3> QED
      BY <1>1, <2>1, <3>1
      DEF HandleStep, Handle!Next, Handle!Loses, Handle!Returns, Handle!MayReject
  <2> QED
    BY <2>2, <2>3
<1> QED
  BY <1>2, <1>3

LEMMA StepElse ==
  ASSUME Inv, HandleInv, NEW h \in Handles, ForgetAll \/ ClearKeys \/ UNCHANGED vars
  PROVE  HandleStep(h)
<1>1. UNCHANGED <<pc, active, socket, link>>
  BY DEF ForgetAll, ClearKeys, vars, loopVars, netVars
<1> QED
  BY <1>1, HandleQuiet DEF Connecting

LEMMA StepCrash ==
  ASSUME NEW h \in Handles, Crash
  PROVE  HandleStep(h)
<1>1. SignalingSeen(h)' = "none" /\ Connecting(h)' = {} /\ ~link'[h] /\ MayCrash
  BY DEF Crash, SignalingSeen, Connecting
<1> QED
  BY <1>1 DEF HandleStep, Handle!Next, Handle!Ends

LEMMA HandleNext ==
  ASSUME Inv, HandleInv, NEW h \in Handles, [Next]_vars
  PROVE  HandleStep(h)
<1>1. ASSUME NEW t \in Tokens, LoopStep(t) PROVE HandleStep(h)
  BY <1>1, StepBegun, StepBeginFails, StepLink, StepAfterSession, StepSession, StepFinally,
     StepResume
  DEF LoopStep
<1> QED
  BY <1>1, StepCycle, StepTearing, StepNetwork, StepElse, StepCrash DEF Next

\* The broker keeps the contract of every pairing handle, whatever is started,
\* cancelled, rebuilt or killed, and in whatever order: it never calls connect() on
\* a handle with a call outstanding or a channel open (565-577, 591-608).
THEOREM HandlesAreKept == Spec => KeepsHandles
<1>1. ASSUME NEW h \in Handles PROVE Spec => Handle(h)!Spec
  <2>1. Init => Handle(h)!Init
    BY <1>1 DEF Init, SignalingSeen, Connecting, Handle!Init
  <2>2. Inv /\ HandleInv /\ [Next]_vars => [Handle(h)!Next]_(Handle(h)!vars)
    BY HandleNext DEF HandleStep
  <2> QED
    BY <2>1, <2>2, Initially, Inductive, HeldStart, HeldStep, PTL DEF Spec, Handle!Spec
<1> QED
  BY <1>1 DEF KeepsHandles
=============================================================================
