----------------------------- MODULE Ac2Client -----------------------------
(***************************************************************************)
(* The SDK's request/response client (packages/ac2-sdk/src/client.ts) over *)
(* a DataChannel transport (transport/index.ts), optionally wrapped by     *)
(* closeAwareTransport (providers/liquid-auth.ts), talking to a wallet     *)
(* that uses the same client with onSigningRequest / onKeyRequest.         *)
(*                                                                         *)
(* A JavaScript task runs to completion, so every handler is one action.   *)
(***************************************************************************)
EXTENDS Naturals, Sequences

CONSTANTS
  Calls,         \* request() / requestSignature() / requestKey() calls
  Ids,           \* message ids
  NoId, NoCall,  \* absent values
  MaxFrames      \* bound: frames the wallet sends in total

ASSUME NoIdAssumption == NoId \notin Ids
ASSUME NoCallAssumption == NoCall \notin Calls
ASSUME MaxFramesAssumption == MaxFrames \in Nat

Kinds == {"SigningRequest", "KeyRequest"}
Types == {"SigningResponse", "SigningRejected", "KeyResponse", "Notice"}

\* What requestSignature and requestKey pass as responseTypes.
ResponseTypes(kind) ==
  IF kind = "KeyRequest" THEN {"KeyResponse"}
                         ELSE {"SigningResponse", "SigningRejected"}

VARIABLES
  status,        \* per call: its promise
  idOf,          \* per call: message.id
  kindOf,        \* per call: which request it is
  timer,         \* per call: the setTimeout of its waiter, armed or not
  pending,       \* Ac2Client.pending: the waiter registered under each id
  closeAware,    \* the transport is wrapped by closeAwareTransport
  closed,        \* Ac2Client.closed
  readyState,    \* the RTCDataChannel's readyState on the agent's side
  emitted,       \* the client's onClose hook has run
  toPeer,        \* requests on the wire
  toClient,      \* frames on the wire to the agent
  prompts,       \* the wallet's responders that are awaiting the user
  sent,          \* frames the wallet has sent
  handled,       \* frames given to the handler map or to onUnknown
  offered        \* history: per id, types of the frames the wallet sent on it

vars == <<status, idOf, kindOf, timer, pending, closeAware, closed, readyState,
          emitted, toPeer, toClient, prompts, sent, handled, offered>>
callVars == <<idOf, kindOf>>
linkVars == <<closeAware, closed, readyState, emitted>>
peerVars == <<toPeer, prompts, sent, offered>>

Requests == [call : Calls, id : Ids, kind : Kinds]
Frames == [thid : Ids, type : Types]

TypeOK ==
  /\ status \in [Calls -> {"idle", "waiting", "resolved", "timedOut",
                           "rejected", "threw"}]
  /\ idOf \in [Calls -> Ids \cup {NoId}]
  /\ kindOf \in [Calls -> Kinds \cup {NoId}]
  /\ timer \in [Calls -> BOOLEAN]
  /\ pending \in [Ids -> Calls \cup {NoCall}]
  /\ closeAware \in BOOLEAN
  /\ closed \in BOOLEAN
  /\ readyState \in {"open", "closing", "closed"}
  /\ emitted \in BOOLEAN
  /\ toPeer \in Seq(Requests)
  /\ toClient \in Seq(Frames)
  /\ prompts \subseteq Requests
  /\ sent \in Nat
  /\ handled \in Nat
  /\ offered \in [Ids -> SUBSET Types]

Init ==
  /\ status = [c \in Calls |-> "idle"]
  /\ idOf = [c \in Calls |-> NoId]
  /\ kindOf = [c \in Calls |-> NoId]
  /\ timer = [c \in Calls |-> FALSE]
  /\ pending = [i \in Ids |-> NoCall]
  /\ closeAware \in BOOLEAN
  /\ closed = FALSE
  /\ readyState = "open"
  /\ emitted = FALSE
  /\ toPeer = <<>>
  /\ toClient = <<>>
  /\ prompts = {}
  /\ sent = 0
  /\ handled = 0
  /\ offered = [i \in Ids |-> {}]

\* generateMessageId never repeats an id.
MayUse(id) == \A c \in Calls : idOf[c] # id

\* awaitThreadResponse: send, then register the waiter and its timer.
Request(c, id, kind, timed) ==
  /\ status[c] = "idle"
  /\ MayUse(id)
  /\ ~closed /\ readyState = "open"
  /\ status' = [status EXCEPT ![c] = "waiting"]
  /\ idOf' = [idOf EXCEPT ![c] = id]
  /\ kindOf' = [kindOf EXCEPT ![c] = kind]
  /\ timer' = [timer EXCEPT ![c] = timed]
  /\ pending' = [pending EXCEPT ![id] = c]
  /\ toPeer' = Append(toPeer, [call |-> c, id |-> id, kind |-> kind])
  /\ UNCHANGED <<linkVars, toClient, prompts, sent, handled, offered>>

\* send() throws: the client is closed, or the channel is not open.
RequestThrows(c) ==
  /\ status[c] = "idle"
  /\ closed \/ readyState # "open"
  /\ status' = [status EXCEPT ![c] = "threw"]
  /\ UNCHANGED <<callVars, timer, pending, linkVars, toClient, peerVars, handled>>

\* A promise that has settled ignores a later resolve or reject.
Settle(c, how) == status' = [status EXCEPT ![c] = IF @ = "waiting" THEN how ELSE @]

\* The timer deletes whatever is registered under its id, then rejects.
TimerFires(c) ==
  /\ timer[c]
  /\ timer' = [timer EXCEPT ![c] = FALSE]
  /\ pending' = [pending EXCEPT ![idOf[c]] = NoCall]
  /\ Settle(c, "timedOut")
  /\ UNCHANGED <<callVars, linkVars, toClient, peerVars, handled>>

\* Mutant: the type of the frame is not looked at.
Matches_AnyType(m) == pending[m.thid] # NoCall

\* The waiter that dispatch would settle with frame m.
Matches(m) ==
  /\ pending[m.thid] # NoCall
  /\ m.type \in ResponseTypes(kindOf[pending[m.thid]])

\* Mutants of dispatch: the waiter stays registered; its timer stays armed.
Dispatch_KeepsWaiter(m) ==
  IF Matches(m)
  THEN /\ timer' = [timer EXCEPT ![pending[m.thid]] = FALSE]
       /\ Settle(pending[m.thid], "resolved")
       /\ UNCHANGED <<pending, handled>>
  ELSE handled' = handled + 1 /\ UNCHANGED <<pending, timer, status>>

Dispatch_KeepsTimer(m) ==
  IF Matches(m)
  THEN /\ pending' = [pending EXCEPT ![m.thid] = NoCall]
       /\ Settle(pending[m.thid], "resolved")
       /\ UNCHANGED <<timer, handled>>
  ELSE handled' = handled + 1 /\ UNCHANGED <<pending, timer, status>>

\* dispatch: the waiter first, else the handler map or onUnknown.
Dispatch(m) ==
  IF Matches(m)
  THEN LET c == pending[m.thid] IN
       /\ pending' = [pending EXCEPT ![m.thid] = NoCall]
       /\ timer' = [timer EXCEPT ![c] = FALSE]
       /\ Settle(c, "resolved")
       /\ UNCHANGED handled
  ELSE /\ handled' = handled + 1
       /\ UNCHANGED <<pending, timer, status>>

\* A frame can still arrive while the channel is closing.
Receive ==
  /\ toClient # <<>>
  /\ readyState # "closed"
  /\ Dispatch(Head(toClient))
  /\ toClient' = Tail(toClient)
  /\ UNCHANGED <<callVars, linkVars, peerVars>>

\* The client's onClose hook: every registered waiter is rejected.
Registered == {c \in Calls : \E i \in Ids : pending[i] = c}

\* Mutant: the hook returns early when close() has already set the flag.
OnClose_SkipsWhenClosed ==
  /\ emitted' = TRUE
  /\ closed' = TRUE
  /\ timer' = [c \in Calls |-> timer[c] /\ (closed \/ c \notin Registered)]
  /\ status' = [c \in Calls |-> IF ~closed /\ c \in Registered /\ status[c] = "waiting"
                                THEN "rejected" ELSE status[c]]
  /\ pending' = [i \in Ids |-> IF closed THEN pending[i] ELSE NoCall]

OnClose ==
  /\ emitted' = TRUE
  /\ closed' = TRUE
  /\ timer' = [c \in Calls |-> timer[c] /\ c \notin Registered]
  /\ status' = [c \in Calls |-> IF c \in Registered /\ status[c] = "waiting"
                                THEN "rejected" ELSE status[c]]
  /\ pending' = [i \in Ids |-> NoCall]

\* close(): the wrapped transport reports the end itself, the bare one waits
\* for the channel's onclose event.
Close ==
  /\ ~closed
  /\ readyState' = IF readyState = "open" THEN "closing" ELSE readyState
  /\ IF closeAware /\ ~emitted
     THEN OnClose
     ELSE closed' = TRUE /\ UNCHANGED <<emitted, timer, status, pending>>
  /\ UNCHANGED <<callVars, closeAware, toClient, peerVars, handled>>

\* The channel's onclose event, after close() or because the link went down:
\* what was on the wire is lost.
ChannelCloses ==
  /\ readyState # "closed"
  /\ readyState' = "closed"
  /\ toClient' = <<>>
  /\ toPeer' = <<>>
  /\ IF emitted
     THEN UNCHANGED <<emitted, closed, timer, status, pending>>
     ELSE OnClose
  /\ UNCHANGED <<callVars, closeAware, prompts, sent, handled, offered>>

\* The wallet's responder starts: it awaits the user.
PeerReceives ==
  /\ toPeer # <<>>
  /\ prompts' = prompts \cup {Head(toPeer)}
  /\ toPeer' = Tail(toPeer)
  /\ UNCHANGED <<status, callVars, timer, pending, linkVars, toClient, sent,
                 handled, offered>>

\* A frame of the wallet's in thread id; its send throws on a dead channel.
PeerSends(id, type) ==
  IF readyState = "open"
  THEN /\ toClient' = Append(toClient, [thid |-> id, type |-> type])
       /\ offered' = [offered EXCEPT ![id] = @ \cup {type}]
       /\ sent' = sent + 1
  ELSE UNCHANGED <<toClient, offered, sent>>

\* onSigningRequest / onKeyRequest: the responder returned, the reply is built
\* and sent; or it threw, and only onError hears of it.
PeerReplies(p, type) ==
  /\ p \in prompts
  /\ sent < MaxFrames
  /\ type \in ResponseTypes(p.kind)
  /\ prompts' = prompts \ {p}
  /\ PeerSends(p.id, type)
  /\ UNCHANGED <<status, callVars, timer, pending, linkVars, toPeer, handled>>

PeerResponderThrows(p) ==
  /\ p \in prompts
  /\ prompts' = prompts \ {p}
  /\ UNCHANGED <<status, callVars, timer, pending, linkVars, toPeer, toClient,
                 sent, handled, offered>>

\* The wallet sends any message in a thread it knows, and may repeat itself.
PeerSpeaks(id, type) ==
  /\ sent < MaxFrames
  /\ readyState = "open"
  /\ (\E p \in prompts : p.id = id) \/ offered[id] # {}
  /\ PeerSends(id, type)
  /\ UNCHANGED <<status, callVars, timer, pending, linkVars, toPeer, prompts, handled>>

Next ==
  \/ \E c \in Calls, id \in Ids, kind \in Kinds, timed \in BOOLEAN :
       Request(c, id, kind, timed)
  \/ \E c \in Calls : RequestThrows(c) \/ TimerFires(c)
  \/ Receive
  \/ Close
  \/ ChannelCloses
  \/ PeerReceives
  \/ \E p \in prompts : PeerResponderThrows(p) \/ \E t \in Types : PeerReplies(p, t)
  \/ \E id \in Ids, t \in Types : PeerSpeaks(id, t)

\* An armed timer fires; a channel that is closing finishes closing.
Fairness ==
  /\ \A c \in Calls : WF_vars(TimerFires(c))
  /\ WF_vars(readyState = "closing" /\ ChannelCloses)

Spec == Init /\ [][Next]_vars /\ Fairness

-----------------------------------------------------------------------------
\* No request in flight is orphaned: with generated ids its waiter is the one
\* registered under its id, and a timer is armed only for a live waiter, so a
\* late timer cannot delete somebody else's entry (client.ts 330-346, 391-399).
WaiterReachable ==
  \A c \in Calls :
    /\ status[c] = "waiting" => pending[idOf[c]] = c
    /\ timer[c] => status[c] = "waiting"

\* Closing the transport rejects every in-flight waiter (the class comment,
\* client.ts 82-83; the onClose hook, 101-108).
ClosedRejectsAll == emitted => \A c \in Calls : status[c] # "waiting"

\* No frame is swallowed: one that is delivered settles a live waiter or
\* reaches the handler map, so a second answer to the same request is seen by
\* the handlers (client.ts 10-14, 391-407).
NoFrameSwallowed ==
  [][toClient # <<>> /\ toClient' = Tail(toClient) /\ readyState' # "closed"
     => \/ \E c \in Calls : status[c] = "waiting" /\ status'[c] = "resolved"
        \/ handled' = handled + 1]_vars

\* A request with a timeout settles whatever the wallet and the link do.
TimedRequestSettles ==
  \A c \in Calls : timer[c] ~> status[c] # "waiting"

\* close() on a bare DataChannel transport settles every request in the end,
\* timer or not, although the rejection only comes with onclose.
CloseSettles == closed ~> \A c \in Calls : status[c] # "waiting"

\* Ac2Client implements the single-use promise its documentation makes.
Promise == INSTANCE SingleUse WITH
  outcome <- [c \in Calls |->
                CASE status[c] = "resolved" -> "answered"
                  [] status[c] \in {"timedOut", "rejected", "threw"} -> "failed"
                  [] OTHER -> status[c]],
  offered <- [c \in Calls |-> IF idOf[c] = NoId THEN {} ELSE offered[idOf[c]]],
  wanted <- [c \in Calls |-> IF idOf[c] = NoId THEN {} ELSE ResponseTypes(kindOf[c])],
  ended <- emitted

ImplementsSingleUse == Promise!Spec
=============================================================================
