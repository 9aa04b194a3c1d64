----------------------------- MODULE SingleUse -----------------------------
(***************************************************************************)
(* What Ac2Client promises its callers (client.ts, the class comment and   *)
(* the awaitThreadResponse comment): a request settles at most once, with  *)
(* an answer the peer gave in that very thread and of a type the caller    *)
(* asked for, or with an error; once the transport is reported closed      *)
(* nothing is left in flight and nothing new starts.                       *)
(***************************************************************************)
CONSTANTS
  Calls,         \* the request() calls a program makes
  Types          \* message types a peer can send

VARIABLES
  outcome,       \* per call: "idle", "waiting", "answered" or "failed"
  offered,       \* per call: the types of the answers the peer gave in its thread
  wanted,        \* per call: the types that may settle it
  ended          \* the transport's end was reported

vars == <<outcome, offered, wanted, ended>>

Init ==
  /\ outcome = [c \in Calls |-> "idle"]
  /\ offered = [c \in Calls |-> {}]
  /\ wanted = [c \in Calls |-> {}]
  /\ ended = FALSE

\* A request goes out; one made too late fails at once.
Issue(c, ts) ==
  /\ outcome[c] = "idle"
  /\ outcome' = [outcome EXCEPT ![c] = "waiting"]
  /\ wanted' = [wanted EXCEPT ![c] = ts]
  /\ ~ended
  /\ UNCHANGED <<offered, ended>>

Refuse(c) ==
  /\ outcome[c] = "idle"
  /\ outcome' = [outcome EXCEPT ![c] = "failed"]
  /\ UNCHANGED <<offered, wanted, ended>>

\* The peer says something in the thread of a call that was issued.
Offer(c, t) ==
  /\ outcome[c] # "idle"
  /\ offered' = [offered EXCEPT ![c] = @ \cup {t}]
  /\ UNCHANGED <<outcome, wanted, ended>>

Answer(c) ==
  /\ outcome[c] = "waiting"
  /\ offered[c] \cap wanted[c] # {}
  /\ outcome' = [outcome EXCEPT ![c] = "answered"]
  /\ UNCHANGED <<offered, wanted, ended>>

Timeout(c) ==
  /\ outcome[c] = "waiting"
  /\ outcome' = [outcome EXCEPT ![c] = "failed"]
  /\ UNCHANGED <<offered, wanted, ended>>

\* Every waiter is rejected in the step that reports the end.
End ==
  /\ ~ended
  /\ ended' = TRUE
  /\ outcome' = [c \in Calls |-> IF outcome[c] = "waiting" THEN "failed"
                                                           ELSE outcome[c]]
  /\ UNCHANGED <<offered, wanted>>

Next ==
  \/ \E c \in Calls, ts \in SUBSET Types : Issue(c, ts)
  \/ \E c \in Calls, t \in Types : Offer(c, t)
  \/ \E c \in Calls : Refuse(c) \/ Answer(c) \/ Timeout(c)
  \/ End

Spec == Init /\ [][Next]_vars
=============================================================================
