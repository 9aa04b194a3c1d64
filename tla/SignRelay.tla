----------------------------- MODULE SignRelay -----------------------------
(* How a tool of the OpenClaw plugin gets a signature from the wallet       *)
(* (session/flows.ts): the tool's process asks the daemon over the control  *)
(* socket, the daemon asks the wallet over the data channel, and three      *)
(* clocks run: the daemon's timeout on the wallet, the tool's backstop on   *)
(* the daemon, and the deadline until which a lost wallet is waited for.    *)
(* One signature is asked for at a time; the callers are in X402 and        *)
(* GitSign.                                                                 *)
(*                                                                          *)
(* The time unit is the poll of one second, and the other times are scaled  *)
(* down.  A message of the control socket arrives within Lag.               *)
(*                                                                          *)
(* Left out: an `ac2` session inside the tool's own process (the tools run  *)
(* where there is none), and the AbortSignal, which no caller passes.       *)
EXTENDS Naturals

CONSTANTS
  None,
  RelinkWait,  \* RELINK_WAIT_MS, in polls
  Timeout,     \* defaultTimeoutMs
  Grace,       \* what backstopMs adds to it
  Lag,         \* bound on the delivery over the control socket
  MaxTroubles  \* bound on how often link, gate or daemon change

ASSUME RelayAssumption ==
  /\ {RelinkWait, Timeout, Grace, Lag, MaxTroubles} \subseteq Nat
  /\ Grace > 2 * Lag

VARIABLES
  call,     \* the tool's side: "none", "attempt", "waiting" or "poll"
  item,     \* what the wallet is asked to sign, and its schema
  reply,    \* what resolveSign returned or threw last
  ask,      \* the daemon's side of the request
  link,     \* the daemon's session: "up", "closing" or "down"
  granted,  \* the session is not locked and has an identity
  daemon,   \* "up", "wedged" or "down"
  clock,    \* what is left of the deadline, the backstop, the timeout, the hop
  prompts,  \* (auxiliary) times the wallet was shown the item of this call
  troubles

callVars == <<call, item, reply>>
daemonVars == <<ask, prompts>>
worldVars == <<link, granted, daemon, troubles>>
relayVars == <<callVars, daemonVars, worldVars, clock>>

NoAsk == [at |-> "none", answer |-> None]
Stopped == [relink |-> 0, back |-> 0, due |-> 0, hop |-> 0]

\* What a wallet can answer: a signature of the right length for one item or
\* for a whole group, one of another length, one made with another account
\* than asked for, or no.
Signatures == {"one", "all", "odd", "foreign"}
Failures == {"rejected", "no_session", "error"}
Answers == Signatures \cup {"rejected", "unavailable", "not_connected", "internal"}

RelayTypeOK ==
  /\ call \in {"none", "attempt", "waiting", "poll"}
  /\ reply \in Signatures \cup Failures \cup {None}
  /\ ask \in [at : {"none", "coming", "relayed", "returning"}, answer : Answers \cup {None}]
  /\ link \in {"up", "closing", "down"}
  /\ granted \in BOOLEAN
  /\ daemon \in {"up", "wedged", "down"}
  /\ clock.relink \in 0..RelinkWait
  /\ clock.back \in 0..(Timeout + Grace)
  /\ clock.due \in 0..Timeout
  /\ clock.hop \in 0..Lag
  /\ prompts \in Nat

RelayInit ==
  /\ call = "none" /\ item = None /\ reply = None
  /\ ask = NoAsk /\ prompts = 0
  /\ link = "up" /\ granted = TRUE /\ daemon = "up" /\ troubles = 0
  /\ clock = Stopped

----------------------------------------------------------------------------
(* The tool's side.                                                         *)

\* resolveSign: the caller waits for reply.
Ask(x) ==
  /\ call = "none"
  /\ call' = "attempt"
  /\ item' = x
  /\ reply' = None
  /\ prompts' = 0
  /\ clock' = [clock EXCEPT !.relink = RelinkWait]
  /\ UNCHANGED <<ask, worldVars>>

\* The call of signViaDaemon is over.
Return(r) == call' = "none" /\ reply' = r

\* What signViaDaemon does with an error of one attempt.
Retried_AnyError(code) == code \in {"not_connected", "internal"} /\ clock.relink > 0
Retried(code) == code = "not_connected" /\ clock.relink > 0

\* The caller has read the reply.
Taken ==
  /\ reply' = None /\ item' = None
  /\ UNCHANGED <<call, daemonVars, worldVars, clock>>

Backstop_AtTimeout == Timeout
Backstop == Timeout + Grace

\* signViaDaemonOnce: connect, and send; nobody listening means no session.
Attempt ==
  /\ call = "attempt"
  /\ IF daemon = "down"
     THEN Return("no_session") /\ UNCHANGED <<ask, clock>>
     ELSE /\ call' = "waiting"
          /\ ask' = [at |-> "coming", answer |-> None]
          /\ clock' = [clock EXCEPT !.back = Backstop, !.hop = Lag]
          /\ UNCHANGED reply
  /\ UNCHANGED <<item, prompts, worldVars>>

\* The daemon's answer, or its error, reaches the tool.
Answered ==
  /\ call = "waiting" /\ ask.at = "returning" /\ daemon # "down"
  /\ ask' = NoAsk
  /\ LET a == ask.answer IN
     IF Retried(a)
     THEN call' = "poll" /\ UNCHANGED reply
     ELSE Return(CASE a \in Signatures -> a
                   [] a \in {"rejected", "unavailable"} -> "rejected"
                   [] OTHER -> "error")
  /\ clock' = [clock EXCEPT !.back = 0, !.hop = 0]
  /\ UNCHANGED <<item, prompts, worldVars>>

BackstopFires_Never == FALSE
BackstopFires ==
  /\ call = "waiting" /\ clock.back = 0
  /\ Return("error")
  /\ UNCHANGED <<item, daemonVars, worldVars, clock>>

----------------------------------------------------------------------------
(* The daemon's side.                                                       *)

\* run.ts agent.request and broker.request: `closing` is a session being torn
\* down, with the state still "connected" and no client any more.
Read ==
  /\ ask.at = "coming" /\ daemon = "up"
  /\ IF link = "up" /\ granted
     THEN /\ ask' = [ask EXCEPT !.at = "relayed"]
          /\ prompts' = prompts + 1
          /\ clock' = [clock EXCEPT !.due = Timeout, !.hop = 0]
     ELSE /\ ask' = [at |-> "returning",
                     answer |-> CASE link = "down" -> "not_connected"
                                  [] link = "closing" -> "internal"
                                  [] OTHER -> "unavailable"]
          /\ clock' = [clock EXCEPT !.hop = Lag]
          /\ UNCHANGED prompts
  /\ UNCHANGED <<callVars, worldVars>>

Settle(a) ==
  /\ ask.at = "relayed" /\ daemon = "up"
  /\ ask' = [at |-> "returning", answer |-> a]
  /\ clock' = [clock EXCEPT !.due = 0, !.hop = Lag]

\* The answer that matches the request arrives over the channel.
WalletAnswers(a) ==
  /\ link = "up"
  /\ Settle(a)
  /\ a = "all" => item.schema = "group"
  /\ a = "foreign" => item.schema \in {"group", "transaction"}
  /\ UNCHANGED <<callVars, prompts, worldVars>>

WalletTimesOut ==
  /\ clock.due = 0
  /\ Settle("internal")
  /\ UNCHANGED <<callVars, prompts, worldVars>>

----------------------------------------------------------------------------
(* The world.                                                               *)

Trouble == troubles < MaxTroubles /\ troubles' = troubles + 1

\* A session that ends fails the request it carries.
LinkDrops ==
  /\ Trouble
  /\ link = "up" /\ daemon = "up"
  /\ link' = "closing"
  /\ IF ask.at = "relayed" THEN Settle("internal") ELSE UNCHANGED <<ask, clock>>
  /\ UNCHANGED <<callVars, prompts, granted, daemon>>

LinkCloses ==
  /\ link = "closing" /\ daemon = "up"
  /\ link' = "down"
  /\ UNCHANGED <<callVars, daemonVars, clock, granted, daemon, troubles>>

\* The wallet is back, and its identity is granted or refused anew.
Relinks ==
  /\ link = "down" /\ daemon = "up"
  /\ link' = "up"
  /\ granted' \in BOOLEAN
  /\ UNCHANGED <<callVars, daemonVars, clock, daemon, troubles>>

\* The daemon hangs, for good.
Wedges ==
  /\ Trouble
  /\ daemon = "up"
  /\ daemon' = "wedged"
  /\ UNCHANGED <<callVars, daemonVars, clock, link, granted>>

\* The daemon dies: the socket closes and what is pending fails.
Dies ==
  /\ Trouble
  /\ daemon # "down"
  /\ daemon' = "down" /\ link' = "down"
  /\ ask' = NoAsk
  /\ clock' = [clock EXCEPT !.due = 0, !.hop = 0, !.back = 0]
  /\ IF call = "waiting" THEN Return("error") ELSE UNCHANGED <<call, reply>>
  /\ UNCHANGED <<item, prompts, granted>>

Restarts ==
  /\ daemon = "down"
  /\ daemon' = "up"
  /\ UNCHANGED <<callVars, daemonVars, clock, link, granted, troubles>>

----------------------------------------------------------------------------
(* Time: nothing that is due is passed by.                                  *)

Less(n) == IF n = 0 THEN 0 ELSE n - 1
InTransit == ask.at \in {"coming", "returning"} /\ daemon = "up"

Tick ==
  /\ call \in {"waiting", "poll"}
  /\ call = "waiting" => clock.back > 0
  /\ ask.at = "relayed" /\ daemon = "up" => clock.due > 0
  /\ InTransit => clock.hop > 0
  /\ clock' = [k \in DOMAIN clock |-> Less(clock[k])]
  /\ call' = IF call = "poll" THEN "attempt" ELSE call
  /\ UNCHANGED <<item, reply, daemonVars, worldVars>>

\* What goes on by itself: the tool, the daemon and time.  The wallet, the
\* network and the user need not.
RelayWork ==
  \/ Attempt \/ Answered \/ BackstopFires
  \/ Read \/ WalletTimesOut \/ Tick

RelayNext ==
  \/ RelayWork
  \/ \E a \in Signatures \cup {"rejected"} : WalletAnswers(a)
  \/ LinkDrops \/ LinkCloses \/ Relinks \/ Wedges \/ Dies \/ Restarts

----------------------------------------------------------------------------
(* What may not go wrong.                                                   *)

\* One call shows the wallet its item once at most, however often it is
\* tried again: what is retried never reached the wallet.
AskedOnce == prompts <= 1

\* The backstop is never first: when it fires, the daemon hangs, so that an
\* answer the wallet gave in time is not thrown away.
BackstopIsLast == (call = "waiting" /\ clock.back = 0) => daemon # "up"
=============================================================================
