------------------------------- MODULE Tools -------------------------------
(* The plugin's tools over the one relay: ac2_sign (tools/index.ts), the    *)
(* paid fetch (X402) and git-sign (GitSign).  One tool runs, and the world  *)
(* around it - wallet, daemon, developer - does as it likes.                *)
EXTENDS X402, GitSign

VARIABLES
  tool,    \* which tool runs
  told     \* the status ac2_sign reports

vars == <<tool, told, relayVars, payVars, gitVars>>

Init ==
  /\ tool \in {"sign", "pay", "git"}
  /\ told = None
  /\ RelayInit /\ PayInit /\ GitInit
  /\ tool # "git" =>   \* the repository of another tool matters to nobody
       ~ranged /\ walletKey = None /\ \A o \in DOMAIN objects : objects[o].sig = None

TypeOK ==
  /\ RelayTypeOK
  /\ tool \in {"sign", "pay", "git"}
  /\ told \in {None, "asked", "signed", "rejected", "error"}
  /\ result \in Statuses \cup {None}

\* ac2_sign: one request, its outcome put in words.
SignPayload ==
  /\ tool = "sign" /\ told = None
  /\ Ask([schema |-> "bytes", what |-> 0])
  /\ told' = "asked"
  /\ UNCHANGED <<tool, payVars, gitVars>>

SignReplied ==
  /\ tool = "sign" /\ told = "asked" /\ call = "none"
  /\ told' = CASE reply \in Signatures -> "signed"
               [] reply \in {"rejected", "no_session"} -> "rejected"
               [] OTHER -> "error"
  /\ Taken
  /\ UNCHANGED <<tool, payVars, gitVars>>

\* What happens after the tool has ended concerns nobody here.
Done == told \notin {None, "asked"} \/ stage = "done" \/ step = "end"

Pay == tool = "pay" /\ PayNext /\ UNCHANGED <<tool, told, gitVars>>
Git == tool = "git" /\ ~Done /\ GitNext /\ UNCHANGED <<tool, told, payVars>>
Relay == ~Done /\ RelayNext /\ UNCHANGED <<tool, told, payVars, gitVars>>

Next == SignPayload \/ SignReplied \/ Pay \/ Git \/ Relay

\* The steps of git-sign itself, without the developer's.
GitWork ==
  /\ tool = "git"
  /\ \/ Survey \/ CommitReplied \/ UpdateRef
     \/ \E c \in All : SkipCommit(c) \/ AskCommit(c)
  /\ UNCHANGED <<tool, told, payVars>>

\* The process of the tool runs, the daemon serves its socket unless it
\* hangs, and time passes; nothing is assumed of the wallet or the network.
Fairness ==
  /\ WF_vars(SignPayload \/ SignReplied \/ Pay \/ GitWork)
  /\ WF_vars(RelayWork /\ UNCHANGED <<tool, told, payVars, gitVars>>)

Spec == Init /\ [][Next]_vars /\ Fairness

\* A tool that has begun to ask for signatures ends, whatever the wallet and
\* the daemon do.  (The lookup of the account that precedes a payment has no
\* backstop: a daemon that hangs keeps it for ever, and it is not claimed.)
ToolEnds ==
  /\ told = "asked" ~> told \notin {None, "asked"}
  /\ (tool = "pay" /\ stage # "resolve") ~> stage = "done"
  /\ tool = "git" ~> step = "end"
=============================================================================
