----------------------------- MODULE ToolsProofs -----------------------------
(***************************************************************************)
(* For any times, any number of troubles, and whatever tool asks: a call   *)
(* shows the wallet its item once, and the backstop is the last clock to   *)
(* fire.  For any offers, wallets, fees and minimums: what is paid is      *)
(* allowed, the group stands on the chain, and its signatures cover it.    *)
(* For any commit graph: a range reported as signed is, with its history,  *)
(* and no commit the developer makes meanwhile is lost.                    *)
(***************************************************************************)
EXTENDS Tools, TLAPS, WellFoundedInduction, FiniteSetTheorems

-----------------------------------------------------------------------------
(* What the tools do to the relay.  They begin a call, take its reply, or   *)
(* leave it alone; the rest is the relay's own.                            *)

RelayStep == RelayNext \/ (\E x : Ask(x)) \/ Taken \/ UNCHANGED relayVars

LEMMA ToolsOnlyAsk == [Next]_vars => RelayStep
<1> SUFFICES ASSUME [Next]_vars PROVE RelayStep
  OBVIOUS
<1>1. CASE SignPayload
  BY <1>1 DEF SignPayload, RelayStep
<1>2. CASE SignReplied
  BY <1>2 DEF SignReplied, RelayStep
<1>3. CASE Pay
  <2>1. CASE AskGroup \/ AskTxn
    BY <2>1 DEF AskGroup, AskTxn, RelayStep
  <2>2. CASE WalletReplied
    BY <2>2 DEF WalletReplied, RelayStep
  <2>3. CASE Resolve \/ Fetch \/ Fund \/ Present
    <3>1. UNCHANGED relayVars
      BY <2>3 DEF Resolve, Fetch, Fund, Present
    <3> QED BY <3>1 DEF RelayStep
  <2> QED BY <1>3, <2>1, <2>2, <2>3 DEF Pay, PayNext
<1>4. CASE Git
  <2>1. ASSUME NEW c \in All, AskCommit(c) PROVE RelayStep
    BY <2>1 DEF AskCommit, RelayStep
  <2>2. CASE CommitReplied
    BY <2>2 DEF CommitReplied, RelayStep
  <2>3. ASSUME NEW c \in All, SkipCommit(c) PROVE RelayStep
    BY <2>3 DEF SkipCommit, RelayStep
  <2>4. ASSUME NEW b \in Branches, DeveloperSwitches(b) PROVE RelayStep
    BY <2>4 DEF DeveloperSwitches, RelayStep
  <2>5. CASE Survey \/ UpdateRef \/ DeveloperCommits
    BY <2>5 DEF Survey, UpdateRef, DeveloperCommits, RelayStep
  <2>6. CASE GitFails
    BY <2>6 DEF GitFails, RelayStep
  <2> QED BY <1>4, <2>1, <2>2, <2>3, <2>4, <2>5, <2>6 DEF Git, GitNext
<1>5. CASE Relay
  BY <1>5 DEF Relay, RelayStep
<1>6. CASE UNCHANGED vars
  BY <1>6 DEF vars, RelayStep
<1> QED BY <1>1, <1>2, <1>3, <1>4, <1>5, <1>6 DEF Next

-----------------------------------------------------------------------------
(* The relay.  Types, with the shape of the two records.                    *)

Clocks == [relink : 0..RelinkWait, back : 0..(Timeout + Grace), due : 0..Timeout, hop : 0..Lag]
Asks == [at : {"none", "coming", "relayed", "returning"}, answer : Answers \cup {None}]

RelayTypes == RelayTypeOK /\ clock \in Clocks

\* A request is on its way exactly while the tool waits, except at a daemon
\* that hangs; at one that is dead there is none, and nobody waits.
Paired ==
  /\ daemon = "up" => (ask.at # "none" <=> call = "waiting")
  /\ daemon = "down" => ask.at = "none" /\ call # "waiting"

\* While the daemon serves, the backstop is later than all that the request
\* still has to go through: the hops, and the timeout on the wallet.
InTime ==
  call = "waiting" /\ daemon = "up" =>
    /\ ask.at = "coming" => clock.back >= Timeout + Grace - Lag + clock.hop
    /\ ask.at = "relayed" => clock.back >= clock.due + Grace - Lag
    /\ ask.at = "returning" => clock.back >= clock.hop + Grace - 2 * Lag

\* What may be tried again has not reached the wallet.
NotShown ==
  /\ prompts <= 1
  /\ call \in {"attempt", "poll"} => prompts = 0
  /\ call = "waiting" /\ ask.at = "coming" => prompts = 0
  /\ call = "waiting" /\ ask.at = "returning" /\ ask.answer = "not_connected" => prompts = 0

RelayInv == RelayTypes /\ Paired /\ InTime /\ NotShown

LEMMA RelayInitially == RelayInit => RelayInv
  BY RelayAssumption DEF RelayInit, RelayInv, RelayTypes, RelayTypeOK, Clocks, Asks, NoAsk,
     Stopped, Paired, InTime, NotShown

\* Setting two clocks leaves the others.
LEMMA SetClocks ==
  ASSUME NEW c \in Clocks, NEW b \in 0..(Timeout + Grace), NEW d \in 0..Timeout, NEW h \in 0..Lag
  PROVE  /\ [c EXCEPT !.back = b, !.hop = h] \in Clocks
         /\ [c EXCEPT !.back = b, !.hop = h].back = b /\ [c EXCEPT !.back = b, !.hop = h].hop = h
         /\ [c EXCEPT !.due = d, !.hop = h] \in Clocks
         /\ [c EXCEPT !.due = d, !.hop = h].due = d /\ [c EXCEPT !.due = d, !.hop = h].hop = h
         /\ [c EXCEPT !.due = d, !.hop = h].back = c.back
<1>1. PICK r \in 0..RelinkWait, x \in 0..(Timeout + Grace), y \in 0..Timeout, z \in 0..Lag :
        c = [relink |-> r, back |-> x, due |-> y, hop |-> z]
  BY DEF Clocks
<1> QED BY <1>1 DEF Clocks

\* Every step of the relay keeps it.
LEMMA RelayKeeps == RelayInv /\ RelayStep => RelayInv'
<1> SUFFICES ASSUME RelayInv, RelayStep PROVE RelayInv'
  OBVIOUS
<1> USE DEF callVars, daemonVars, worldVars
<1>t. /\ clock \in Clocks /\ ask \in Asks /\ prompts \in Nat
      /\ call \in {"none", "attempt", "waiting", "poll"}
      /\ reply \in Signatures \cup Failures \cup {None}
      /\ link \in {"up", "closing", "down"} /\ granted \in BOOLEAN
      /\ daemon \in {"up", "wedged", "down"}
      /\ RelinkWait \in Nat /\ Timeout \in Nat /\ Grace \in Nat /\ Lag \in Nat
      /\ Grace > 2 * Lag
      /\ {0, Lag} \subseteq 0..Lag /\ {0, Timeout} \subseteq 0..Timeout
      /\ {0, Timeout + Grace} \subseteq 0..(Timeout + Grace)
  BY RelayAssumption DEF RelayInv, RelayTypes, RelayTypeOK, Asks
<1>i. Paired /\ InTime /\ NotShown
  BY DEF RelayInv
<1>g. ASSUME clock' \in Clocks, ask' \in Asks, prompts' \in Nat,
             call' \in {"none", "attempt", "waiting", "poll"},
             reply' \in Signatures \cup Failures \cup {None},
             link' \in {"up", "closing", "down"}, granted' \in BOOLEAN,
             daemon' \in {"up", "wedged", "down"},
             Paired', InTime', NotShown'
      PROVE  RelayInv'
  BY <1>g DEF RelayInv, RelayTypes, RelayTypeOK, Asks, Clocks
<1> USE DEF Clocks, Asks
<1>1. ASSUME NEW x, Ask(x) PROVE RelayInv'
  <2>1. clock' \in Clocks
    BY <1>1, <1>t DEF Ask
  <2> QED BY <1>1, <1>t, <1>i, <1>g, <2>1 DEF Ask, Paired, InTime, NotShown
<1>2. CASE Taken \/ UNCHANGED relayVars
  BY <1>2, <1>t, <1>i, <1>g DEF Taken, relayVars, Paired, InTime, NotShown
<1>3. CASE Attempt
  <2>1. CASE daemon = "down"
    BY <1>3, <2>1, <1>t, <1>i, <1>g DEF Attempt, Return, Failures, Paired, InTime, NotShown
  <2>2. CASE daemon # "down"
    <3>1. /\ call' = "waiting" /\ ask' = [at |-> "coming", answer |-> None]
          /\ clock' = [clock EXCEPT !.back = Timeout + Grace, !.hop = Lag]
          /\ UNCHANGED <<reply, item, prompts, worldVars>> /\ call = "attempt"
      BY <1>3, <2>2 DEF Attempt, Backstop
    <3>2. clock' \in Clocks /\ clock'.back = Timeout + Grace /\ clock'.hop = Lag
      BY <3>1, <1>t, SetClocks
    <3> QED BY <2>2, <3>1, <3>2, <1>t, <1>i, <1>g DEF Paired, InTime, NotShown
  <2> QED BY <2>1, <2>2
<1>4. CASE Answered
  <2>1. clock' \in Clocks
    BY <1>4, <1>t, SetClocks DEF Answered
  <2>2. /\ ask' = NoAsk /\ call' \in {"poll", "none"}
        /\ call' = "poll" => ask.answer = "not_connected"
        /\ reply' \in Signatures \cup Failures \cup {None}
    BY <1>4, <1>t DEF Answered, Return, Retried, Failures
  <2> QED BY <1>4, <2>1, <2>2, <1>t, <1>i, <1>g DEF Answered, NoAsk, Paired, InTime, NotShown
<1>5. CASE BackstopFires
  <2>1. daemon = "wedged"
    BY <1>5, <1>t, <1>i DEF BackstopFires, Paired, InTime
  <2> QED
    BY <1>5, <2>1, <1>t, <1>i, <1>g DEF BackstopFires, Return, Failures, Paired, InTime, NotShown
<1>6. CASE Read
  <2>1. CASE link = "up" /\ granted
    <3>0. clock' = [clock EXCEPT !.due = Timeout, !.hop = 0]
      BY <1>6, <2>1 DEF Read
    <3>1. clock' \in Clocks /\ clock'.due = Timeout /\ clock'.back = clock.back
      BY <3>0, <1>t, SetClocks
    <3>2. ask' \in Asks /\ ask'.at = "relayed" /\ prompts' = prompts + 1
      BY <1>6, <2>1, <1>t DEF Read
    <3> QED BY <1>6, <3>1, <3>2, <1>t, <1>i, <1>g DEF Read, Paired, InTime, NotShown
  <2>2. CASE ~(link = "up" /\ granted)
    <3>1. clock' \in Clocks /\ clock'.hop = Lag /\ clock'.back = clock.back
      BY <1>6, <2>2, <1>t DEF Read
    <3>2. ask' \in Asks /\ ask'.at = "returning" /\ prompts' = prompts
      BY <1>6, <2>2, <1>t DEF Read, Answers
    <3> QED BY <1>6, <3>1, <3>2, <1>t, <1>i, <1>g DEF Read, Paired, InTime, NotShown
  <2> QED BY <2>1, <2>2
<1>7. ASSUME NEW a \in Answers \ {"not_connected"}, Settle(a),
             UNCHANGED <<callVars, prompts, granted, daemon>>, link' \in {"up", "closing", "down"}
      PROVE  RelayInv'
  <2>1. clock' \in Clocks /\ clock'.hop = Lag /\ clock'.back = clock.back
    BY <1>7, <1>t, SetClocks DEF Settle
  <2>2. ask' \in Asks /\ ask'.at = "returning" /\ ask'.answer = a
    BY <1>7, <1>t DEF Settle
  <2> QED BY <1>7, <2>1, <2>2, <1>t, <1>i, <1>g DEF Settle, Paired, InTime, NotShown
<1>8. ASSUME NEW a \in Signatures \cup {"rejected"}, WalletAnswers(a) PROVE RelayInv'
  BY <1>8, <1>7, <1>t DEF WalletAnswers, Answers, Signatures
<1>9. CASE WalletTimesOut
  BY <1>9, <1>7, <1>t DEF WalletTimesOut, Answers
<1>10. CASE LinkDrops
  <2>1. CASE ask.at = "relayed"
    BY <1>10, <2>1, <1>7 DEF LinkDrops, Answers
  <2>2. CASE ask.at # "relayed"
    BY <1>10, <2>2, <1>t, <1>i, <1>g DEF LinkDrops, Paired, InTime, NotShown
  <2> QED BY <2>1, <2>2
<1>11. CASE LinkCloses \/ Relinks \/ Wedges \/ Restarts
  BY <1>11, <1>t, <1>i, <1>g DEF LinkCloses, Relinks, Wedges, Restarts, Trouble, Paired, InTime,
     NotShown
<1>12. CASE Dies
  <2>1. clock' \in Clocks
    BY <1>12, <1>t DEF Dies
  <2>2. /\ ask' = NoAsk /\ call' \in {"none", "attempt", "poll"} /\ daemon' = "down"
        /\ call' \in {"attempt", "poll"} => call \in {"attempt", "poll"}
        /\ reply' \in Signatures \cup Failures \cup {None}
    BY <1>12, <1>t DEF Dies, Return, Failures
  <2> QED BY <1>12, <2>1, <2>2, <1>t, <1>i, <1>g DEF Dies, NoAsk, Paired, InTime, NotShown
<1>13. CASE Tick
  <2> DEFINE less(n) == IF n = 0 THEN 0 ELSE n - 1
  <2>1. clock' = [relink |-> less(clock.relink), back |-> less(clock.back),
                  due |-> less(clock.due), hop |-> less(clock.hop)]
    BY <1>13, <1>t DEF Tick, Less
  <2>2. clock' \in Clocks
    BY <2>1, <1>t
  <2>3. InTime'
    BY <1>13, <2>1, <1>t, <1>i DEF Tick, InTransit, InTime
  <2> QED BY <1>13, <2>2, <2>3, <1>t, <1>i, <1>g DEF Tick, Paired, NotShown
<1> QED
  BY <1>1, <1>2, <1>3, <1>4, <1>5, <1>6, <1>8, <1>9, <1>10, <1>11, <1>12, <1>13
  DEF RelayStep, RelayNext, RelayWork

LEMMA RelayAlways == Spec => []RelayInv
<1>1. Init => RelayInv
  BY RelayInitially DEF Init
<1>2. RelayInv /\ [Next]_vars => RelayInv'
  BY ToolsOnlyAsk, RelayKeeps
<1> QED BY <1>1, <1>2, PTL DEF Spec

\* The relay, ac2_sign and the paid fetch stay within their types.
THEOREM TypeCorrect == Spec => []TypeOK
<1>1. Init => TypeOK
  BY RelayInitially DEF Init, PayInit, RelayInv, RelayTypes, TypeOK
<1>2. RelayInv' /\ TypeOK /\ [Next]_vars => TypeOK'
  <2> SUFFICES ASSUME RelayInv', TypeOK, [Next]_vars PROVE TypeOK'
    OBVIOUS
  <2>1. RelayTypeOK'
    BY DEF RelayInv, RelayTypes
  <2>2. tool' = tool
    BY DEF Next, SignPayload, SignReplied, Pay, Git, Relay, vars
  <2>3. told' \in {None, "asked", "signed", "rejected", "error"}
    BY DEF Next, SignPayload, SignReplied, Pay, Git, Relay, vars, TypeOK
  <2>4. result' \in Statuses \cup {None}
    <3>1. CASE Pay
      BY <3>1 DEF Pay, PayNext, Resolve, Fetch, Fund, AskGroup, AskTxn, WalletReplied, Present,
         Finish, Statuses, TypeOK
    <3>2. CASE ~Pay
      BY <3>2 DEF Next, SignPayload, SignReplied, Git, Relay, vars, payVars, TypeOK
    <3> QED BY <3>1, <3>2
  <2> QED BY <2>1, <2>2, <2>3, <2>4 DEF TypeOK
<1> QED BY <1>1, <1>2, RelayAlways, PTL DEF Spec

\* However often an attempt fails and is tried again, the wallet is shown the
\* item of a call once at most.
THEOREM ShownOnce == Spec => []AskedOnce
<1>1. RelayInv => AskedOnce
  BY DEF RelayInv, NotShown, AskedOnce
<1> QED BY RelayAlways, <1>1, PTL

\* As long as the grace is more than two hops, the backstop of a tool fires
\* only when its daemon hangs, whatever the timeout on the wallet is.
THEOREM BackstopFiresLast == Spec => []BackstopIsLast
<1>1. RelayInv => BackstopIsLast
  BY RelayAssumption DEF RelayInv, RelayTypes, RelayTypeOK, Clocks, Paired, InTime, BackstopIsLast
<1> QED BY RelayAlways, <1>1, PTL

-----------------------------------------------------------------------------
(* Numbers.  Sets stand for the predicates that induction would take, as    *)
(* every set of numbers has a least member.                                *)

\* Numbers, if there are any, have a least one.
LEMMA LeastExists ==
  ASSUME NEW T \in SUBSET Nat, T # {}
  PROVE  \E n \in T : \A m \in T : n <= m
<1> DEFINE R == OpToRel(<, Nat)
<1>1. IsWellFoundedOn(R, Nat)
  BY NatLessThanWellFounded
<1>2. PICK x \in T : \A y \in T : ~ (<<y, x>> \in R)
  <2> HIDE DEF R
  <2> QED BY <1>1, WFMin
<1>3. ASSUME NEW y \in T, y < x PROVE FALSE
  <2>1. <<y, x>> \in R
    BY <1>3 DEF OpToRel
  <2> QED BY <1>2, <2>1
<1> QED BY <1>3

\* A set of numbers closed under successors, with 0 in it, has them all.
LEMMA Below ==
  ASSUME NEW S \in SUBSET Nat, 0 \in S, \A n \in S : n + 1 \in S
  PROVE  S = Nat
<1> SUFFICES ASSUME S # Nat PROVE FALSE
  OBVIOUS
<1> DEFINE T == Nat \ S
<1> DEFINE R == OpToRel(<, Nat)
<1>1. T \subseteq Nat /\ T # {}
  OBVIOUS
<1>2. IsWellFoundedOn(R, Nat)
  BY NatLessThanWellFounded
<1>3. PICK x \in T : \A y \in T : ~ (<<y, x>> \in R)
  <2> HIDE DEF T, R
  <2> QED BY <1>1, <1>2, WFMin
<1>4. x \in Nat /\ x # 0 /\ x - 1 \in Nat
  OBVIOUS
<1>5. <<x - 1, x>> \in R
  BY <1>4 DEF OpToRel
<1>6. x - 1 \in S
  BY <1>3, <1>4, <1>5
<1> QED BY <1>6, <1>4


\* Recursion up to N: from a, in step n along H[n], within V.
Steps(H, N, V) == H \in [1..N -> [V -> V]]
Follows(f, a, H, N, V) ==
  f \in [0..N -> V] /\ f[0] = a /\ \A n \in 1..N : f[n] = H[n][f[n - 1]]

\* There is a function that follows it.
LEMMA RecursionExists ==
  ASSUME NEW V, NEW a \in V, NEW N \in Nat, NEW H, Steps(H, N, V)
  PROVE  \E f : Follows(f, a, H, N, V)
<1> USE DEF Steps, Follows
<1> DEFINE Upto(k) == \E f \in [0..k -> V] : f[0] = a /\ \A n \in 1..k : f[n] = H[n][f[n - 1]]
<1> DEFINE S == {k \in Nat : k <= N => Upto(k)}
<1>1. 0 \in S
  <2> DEFINE g == [n \in 0..0 |-> a]
  <2>1. g \in [0..0 -> V] /\ g[0] = a
    OBVIOUS
  <2>2. \A n \in 1..0 : FALSE
    OBVIOUS
  <2>3. Upto(0)
    <3> HIDE DEF g
    <3> QED BY <2>1, <2>2
  <2> QED BY <2>3
<1>2. ASSUME NEW k \in S PROVE k + 1 \in S
  <2>0. k \in Nat /\ (k <= N => Upto(k))
    BY <1>2
  <2>1. ASSUME k + 1 <= N PROVE Upto(k + 1)
    <3>1. k <= N /\ k + 1 \in 1..N
      BY <2>0, <2>1
    <3>2. PICK f \in [0..k -> V] : f[0] = a /\ \A n \in 1..k : f[n] = H[n][f[n - 1]]
      BY <2>0, <3>1
    <3> DEFINE g == [n \in 0..(k + 1) |-> IF n <= k THEN f[n] ELSE H[k + 1][f[k]]]
    <3>3. f[k] \in V /\ H[k + 1][f[k]] \in V
      BY <3>1, <3>2, <2>0
    <3>4. g \in [0..(k + 1) -> V] /\ g[0] = a
      BY <3>2, <3>3, <2>0
    <3>5. ASSUME NEW n \in 1..(k + 1) PROVE g[n] = H[n][g[n - 1]]
      <4>1. CASE n <= k
        BY <4>1, <3>2, <2>0
      <4>2. CASE n = k + 1
        BY <4>2, <3>2, <2>0
      <4> QED BY <4>1, <4>2, <2>0
    <3> HIDE DEF g
    <3> QED BY <3>4, <3>5
  <2> QED BY <2>0, <2>1
<1>3. S = Nat
  <2>1. S \in SUBSET Nat
    OBVIOUS
  <2> HIDE DEF S
  <2> QED BY <1>1, <1>2, <2>1, Below
<1> QED BY <1>3

-----------------------------------------------------------------------------
(* The paid fetch: the choice, the quote and the sum of the escrows.        *)

\* The first of one or two offers that pass, in any order of preference, passes.
LEMMA SelectedIsAllowed ==
  ASSUME NEW n \in 1..2, NEW offers \in [1..n -> Offers], SelectRequirements(offers) # None
  PROVE  /\ SelectRequirements(offers) \in Offers
         /\ Allowed(SelectRequirements(offers))
<1> DEFINE kept == {i \in 1..n : Allowed(offers[i])}
           before(i, j) == \/ Preferred(offers[i], offers[j])
                           \/ i < j /\ ~Preferred(offers[j], offers[i])
           first == CHOOSE i \in kept : \A j \in kept \ {i} : before(i, j)
<1>1. kept # {} /\ SelectRequirements(offers) = offers[first]
  BY DEF SelectRequirements
<1>2. ASSUME NEW o, NEW p, Preferred(o, p), Preferred(p, o) PROVE FALSE
  <2>1. PICK k \in DOMAIN Preferences :
          Preferences[k] = o.network /\ \A m \in 1..k : Preferences[m] # p.network
    BY <1>2 DEF Preferred
  <2>2. PICK l \in DOMAIN Preferences :
          Preferences[l] = p.network /\ \A m \in 1..l : Preferences[m] # o.network
    BY <1>2 DEF Preferred
  <2>3. k \in 1..l \/ l \in 1..k
    BY PayAssumption
  <2> QED BY <2>1, <2>2, <2>3
<1>3. \E i \in kept : \A j \in kept \ {i} : before(i, j)
  <2>1. before(1, 2) \/ before(2, 1)
    OBVIOUS
  <2>2. kept \subseteq {1, 2}
    OBVIOUS
  <2> HIDE DEF kept, before
  <2>3. kept = {1} \/ kept = {2} \/ kept = {1, 2}
    BY <1>1, <2>2
  <2>4. CASE kept = {1, 2}
    <3>1. CASE before(1, 2)
      BY <3>1, <2>4
    <3>2. CASE before(2, 1)
      BY <3>2, <2>4
    <3> QED BY <3>1, <3>2, <2>1
  <2>5. CASE kept = {1} \/ kept = {2}
    BY <2>5
  <2> QED BY <2>3, <2>4, <2>5
<1>4. first \in kept
  <2> HIDE DEF kept, before
  <2> QED BY <1>3
<1> QED BY <1>1, <1>4

\* A quote never is for less than what is missing.
LEMMA QuoteCovers ==
  ASSUME NEW shortfall \in Int, NEW least \in Nat,
         QuoteFixedOutput(shortfall, least) # None
  PROVE  /\ QuoteFixedOutput(shortfall, least) \in Nat
         /\ QuoteFixedOutput(shortfall, least) >= shortfall
<1> DEFINE first == IF shortfall > MinSwapLeg THEN shortfall ELSE MinSwapLeg
           Enough == {a \in Nat : a >= shortfall}
           H == [n \in 1..MaxDoublings |-> [a \in Enough |-> 2 * a]]
           E(f) == f = [n \in 0..MaxDoublings |-> IF n > 0 THEN 2 * f[n - 1] ELSE first]
           effective == CHOOSE f : E(f)
           accepted == {n \in 0..MaxDoublings : effective[n] >= least}
<1>1. MaxDoublings \in Nat /\ MinSwapLeg \in Nat /\ first \in Enough
  BY PayAssumption
<1>2. Steps(H, MaxDoublings, Enough)
  BY DEF Steps
<1>3. \E f : E(f)
  <2>0. PICK f : Follows(f, first, H, MaxDoublings, Enough)
    <3> HIDE DEF first, H, Enough
    <3> QED BY <1>1, <1>2, RecursionExists
  <2>1. /\ f \in [0..MaxDoublings -> Enough] /\ f[0] = first
        /\ \A n \in 1..MaxDoublings : f[n] = H[n][f[n - 1]]
    BY <2>0 DEF Follows
  <2>2. ASSUME NEW n \in 0..MaxDoublings
        PROVE  f[n] = IF n > 0 THEN 2 * f[n - 1] ELSE first
    <3>1. CASE n = 0
      BY <3>1, <2>1
    <3>2. CASE n # 0
      <4>1. n \in 1..MaxDoublings /\ n > 0 /\ n - 1 \in 0..MaxDoublings
        BY <3>2, <1>1
      <4>2. f[n - 1] \in Enough /\ f[n] = H[n][f[n - 1]]
        BY <4>1, <2>1
      <4> QED BY <4>1, <4>2
    <3> QED BY <3>1, <3>2
  <2> QED BY <2>1, <2>2
<1>4. E(effective)
  BY <1>3
<1>5. \A n \in 0..MaxDoublings : effective[n] \in Enough
  <2> DEFINE S == {n \in Nat : n <= MaxDoublings => effective[n] \in Enough}
  <2> HIDE DEF effective
  <2>1. 0 \in S
    BY <1>1, <1>4
  <2>2. ASSUME NEW n \in S PROVE n + 1 \in S
    BY <1>1, <1>4
  <2>3. S \in SUBSET Nat
    OBVIOUS
  <2>4. S = Nat
    <3> HIDE DEF S
    <3> QED BY <2>1, <2>2, <2>3, Below
  <2> QED BY <2>4
<1>6. accepted # {} /\ QuoteFixedOutput(shortfall, least) =
        effective[CHOOSE n \in accepted : \A m \in accepted : n <= m]
  BY DEF QuoteFixedOutput
<1>7. PICK n \in accepted : \A m \in accepted : n <= m
  <2> HIDE DEF effective
  <2>1. accepted \in SUBSET Nat
    OBVIOUS
  <2> HIDE DEF accepted
  <2> QED BY <2>1, <1>6, LeastExists
<1>8. (CHOOSE k \in accepted : \A m \in accepted : k <= m) \in accepted
  <2> HIDE DEF accepted
  <2> QED BY <1>7
<1> HIDE DEF effective
<1> QED BY <1>5, <1>6, <1>8

-----------------------------------------------------------------------------
(* The chain.  What it does with the transactions of a group.               *)

\* What a group of transactions does to a wallet.
Account(o, b, a, m) == [optedIn |-> o, balance |-> b, algo |-> a, minBalance |-> m]
Accounts == [optedIn : BOOLEAN, balance : Int, algo : Int, minBalance : Int]
Transactions == [type : {"optin", "escrow", "call", "payment"}, amount : Nat]

\* The transactions of a group, and what tells them apart.
LEMMA Kinds ==
  ASSUME NEW amount \in Nat
  PROVE  /\ OptIn \in Transactions /\ Escrow(amount) \in Transactions
         /\ Call(amount) \in Transactions /\ Payment(amount) \in Transactions
         /\ OptIn.type = "optin" /\ Escrow(amount).type = "escrow"
         /\ Call(amount).type = "call" /\ Payment(amount).type = "payment"
         /\ Escrow(amount).amount = amount /\ Call(amount).amount = amount
         /\ Payment(amount).amount = amount
BY DEF OptIn, Escrow, Call, Payment, Transactions

\* Each of them on an account: what becomes of it, and when the chain refuses.
LEMMA ApplyEach ==
  ASSUME NEW o \in BOOLEAN, NEW b \in Int, NEW a \in Int, NEW m \in Int,
         NEW t \in Transactions
  PROVE  LET w == Account(o, b, a, m)
             becomes(v, ok) == Apply(w, t) = IF w # Broke /\ ok THEN v ELSE Broke
         IN /\ t.type = "optin" =>
                 becomes(Account(TRUE, b, a - Fee, m + OptInMbr), b >= 0 /\ a - Fee >= m + OptInMbr)
            /\ t.type = "escrow" =>
                 becomes(Account(o, b, a - Fee - t.amount, m), b >= 0 /\ a - Fee - t.amount >= m)
            /\ t.type = "call" =>
                 becomes(Account(o, b + t.amount, a - Fee, m),
                         b + t.amount >= 0 /\ a - Fee >= m /\ (o \/ t.amount = 0))
            /\ t.type = "payment" =>
                 becomes(Account(o, b - t.amount, a - Fee, m),
                         b - t.amount >= 0 /\ a - Fee >= m /\ (o \/ t.amount = 0))
<1> DEFINE w == Account(o, b, a, m)
<1>1. Fee \in Int /\ OptInMbr \in Int /\ t.amount \in Nat
  BY PayAssumption DEF Transactions
<1>2. /\ w.optedIn = o /\ w.balance = b /\ w.algo = a /\ w.minBalance = m
      /\ \/ t.type = "optin" \/ t.type = "escrow" \/ t.type = "call" \/ t.type = "payment"
  BY DEF Account, Transactions
<1> HIDE DEF w
<1>3. CASE t.type = "optin"
  <2> DEFINE v == [optedIn |-> TRUE, balance |-> b, algo |-> a - Fee, minBalance |-> m + OptInMbr]
  <2>1. (w.optedIn \/ t.type = "optin") = TRUE /\ a - Fee - 0 = a - Fee
    BY <1>1, <1>3
  <2>2. v.balance = b /\ v.algo = a - Fee /\ v.minBalance = m + OptInMbr
    OBVIOUS
  <2> HIDE DEF v
  <2>3. Apply(w, t) = IF w = Broke \/ v.balance < 0 \/ v.algo < v.minBalance THEN Broke ELSE v
    BY <2>1, <1>2, <1>3 DEF Apply, v
  <2>4. v = Account(TRUE, b, a - Fee, m + OptInMbr)
    BY DEF v, Account
  <2>5. (w = Broke \/ v.balance < 0 \/ v.algo < v.minBalance)
          <=> ~(w # Broke /\ b >= 0 /\ a - Fee >= m + OptInMbr)
    BY <1>1, <2>2
  <2>6. Apply(w, t) = IF w # Broke /\ b >= 0 /\ a - Fee >= m + OptInMbr THEN v ELSE Broke
    BY <2>3, <2>5
  <2> QED BY <1>3, <2>4, <2>6 DEF w
<1>4. CASE t.type = "escrow"
  BY <1>1, <1>2, <1>4 DEF Apply, Account
<1>5. CASE t.type = "call"
  BY <1>1, <1>2, <1>5 DEF Apply, Account
<1>6. CASE t.type = "payment"
  BY <1>1, <1>2, <1>6 DEF Apply, Account
<1> QED BY <1>2, <1>3, <1>4, <1>5, <1>6 DEF w

\* What an account has that has opted in, and what it has left of it.
Has(w, b, a, m) == w.optedIn /\ w.balance = b /\ w.algo = a /\ w.minBalance = m /\ w # Broke

\* When such an account bears them, stated for each and then one by one.
LEMMA Borne ==
  ASSUME NEW w, NEW b \in Nat, NEW a \in Int, NEW m \in Int, NEW x \in Nat
  PROVE  /\ w.balance = b /\ w.algo = a /\ w.minBalance = m /\ a - Fee >= m + OptInMbr =>
              Has(Apply(w, OptIn), b, a - Fee, m + OptInMbr)
         /\ Has(w, b, a, m) /\ a - Fee - x >= m => Has(Apply(w, Escrow(x)), b, a - Fee - x, m)
         /\ Has(w, b, a, m) /\ a - Fee >= m => Has(Apply(w, Call(x)), b + x, a - Fee, m)
         /\ Has(w, b, a, m) /\ a - Fee >= m /\ b >= x =>
              Has(Apply(w, Payment(x)), b - x, a - Fee, m)
<1>1. Fee \in Int /\ OptInMbr \in Int
  BY PayAssumption
<1>2. Broke.balance = -1
  BY DEF Broke
<1>3. \A v, y, z : \A c \in Nat : v.optedIn /\ v.balance = c /\ v.algo = y /\ v.minBalance = z
        => Has(v, c, y, z)
  BY <1>2 DEF Has
<1>4. ASSUME w.balance = b, w.algo = a, w.minBalance = m, a - Fee >= m + OptInMbr
      PROVE  Has(Apply(w, OptIn), b, a - Fee, m + OptInMbr)
  <2> DEFINE t == OptIn
             v == [optedIn |-> w.optedIn \/ t.type = "optin", balance |-> w.balance,
                   algo |-> w.algo - Fee - 0, minBalance |-> w.minBalance + OptInMbr]
  <2>1. t.type = "optin"
    BY Kinds
  <2>2. v.optedIn /\ v.balance = b /\ v.algo = a - Fee /\ v.minBalance = m + OptInMbr
    <3>1. (w.optedIn \/ t.type = "optin") = TRUE /\ w.algo - Fee - 0 = a - Fee
      BY <1>1, <1>4, <2>1
    <3> QED BY <1>4, <3>1
  <2> HIDE DEF t
  <2>3. Apply(w, t) = IF w = Broke \/ v.balance < 0 \/ v.algo < v.minBalance THEN Broke ELSE v
    BY <2>1 DEF Apply
  <2> HIDE DEF v
  <2>4. w # Broke /\ ~(b < 0) /\ ~(a - Fee < m + OptInMbr)
    BY <1>1, <1>2, <1>4
  <2>5. Apply(w, t) = v
    BY <2>2, <2>3, <2>4
  <2> QED BY <1>3, <2>2, <2>5 DEF t
<1>5. ASSUME Has(w, b, a, m), a - Fee - x >= m
      PROVE  Has(Apply(w, Escrow(x)), b, a - Fee - x, m)
  <2>1. PICK t : t = Escrow(x)
    OBVIOUS
  <2> DEFINE v == [optedIn |-> w.optedIn \/ t.type = "optin", balance |-> w.balance,
                   algo |-> w.algo - Fee - t.amount, minBalance |-> w.minBalance + 0]
  <2>2. t.type = "escrow" /\ t.amount = x
    BY <2>1, Kinds
  <2>3. v.optedIn /\ v.balance = b /\ v.algo = a - Fee - x /\ v.minBalance = m
    <3>1. (w.optedIn \/ t.type = "optin") = TRUE /\ w.algo - Fee - t.amount = a - Fee - x
          /\ w.minBalance + 0 = m /\ w.balance = b
      BY <1>1, <1>5, <2>2 DEF Has
    <3> QED BY <3>1
  <2>4. Apply(w, t) = IF w = Broke \/ v.balance < 0 \/ v.algo < v.minBalance THEN Broke ELSE v
    BY <2>2 DEF Apply
  <2> HIDE DEF v
  <2>5. w # Broke /\ ~(b < 0) /\ ~(a - Fee - x < m)
    BY <1>1, <1>5 DEF Has
  <2>6. Apply(w, t) = v
    BY <2>3, <2>4, <2>5
  <2> QED BY <1>3, <2>1, <2>3, <2>6
<1>6. ASSUME Has(w, b, a, m), a - Fee >= m, NEW t, NEW c \in Nat,
             t.type \in {"call", "payment"},
             c = IF t.type = "call" THEN b + t.amount ELSE b - t.amount
      PROVE  Has(Apply(w, t), c, a - Fee, m)
  <2> DEFINE d == IF t.type = "call" THEN w.balance + t.amount ELSE w.balance - t.amount
             v == [optedIn |-> w.optedIn \/ t.type = "optin", balance |-> d,
                   algo |-> w.algo - Fee - 0, minBalance |-> w.minBalance + 0]
  <2>1. d = c
    BY <1>6 DEF Has
  <2>2. v.optedIn /\ v.balance = c /\ v.algo = a - Fee /\ v.minBalance = m
    <3>1. (w.optedIn \/ t.type = "optin") = TRUE /\ w.algo - Fee - 0 = a - Fee
          /\ w.minBalance + 0 = m
      BY <1>1, <1>6 DEF Has
    <3> QED BY <2>1, <3>1
  <2>3. Apply(w, t) = IF \/ w = Broke \/ v.balance < 0 \/ v.algo < v.minBalance
                         \/ t.amount > 0 /\ ~w.optedIn
                      THEN Broke ELSE v
    <3>1. CASE t.type = "call"
      BY <3>1 DEF Apply
    <3>2. CASE t.type = "payment"
      BY <3>2 DEF Apply
    <3> QED BY <3>1, <3>2, <1>6
  <2> HIDE DEF v, d
  <2>4. w # Broke /\ w.optedIn /\ ~(c < 0) /\ ~(a - Fee < m)
    BY <1>1, <1>6 DEF Has
  <2>5. Apply(w, t) = v
    BY <2>2, <2>3, <2>4
  <2> QED BY <1>3, <2>2, <2>5
<1>7. ASSUME Has(w, b, a, m), a - Fee >= m PROVE Has(Apply(w, Call(x)), b + x, a - Fee, m)
  <2>1. PICK t : t = Call(x)
    OBVIOUS
  <2>2. t.type = "call" /\ t.amount = x
    BY <2>1, Kinds
  <2>3. PICK c \in Nat : c = b + x
    OBVIOUS
  <2> QED BY <1>6, <1>7, <2>1, <2>2, <2>3
<1>8. ASSUME Has(w, b, a, m), a - Fee >= m, b >= x
      PROVE  Has(Apply(w, Payment(x)), b - x, a - Fee, m)
  <2>1. PICK t : t = Payment(x)
    OBVIOUS
  <2>2. t.type = "payment" /\ t.amount = x
    BY <2>1, Kinds
  <2>3. PICK c \in Nat : c = b - x
    BY <1>8
  <2> QED BY <1>6, <1>8, <2>1, <2>2, <2>3
<1> QED BY <1>4, <1>5, <1>7, <1>8

LEMMA OptInBorne ==
  ASSUME NEW w, NEW b \in Nat, NEW a \in Int, NEW m \in Int, NEW e \in Int, NEW n \in Int,
         w.balance = b, w.algo = a, w.minBalance = m, e = a - Fee, n = m + OptInMbr, e >= n
  PROVE  Has(Apply(w, OptIn), b, e, n)
BY Borne

LEMMA EscrowBorne ==
  ASSUME NEW w, NEW b \in Nat, NEW a \in Int, NEW m \in Int, NEW e \in Int, NEW x \in Nat,
         Has(w, b, a, m), e = a - Fee - x, e >= m
  PROVE  Has(Apply(w, Escrow(x)), b, e, m)
BY Borne

LEMMA CallBorne ==
  ASSUME NEW w, NEW b \in Nat, NEW a \in Int, NEW m \in Int, NEW e \in Int, NEW c \in Nat,
         NEW x \in Nat, Has(w, b, a, m), e = a - Fee, e >= m, c = b + x
  PROVE  Has(Apply(w, Call(x)), c, e, m)
BY Borne

LEMMA NothingBorne ==
  ASSUME NEW w, NEW b \in Nat, NEW a \in Int, NEW m \in Int, NEW e \in Int,
         Has(w, b, a, m), e = a - Fee, e >= m
  PROVE  Has(Apply(w, Call(0)), b, e, m)
<1>1. PICK x \in Nat, c \in Nat : x = 0 /\ c = b /\ c = b + x
  OBVIOUS
<1>2. Has(Apply(w, Call(x)), c, e, m)
  BY <1>1, CallBorne
<1> QED BY <1>1, <1>2

LEMMA PaymentBorne ==
  ASSUME NEW w, NEW b \in Nat, NEW a \in Int, NEW m \in Int, NEW e \in Int, NEW c \in Nat,
         NEW x \in Nat, Has(w, b, a, m), e = a - Fee, e >= m, b >= x, c = b - x
  PROVE  Has(Apply(w, Payment(x)), c, e, m)
BY Borne

\* Whatever is done to an account, it stays one.
LEMMA ApplyInAccounts ==
  ASSUME NEW w \in Accounts, NEW t \in Transactions
  PROVE  Apply(w, t) \in Accounts
<1>1. Fee \in Int /\ OptInMbr \in Int /\ t.amount \in Int
      /\ t.type \in {"optin", "escrow", "call", "payment"}
  BY PayAssumption DEF Transactions
<1>2. Broke \in Accounts
  BY DEF Broke, Accounts
<1>3. PICK o \in BOOLEAN, b, a, m \in Int : w = Account(o, b, a, m)
  BY DEF Accounts, Account
<1>4. \A p \in BOOLEAN, x, y, z \in Int : Account(p, x, y, z) \in Accounts
  BY DEF Accounts, Account
<1>5. /\ Account(TRUE, b, a - Fee, m + OptInMbr) \in Accounts
      /\ Account(o, b, a - Fee - t.amount, m) \in Accounts
      /\ Account(o, b + t.amount, a - Fee, m) \in Accounts
      /\ Account(o, b - t.amount, a - Fee, m) \in Accounts
  <2>1. PICK x, y, z, c, d \in Int :
          x = a - Fee /\ y = m + OptInMbr /\ z = x - t.amount /\ c = b + t.amount
          /\ d = b - t.amount
    BY <1>1
  <2> QED BY <1>4, <2>1
<1> DEFINE left == Apply(Account(o, b, a, m), t)
<1>6. \/ left = Broke
      \/ left = Account(TRUE, b, a - Fee, m + OptInMbr)
      \/ left = Account(o, b, a - Fee - t.amount, m)
      \/ left = Account(o, b + t.amount, a - Fee, m)
      \/ left = Account(o, b - t.amount, a - Fee, m)
  <2>1. CASE t.type = "optin"
    BY <2>1, ApplyEach
  <2>2. CASE t.type = "escrow"
    BY <2>2, ApplyEach
  <2>3. CASE t.type = "call"
    BY <2>3, ApplyEach
  <2>4. CASE t.type = "payment"
    BY <2>4, ApplyEach
  <2> QED BY <1>1, <2>1, <2>2, <2>3, <2>4
<1> QED BY <1>2, <1>3, <1>5, <1>6

\* A group executes when each transaction, on what the one before it left, does.
LEMMA ExecutesStepwise ==
  ASSUME NEW w \in Accounts, NEW txns \in Seq(Transactions)
  PROVE  \E after :
           /\ after[0] = w
           /\ \A n \in 1..Len(txns) : after[n] = Apply(after[n - 1], txns[n])
           /\ Executes(w, txns) <=> after[Len(txns)] # Broke
<1> DEFINE N == Len(txns)
           H == [n \in 1..N |-> [v \in Accounts |-> Apply(v, txns[n])]]
           E(f) == f = [n \in 0..N |-> IF n = 0 THEN w ELSE Apply(f[n - 1], txns[n])]
           after == CHOOSE f : E(f)
<1>1. N \in Nat /\ \A n \in 1..N : txns[n] \in Transactions
  OBVIOUS
<1>2. Steps(H, N, Accounts)
  BY <1>1, ApplyInAccounts DEF Steps
<1>3. \E f : E(f)
  <2>1. PICK f : Follows(f, w, H, N, Accounts)
    <3> HIDE DEF N, H
    <3> QED BY <1>1, <1>2, RecursionExists
  <2>2. /\ f \in [0..N -> Accounts] /\ f[0] = w
        /\ \A n \in 1..N : f[n] = H[n][f[n - 1]]
    BY <2>1 DEF Follows
  <2>3. ASSUME NEW n \in 1..N PROVE f[n] = Apply(f[n - 1], txns[n])
    <3>1. n - 1 \in 0..N
      BY <1>1
    <3> QED BY <3>1, <2>2
  <2>4. \A n \in 0..N : n # 0 => n \in 1..N
    BY <1>1
  <2> QED BY <2>2, <2>3, <2>4
<1>4. E(after)
  BY <1>3
<1>5. Executes(w, txns) <=> after[Len(txns)] # Broke
  BY DEF Executes
<1>6. after[0] = w /\ \A n \in 1..N : after[n] = Apply(after[n - 1], txns[n])
  <2> HIDE DEF after
  <2> QED BY <1>1, <1>4
<1> QED BY <1>5, <1>6

\* The one escrow of a swap is all that it takes.
LEMMA EscrowIsInput ==
  ASSUME NEW swap \in Seq(Transactions), NEW x \in Nat, swap # <<>>, swap[1] = Escrow(x),
         \A n \in 2..Len(swap) : swap[n].type # "escrow"
  PROVE  TotalAlgoInput(swap) = x
<1> DEFINE N == Len(swap)
           paid(n) == IF swap[n].type = "escrow" THEN swap[n].amount ELSE 0
           H == [n \in 1..N |-> [sum \in Nat |-> sum + paid(n)]]
           E(f) == f = [n \in 0..N |-> IF n = 0 THEN 0 ELSE f[n - 1] + paid(n)]
           total == CHOOSE f : E(f)
<1>1. N \in Nat /\ N # 0 /\ \A n \in 1..N : paid(n) \in Nat
  <2>1. N \in Nat /\ N # 0 /\ \A n \in 1..N : swap[n] \in Transactions
    OBVIOUS
  <2>2. \A t \in Transactions : t.amount \in Nat
    BY DEF Transactions
  <2> QED BY <2>1, <2>2
<1>2. Steps(H, N, Nat)
  BY <1>1 DEF Steps
<1>3. \E f : E(f)
  <2>1. PICK f : Follows(f, 0, H, N, Nat)
    <3> HIDE DEF N, H
    <3> QED BY <1>1, <1>2, RecursionExists
  <2>2. /\ f \in [0..N -> Nat] /\ f[0] = 0
        /\ \A n \in 1..N : f[n] = H[n][f[n - 1]]
    BY <2>1 DEF Follows
  <2>3. ASSUME NEW n \in 1..N PROVE f[n] = f[n - 1] + paid(n)
    <3>1. n - 1 \in 0..N
      BY <1>1
    <3> HIDE DEF paid
    <3> QED BY <3>1, <2>2
  <2>4. \A n \in 0..N : n # 0 => n \in 1..N
    BY <1>1
  <2> HIDE DEF paid
  <2> QED BY <2>2, <2>3, <2>4
<1>4. E(total)
  BY <1>3
<1>5. TotalAlgoInput(swap) = total[N]
  BY DEF TotalAlgoInput
<1>6. paid(1) = x /\ \A n \in 2..N : paid(n) = 0
  BY DEF Escrow
<1> DEFINE S == {n \in Nat : n + 1 <= N => total[n + 1] = x}
<1>7. S = Nat
  <2> HIDE DEF total, paid, N
  <2>1. 0 \in S
    BY <1>1, <1>4, <1>6
  <2>2. ASSUME NEW n \in S PROVE n + 1 \in S
    <3>1. ASSUME n + 1 + 1 <= N PROVE total[n + 1 + 1] = x
      <4>1. n \in Nat /\ n + 1 <= N /\ n + 1 + 1 \in 2..N /\ n + 1 + 1 # 0
            /\ n + 1 + 1 \in 0..N /\ n + 1 + 1 - 1 = n + 1
        BY <1>1, <3>1
      <4>2. total[n + 1 + 1] = total[n + 1] + paid(n + 1 + 1)
        BY <1>4, <4>1
      <4> QED BY <4>1, <4>2, <1>6
    <3> QED BY <3>1
  <2>3. S \in SUBSET Nat
    OBVIOUS
  <2> HIDE DEF S
  <2> QED BY <2>1, <2>2, <2>3, Below
<1>8. N - 1 \in Nat /\ N - 1 + 1 = N /\ N <= N
  <2> HIDE DEF N
  <2> QED BY <1>1
<1>9. N - 1 \in S
  <2> HIDE DEF S
  <2> QED BY <1>7, <1>8
<1>10. total[N] = x
  <2> HIDE DEF total, N
  <2> QED BY <1>8, <1>9
<1> QED BY <1>5, <1>10

\* Two sequences end to end, and a sequence of one.
LEMMA Joined ==
  ASSUME NEW s \in Seq(Transactions), NEW r \in Seq(Transactions)
  PROVE  /\ s \o r \in Seq(Transactions) /\ Len(s \o r) = Len(s) + Len(r)
         /\ \A i \in 1..Len(s) : (s \o r)[i] = s[i]
         /\ \A i \in 1..Len(r) : (s \o r)[Len(s) + i] = r[i]
OBVIOUS

LEMMA Single ==
  ASSUME NEW t \in Transactions
  PROVE  <<t>> \in Seq(Transactions) /\ Len(<<t>>) = 1 /\ <<t>>[1] = t
OBVIOUS

\* Its transactions, one by one.
LEMMA SwapShape ==
  ASSUME NEW in \in Nat, NEW out \in Nat, NEW hops \in 1..2
  PROVE  LET swap == Swap(in, out, hops)
         IN /\ swap \in Seq(Transactions) /\ Len(swap) = hops + 1
            /\ swap[1] = Escrow(in) /\ swap[hops + 1] = Call(out)
            /\ hops = 2 => swap[2] = Call(0)
<1> DEFINE calls == [i \in 1..hops |-> Call(IF i = hops THEN out ELSE 0)]
<1>1. Escrow(in) \in Transactions /\ Call(out) \in Transactions /\ Call(0) \in Transactions
  BY Kinds
<1>2. /\ calls \in Seq(Transactions) /\ Len(calls) = hops /\ calls[hops] = Call(out)
      /\ hops = 2 => calls[1] = Call(0)
  BY <1>1
<1>3. Swap(in, out, hops) = <<Escrow(in)>> \o calls
  BY DEF Swap
<1> HIDE DEF calls
<1>4. /\ Swap(in, out, hops) \in Seq(Transactions) /\ Len(Swap(in, out, hops)) = 1 + hops
      /\ Swap(in, out, hops)[1] = Escrow(in)
      /\ \A i \in 1..hops : Swap(in, out, hops)[1 + i] = calls[i]
  BY <1>1, <1>2, <1>3, Single, Joined
<1> QED BY <1>2, <1>4

OptIns(w) == IF w.optedIn THEN 0 ELSE 1

\* The group, which has d opt-ins, one or none.
IsGroup(txns, d, amount, in, out, hops) ==
  /\ txns \in Seq(Transactions) /\ Len(txns) = d + hops + 2
  /\ d = 1 => txns[1] = OptIn
  /\ txns[d + 1] = Escrow(in) /\ txns[d + hops + 1] = Call(out)
  /\ hops = 2 => txns[d + 2] = Call(0)
  /\ txns[d + hops + 2] = Payment(amount)

\* The group that is put together is one.
LEMMA GroupShape ==
  ASSUME NEW w, NEW amount \in Nat, NEW in \in Nat, NEW out \in Nat, NEW hops \in 1..2
  PROVE  IsGroup(FundedGroup(w, amount, Swap(in, out, hops)), OptIns(w), amount, in, out, hops)
<1> DEFINE swap == Swap(in, out, hops)
           first == IF w.optedIn THEN <<>> ELSE <<OptIn>>
           d == OptIns(w)
           both == first \o swap
           txns == both \o <<Payment(amount)>>
<1>1. FundedGroup(w, amount, swap) = txns
  BY DEF FundedGroup, OrderGroup
<1>2. Payment(amount) \in Transactions /\ OptIn \in Transactions
  BY Kinds
<1>3. /\ swap \in Seq(Transactions) /\ Len(swap) = hops + 1
      /\ swap[1] = Escrow(in) /\ swap[hops + 1] = Call(out)
      /\ hops = 2 => swap[2] = Call(0)
  BY SwapShape
<1>4. first \in Seq(Transactions) /\ Len(first) = d /\ (~w.optedIn => first[1] = OptIn)
  BY <1>2 DEF OptIns
<1> HIDE DEF swap, first
<1>5. /\ both \in Seq(Transactions) /\ Len(both) = d + hops + 1
      /\ \A i \in 1..d : both[i] = first[i]
      /\ \A i \in 1..(hops + 1) : both[d + i] = swap[i]
  <2>1. /\ both \in Seq(Transactions) /\ Len(both) = Len(first) + Len(swap)
        /\ \A i \in 1..Len(first) : both[i] = first[i]
        /\ \A i \in 1..Len(swap) : both[Len(first) + i] = swap[i]
    BY <1>3, <1>4, Joined
  <2>2. Len(first) + Len(swap) = d + hops + 1
    BY <1>3, <1>4
  <2> HIDE DEF both, d
  <2> QED BY <1>3, <1>4, <2>1, <2>2
<1> HIDE DEF both
<1>6. /\ txns \in Seq(Transactions) /\ Len(txns) = d + hops + 2
      /\ \A i \in 1..(d + hops + 1) : txns[i] = both[i]
      /\ txns[d + hops + 2] = Payment(amount)
  <2> DEFINE last == <<Payment(amount)>>
  <2>1. last \in Seq(Transactions) /\ Len(last) = 1 /\ last[1] = Payment(amount)
    BY <1>2
  <2> HIDE DEF last
  <2>2. /\ txns \in Seq(Transactions) /\ Len(txns) = Len(both) + 1
        /\ \A i \in 1..Len(both) : txns[i] = both[i]
        /\ \A i \in 1..1 : txns[Len(both) + i] = last[i]
    BY <1>5, <2>1, Joined DEF last
  <2>3. txns[Len(both) + 1] = last[1]
    BY <2>2
  <2>4. Len(both) + 1 = d + hops + 2
    BY <1>5 DEF OptIns
  <2> QED BY <1>5, <2>1, <2>2, <2>3, <2>4
<1> HIDE DEF txns
<1>7. d \in 0..1 /\ (~w.optedIn => d = 1)
  BY DEF OptIns
<1>8. /\ ~w.optedIn => txns[1] = OptIn
      /\ txns[d + 1] = Escrow(in) /\ txns[d + hops + 1] = Call(out)
      /\ hops = 2 => txns[d + 2] = Call(0)
  <2>1. \A i \in 1..(hops + 1) : txns[d + i] = swap[i]
    <3>1. ASSUME NEW i \in 1..(hops + 1) PROVE txns[d + i] = swap[i]
      <4>1. d + i \in 1..(d + hops + 1)
        BY <1>7
      <4> QED BY <4>1, <1>5, <1>6
    <3> QED BY <3>1
  <2>2. ASSUME ~w.optedIn PROVE txns[1] = OptIn
    <3>1. 1 \in 1..d /\ 1 \in 1..(d + hops + 1)
      BY <2>2, <1>7
    <3> QED BY <3>1, <2>2, <1>4, <1>5, <1>6
  <2>3. txns[d + (hops + 1)] = swap[hops + 1] /\ txns[d + 1] = swap[1]
    BY <2>1
  <2>4. hops = 2 => txns[d + 2] = swap[2]
    BY <2>1
  <2>5. d + (hops + 1) = d + hops + 1
    BY <1>7
  <2> QED BY <1>3, <2>2, <2>3, <2>4, <2>5
<1>9. d = 1 => ~w.optedIn
  BY DEF OptIns
<1> QED BY <1>1, <1>6, <1>8, <1>9 DEF swap, IsGroup

\* What the affordability check lets through, the chain executes.
LEMMA FundedGroupExecutes ==
  ASSUME NEW w \in Wallets, NEW amount \in Nat, ~Direct(w, amount),
         NEW in \in Nat, NEW out \in Nat, out >= Shortfall(w, amount), NEW hops \in 1..2,
         Affordable(w, FundedGroup(w, amount, Swap(in, out, hops)), Swap(in, out, hops))
  PROVE  Executes(w, FundedGroup(w, amount, Swap(in, out, hops)))
<1> DEFINE swap == Swap(in, out, hops)
           txns == FundedGroup(w, amount, swap)
<1>1. PICK b, a, m \in Nat : w.balance = b /\ w.algo = a /\ w.minBalance = m
  BY PayAssumption
<1>2. w \in Accounts
  BY PayAssumption DEF Accounts
<1>3. Fee \in Nat /\ OptInMbr \in Nat /\ (~w.optedIn => b = 0)
  BY <1>1, PayAssumption
<1>4. TotalAlgoInput(swap) = in
  <2>1. /\ swap \in Seq(Transactions) /\ Len(swap) = hops + 1 /\ swap[1] = Escrow(in)
        /\ swap[hops + 1] = Call(out) /\ (hops = 2 => swap[2] = Call(0))
    BY SwapShape
  <2>2. Call(out).type # "escrow" /\ Call(0).type # "escrow"
    BY DEF Call
  <2>3. swap # <<>> /\ \A n \in 2..Len(swap) : swap[n] \in {Call(out), Call(0)}
    <3> HIDE DEF swap
    <3> QED BY <2>1
  <2> HIDE DEF swap
  <2> QED BY <2>1, <2>2, <2>3, EscrowIsInput
<1>5. out + b >= amount
  BY <1>1 DEF Shortfall
<1> DEFINE d == OptIns(w)
<1>6. /\ txns \in Seq(Transactions) /\ Len(txns) = d + hops + 2
      /\ d = 1 => txns[1] = OptIn
      /\ txns[d + 1] = Escrow(in) /\ txns[d + hops + 1] = Call(out)
      /\ hops = 2 => txns[d + 2] = Call(0)
      /\ txns[d + hops + 2] = Payment(amount)
  <2>1. IsGroup(txns, d, amount, in, out, hops)
    BY GroupShape
  <2> HIDE DEF txns, d
  <2> QED BY <2>1 DEF IsGroup
<1>7. a - m - (IF w.optedIn THEN 0 ELSE OptInMbr) - Fee * (d + hops + 2) >= in
  <2>1. a - m - (IF w.optedIn THEN 0 ELSE OptInMbr) - Fee * Len(txns) >= in
    <3> HIDE DEF txns, swap
    <3> QED BY <1>1, <1>4 DEF Affordable, txns, swap
  <2> HIDE DEF txns
  <2> QED BY <2>1, <1>6
<1> HIDE DEF txns
<1>d. d = IF w.optedIn THEN 0 ELSE 1
  BY DEF OptIns
<1> HIDE DEF d
<1>8. PICK after : /\ after[0] = w
                   /\ \A n \in 1..Len(txns) : after[n] = Apply(after[n - 1], txns[n])
                   /\ Executes(w, txns) <=> after[Len(txns)] # Broke
  BY <1>2, <1>6, ExecutesStepwise
<1>9. w # Broke
  BY <1>1 DEF Broke
<1> DEFINE Enough(y, z) == y - z - Fee * (hops + 2) >= in
\* From the escrow on, it is one or two calls and the payment.
<1>10. ASSUME NEW k \in 0..1, k = d, NEW y \in Int, NEW z \in Int, Has(after[k], b, y, z),
              Enough(y, z)
       PROVE  Executes(w, txns)
  <2>1. PICK y1 \in Int, y2 \in Int, y3 \in Int, y4 \in Int, b2 \in Nat, b3 \in Nat :
          /\ y1 = y - Fee - in /\ y2 = y1 - Fee /\ y3 = y2 - Fee /\ y4 = y3 - Fee
          /\ b2 = b + out /\ b3 = b2 - amount
    BY <1>3, <1>5
  <2>2. y1 >= z /\ y2 >= z /\ y3 >= z /\ (hops = 2 => y4 >= z) /\ b2 >= amount
    BY <1>3, <1>5, <1>10, <2>1
  <2>3. Len(txns) = k + hops + 2 /\ txns[k + 1] = Escrow(in) /\ txns[k + hops + 1] = Call(out)
        /\ (hops = 2 => txns[k + 2] = Call(0)) /\ txns[k + hops + 2] = Payment(amount)
    BY <1>6, <1>10
  <2>4. \A n \in 1..(hops + 2) : after[k + n] = Apply(after[k + (n - 1)], txns[k + n])
    <3>1. ASSUME NEW n \in 1..(hops + 2) PROVE after[k + n] = Apply(after[k + (n - 1)], txns[k + n])
      <4>1. k + n \in 1..Len(txns) /\ k + n - 1 = k + (n - 1)
        BY <2>3
      <4> QED BY <4>1, <1>8
    <3> QED BY <3>1
  <2>5. Has(after[k + 1], b, y1, z)
    <3>1. after[k + 1] = Apply(after[k], Escrow(in))
      <4>1. 1 \in 1..(hops + 2) /\ k + (1 - 1) = k
        OBVIOUS
      <4> QED BY <4>1, <2>3, <2>4
    <3> QED BY <3>1, <1>10, <2>1, <2>2, EscrowBorne
  <2>6. CASE hops = 1
    <3>1. after[k + 2] = Apply(after[k + 1], Call(out))
          /\ after[k + 3] = Apply(after[k + 2], Payment(amount))
      <4>1. 2 \in 1..(hops + 2) /\ 3 \in 1..(hops + 2) /\ 2 - 1 = 1 /\ 3 - 1 = 2
            /\ k + hops + 1 = k + 2 /\ k + hops + 2 = k + 3
        BY <2>6
      <4> QED BY <4>1, <2>3, <2>4
    <3>2. Has(after[k + 2], b2, y2, z)
      <4>1. Has(Apply(after[k + 1], Call(out)), b2, y2, z)
        BY <2>1, <2>2, <2>5, CallBorne
      <4> QED BY <4>1, <3>1
    <3>3. Has(after[k + 3], b3, y3, z)
      BY <3>1, <3>2, <2>1, <2>2, PaymentBorne
    <3>4. Len(txns) = k + 3
      BY <2>3, <2>6
    <3> QED BY <3>3, <3>4, <1>8 DEF Has
  <2>7. CASE hops = 2
    <3>1. /\ after[k + 2] = Apply(after[k + 1], Call(0))
          /\ after[k + 3] = Apply(after[k + 2], Call(out))
          /\ after[k + 4] = Apply(after[k + 3], Payment(amount))
      <4>1. /\ 2 \in 1..(hops + 2) /\ 3 \in 1..(hops + 2) /\ 4 \in 1..(hops + 2)
            /\ 2 - 1 = 1 /\ 3 - 1 = 2 /\ 4 - 1 = 3
            /\ k + hops + 1 = k + 3 /\ k + hops + 2 = k + 4
        BY <2>7
      <4> QED BY <4>1, <2>3, <2>4, <2>7
    <3>2. Has(after[k + 2], b, y2, z)
      BY <3>1, <2>1, <2>2, <2>5, NothingBorne
    <3>3. Has(after[k + 3], b2, y3, z)
      BY <3>1, <3>2, <2>1, <2>2, CallBorne
    <3>4. Has(after[k + 4], b3, y4, z)
      BY <3>1, <3>3, <2>1, <2>2, <2>7, PaymentBorne
    <3>5. Len(txns) = k + 4
      BY <2>3, <2>7
    <3> QED BY <3>4, <3>5, <1>8 DEF Has
  <2> QED BY <2>6, <2>7
<1>11. ASSUME w.optedIn PROVE Executes(w, txns)
  <2>1. d = 0 /\ Has(after[d], b, a, m)
    BY <1>1, <1>8, <1>9, <1>11, <1>d DEF Has
  <2>2. Enough(a, m)
    <3>1. d + hops + 2 = hops + 2 /\ (IF w.optedIn THEN 0 ELSE OptInMbr) = 0
      BY <1>11, <2>1
    <3>2. a - m - 0 - Fee * (hops + 2) >= in
      BY <1>7, <3>1
    <3> QED BY <1>3, <3>2
  <2>3. PICK k \in 0..1 : k = d
    BY <2>1
  <2>4. a \in Int /\ m \in Int
    OBVIOUS
  <2> HIDE DEF Enough, d
  <2> QED BY <1>10, <2>1, <2>2, <2>3, <2>4
<1>12. ASSUME ~w.optedIn PROVE Executes(w, txns)
  <2>1. d = 1 /\ after[1] = Apply(w, OptIn)
    <3>1. d = 1 /\ txns[1] = OptIn /\ 1 \in 1..Len(txns) /\ 1 - 1 = 0
      BY <1>6, <1>12, <1>d
    <3> QED BY <3>1, <1>8
  <2>2. PICK y \in Int, z \in Int : y = a - Fee /\ z = m + OptInMbr
    BY <1>3
  <2>3. Enough(y, z) /\ y >= z
    <3>1. (IF w.optedIn THEN 0 ELSE OptInMbr) = OptInMbr
      BY <1>12
    <3>2. CASE hops = 1
      <4>1. a - m - OptInMbr - Fee * 4 >= in
        BY <1>7, <2>1, <3>1, <3>2
      <4> QED BY <1>3, <2>2, <3>2, <4>1
    <3>3. CASE hops = 2
      <4>1. a - m - OptInMbr - Fee * 5 >= in
        BY <1>7, <2>1, <3>1, <3>3
      <4> QED BY <1>3, <2>2, <3>3, <4>1
    <3> QED BY <3>2, <3>3
  <2>4. Has(after[1], b, y, z)
    BY <1>1, <2>1, <2>2, <2>3, OptInBorne
  <2>5. PICK k \in 0..1 : k = d
    BY <2>1
  <2> HIDE DEF Enough, d
  <2> QED BY <1>10, <2>1, <2>3, <2>4, <2>5
<1> QED BY <1>11, <1>12 DEF txns, swap

-----------------------------------------------------------------------------
(* The flow.  What was chosen passes the policy; what is planned ends with  *)
(* its payment and executes on what the wallet held; and each signature at  *)
(* hand is over the transaction it is kept for, or over the whole group.    *)

IsChosen == chosen \in Offers /\ Allowed(chosen)

Kept(i) == {[kind |-> "all", over |-> WholeGroup], [kind |-> "one", over |-> Txn(i)]}

IsPlanned ==
  /\ group \in Seq(Transactions) /\ group # <<>>
  /\ group[Len(group)] = Payment(chosen.amount)
  /\ Len(group) > 1 => Executes(holds, group)
  /\ DOMAIN signed = 1..Len(group)
  /\ \A i \in 1..Len(group) : signed[i] \in Kept(i) \cup {None}

Asking == item = WholeGroup \/ \E i \in 1..Len(group) : item = Txn(i)

PayInv ==
  /\ tool # "pay" => stage = "resolve" /\ ~presented
  /\ stage = "fund" => IsChosen
  /\ stage \in {"sign", "asked", "single"} \/ presented => IsChosen /\ IsPlanned
  /\ stage = "asked" => Asking
  /\ presented => stage = "done" /\ \A i \in 1..Len(group) : signed[i] \in Kept(i)

\* It holds at first ...
LEMMA PayInitially == Init => PayInv
  BY DEF Init, PayInit, PayInv

\* A funding plan is one that stands.
LEMMA FundPlans ==
  ASSUME IsChosen, Fund, stage' = "sign"
  PROVE  IsPlanned'
<1>0. chosen.amount \in Nat /\ UNCHANGED chosen
  BY PayAssumption DEF IsChosen, Fund
<1>1. PICK w \in Wallets :
        /\ holds' = w
        /\ IF Direct(w, chosen.amount)
           THEN group' = <<Payment(chosen.amount)>> /\ signed' = <<None>>
           ELSE \E least \in {MinSwapLeg, 2 * MinSwapLeg + 1}, hops \in 1..2 :
                  LET out == QuoteFixedOutput(Shortfall(w, chosen.amount), least)
                      swap == Swap(WithSlippage(out), out, hops)
                      txns == FundedGroup(w, chosen.amount, swap)
                  IN /\ out # None /\ Affordable(w, txns, swap)
                     /\ group' = txns /\ signed' = [i \in DOMAIN txns |-> None]
  <2>1. ~Finish("error")
    BY DEF Finish
  <2> HIDE DEF Finish
  <2>2. PICK w \in Wallets :
          /\ holds' = w
          /\ Direct(w, chosen.amount) =>
               group' = <<Payment(chosen.amount)>> /\ signed' = <<None>>
          /\ ~Direct(w, chosen.amount) =>
               \E least \in {MinSwapLeg, 2 * MinSwapLeg + 1}, hops \in 1..2 :
                 LET out == QuoteFixedOutput(Shortfall(w, chosen.amount), least)
                     swap == Swap(WithSlippage(out), out, hops)
                     txns == FundedGroup(w, chosen.amount, swap)
                 IN /\ out # None /\ Affordable(w, txns, swap)
                    /\ group' = txns /\ signed' = [i \in DOMAIN txns |-> None]
    BY <2>1 DEF Fund
  <2> QED BY <2>2
<1>2. Payment(chosen.amount) \in Transactions
  BY <1>0, Kinds
<1>3. CASE Direct(w, chosen.amount)
  <2>1. group' = <<Payment(chosen.amount)>> /\ signed' = <<None>>
    BY <1>1, <1>3
  <2>2. /\ group' \in Seq(Transactions) /\ group' # <<>> /\ Len(group') = 1
        /\ group'[1] = Payment(chosen.amount)
        /\ DOMAIN signed' = 1..1 /\ signed'[1] = None
    BY <2>1, <1>2
  <2> QED BY <2>2, <1>0 DEF IsPlanned
<1>4. CASE ~Direct(w, chosen.amount)
  <2>0. PICK least \in {MinSwapLeg, 2 * MinSwapLeg + 1}, hops \in 1..2 :
          LET out == QuoteFixedOutput(Shortfall(w, chosen.amount), least)
              swap == Swap(WithSlippage(out), out, hops)
              txns == FundedGroup(w, chosen.amount, swap)
          IN /\ out # None /\ Affordable(w, txns, swap)
             /\ group' = txns /\ signed' = [i \in DOMAIN txns |-> None]
    BY <1>1, <1>4
  <2>1. PICK out, in, swap, txns :
          /\ out = QuoteFixedOutput(Shortfall(w, chosen.amount), least)
          /\ in = WithSlippage(out) /\ swap = Swap(in, out, hops)
          /\ txns = FundedGroup(w, chosen.amount, swap)
          /\ out # None /\ Affordable(w, txns, swap)
          /\ group' = txns /\ signed' = [i \in DOMAIN txns |-> None]
    BY <2>0
  <2>2. out \in Nat /\ out >= Shortfall(w, chosen.amount)
    <3>1. w.balance \in Nat /\ least \in Nat
      BY PayAssumption
    <3>2. Shortfall(w, chosen.amount) \in Int
      BY <1>0, <3>1 DEF Shortfall
    <3> QED BY <2>1, <3>1, <3>2, QuoteCovers
  <2>3. in \in Nat
    <3>1. SlippagePct \in Nat
      BY PayAssumption
    <3>2. PICK s \in Nat : s = out * SlippagePct
      BY <2>2, <3>1
    <3>3. (s + 99) \div 100 \in Nat
      OBVIOUS
    <3> QED BY <2>1, <2>2, <3>2, <3>3 DEF WithSlippage
  <2>4. Executes(w, txns)
    BY <1>0, <1>4, <2>1, <2>2, <2>3, FundedGroupExecutes
  <2>5. IsGroup(txns, OptIns(w), chosen.amount, in, out, hops)
    BY <1>0, <2>1, <2>2, <2>3, GroupShape
  <2>6. txns \in Seq(Transactions) /\ txns # <<>> /\ txns[Len(txns)] = Payment(chosen.amount)
    <3>1. PICK d \in 0..1 : d = OptIns(w)
      BY DEF OptIns
    <3>2. Len(txns) = d + hops + 2
      BY <2>5, <3>1 DEF IsGroup
    <3>3. txns \in Seq(Transactions) /\ txns[Len(txns)] = Payment(chosen.amount)
      BY <2>5, <3>1, <3>2 DEF IsGroup
    <3>4. Len(txns) # 0
      BY <3>1, <3>2
    <3>5. txns # <<>>
      BY <3>4
    <3> QED BY <3>3, <3>5
  <2>7. DOMAIN txns = 1..Len(txns)
    BY <2>6
  <2> QED BY <1>0, <1>1, <2>1, <2>4, <2>6, <2>7 DEF IsPlanned
<1> QED BY <1>3, <1>4

\* The wallet's reply is kept only for what it was asked for.
LEMMA ReplyIsKept ==
  ASSUME IsChosen, IsPlanned, Asking, WalletReplied
  PROVE  IsPlanned' /\ UNCHANGED <<chosen, group, presented>> /\ stage' \in {"single", "done"}
<1>0. UNCHANGED <<chosen, holds, group, presented>> /\ stage' \in {"single", "done"}
  BY DEF WalletReplied, Finish
<1>1. CASE UNCHANGED signed
  BY <1>0, <1>1 DEF IsPlanned
<1>2. CASE signed' # signed
  <2> DEFINE idx == IF item = WholeGroup THEN DOMAIN signed ELSE {item.what}
  <2>1. reply = Expected(item) /\ Sign(idx, reply)
    BY <1>2 DEF WalletReplied
  <2>2. ASSUME NEW i \in 1..Len(group), i \in idx
        PROVE  [kind |-> reply, over |-> item] \in Kept(i)
    <3>1. CASE item = WholeGroup
      <4>1. reply = "all"
        BY <2>1, <3>1 DEF Expected, WholeGroup
      <4> QED BY <3>1, <4>1 DEF Kept
    <3>2. CASE item # WholeGroup
      <4>1. PICK j \in 1..Len(group) : item = Txn(j)
        BY <3>2 DEF Asking
      <4>2. item.what = j /\ reply = "one"
        BY <2>1, <4>1 DEF Expected, Txn
      <4>3. i = j
        BY <2>2, <3>2, <4>2
      <4> QED BY <4>1, <4>2, <4>3 DEF Kept
    <3> QED BY <3>1, <3>2
  <2>3. /\ DOMAIN signed' = 1..Len(group)
        /\ \A i \in 1..Len(group) :
             signed'[i] = IF i \in idx THEN [kind |-> reply, over |-> item] ELSE signed[i]
    <3> HIDE DEF idx
    <3> QED BY <2>1 DEF Sign, IsPlanned
  <2>4. \A i \in 1..Len(group) : signed'[i] \in Kept(i) \cup {None}
    <3> HIDE DEF idx
    <3> QED BY <2>2, <2>3 DEF IsPlanned
  <2> QED BY <1>0, <2>3, <2>4 DEF IsPlanned, Kept
<1> QED BY <1>0, <1>1, <1>2

\* ... and every step keeps it.
LEMMA PayKeeps == PayInv /\ [Next]_vars => PayInv'
<1> SUFFICES ASSUME PayInv, [Next]_vars PROVE PayInv'
  OBVIOUS
<1>1. CASE UNCHANGED <<payVars, item, tool>>
  BY <1>1 DEF payVars, PayInv, IsChosen, IsPlanned, Asking, Kept
<1>2. CASE tool # "pay" /\ UNCHANGED <<payVars, tool>>
  BY <1>2 DEF payVars, PayInv
<1>3. CASE Relay \/ UNCHANGED vars
  <2>1. UNCHANGED <<payVars, item, tool>>
    BY <1>3 DEF vars, Relay, RelayNext, RelayWork, relayVars, callVars, Attempt, Answered,
       BackstopFires, Read, WalletTimesOut, Tick, WalletAnswers, LinkDrops, LinkCloses, Relinks,
       Wedges, Dies, Restarts, Settle
  <2> QED BY <2>1, <1>1
<1>4. CASE SignPayload \/ SignReplied \/ Git
  BY <1>2, <1>4 DEF SignPayload, SignReplied, Git
<1>5. CASE Pay
  <2>0. tool = "pay" /\ tool' = "pay" /\ PayNext
    BY <1>5 DEF Pay
  <2>1. CASE Resolve
    BY <2>0, <2>1 DEF Resolve, Finish, PayInv
  <2>2. CASE Fetch
    <3>1. CASE stage' = "done"
      BY <2>0, <2>2, <3>1 DEF Fetch, Finish, PayInv
    <3>2. CASE stage' # "done"
      <4>0. PICK n \in 1..2 : \E offers \in [1..n -> Offers] :
              chosen' = SelectRequirements(offers) /\ chosen' # None /\ stage' = "fund"
        BY <2>2, <3>2 DEF Fetch, Finish
      <4>1. PICK offers \in [1..n -> Offers] :
              chosen' = SelectRequirements(offers) /\ chosen' # None /\ stage' = "fund"
        BY <4>0
      <4>2. IsChosen'
        BY <4>1, SelectedIsAllowed DEF IsChosen, Allowed
      <4> QED BY <2>0, <2>2, <4>1, <4>2 DEF Fetch, PayInv
    <3> QED BY <3>1, <3>2
  <2>3. CASE Fund
    <3>1. IsChosen /\ UNCHANGED <<chosen, presented>> /\ ~presented /\ stage' \in {"sign", "done"}
      BY <2>3 DEF Fund, Finish, PayInv
    <3>2. IsChosen'
      BY <3>1 DEF IsChosen, Allowed
    <3>3. stage' = "sign" => IsPlanned'
      BY <2>3, <3>1, FundPlans
    <3> QED BY <2>0, <3>1, <3>2, <3>3 DEF PayInv
  <2>4. CASE AskGroup \/ AskTxn
    <3>1. /\ UNCHANGED <<chosen, holds, group, signed, presented>> /\ stage' = "asked"
          /\ IsChosen /\ IsPlanned /\ ~presented
      BY <2>4 DEF AskGroup, AskTxn, PayInv
    <3>2. IsChosen' /\ IsPlanned'
      BY <3>1 DEF IsChosen, Allowed, IsPlanned, Kept
    <3>3. Asking'
      <4>1. CASE AskGroup
        BY <4>1 DEF AskGroup, Ask, Asking
      <4>2. CASE AskTxn
        <5>1. item' = Txn(NextUnsigned) /\ Unsigned # {}
          BY <4>2 DEF AskTxn, Ask
        <5>2. Unsigned \in SUBSET (1..Len(group)) /\ Len(group) \in Nat
          BY <3>1 DEF Unsigned, IsPlanned
        <5>3. Unsigned \in SUBSET Nat
          BY <5>2
        <5>4. NextUnsigned \in Unsigned
          BY <5>1, <5>3, LeastExists DEF NextUnsigned
        <5> QED BY <5>1, <5>2, <5>4, <3>1 DEF Asking
      <4> QED BY <2>4, <4>1, <4>2
    <3> QED BY <2>0, <3>1, <3>2, <3>3 DEF PayInv
  <2>5. CASE WalletReplied
    <3>1. IsChosen /\ IsPlanned /\ Asking /\ ~presented
      BY <2>5 DEF WalletReplied, PayInv
    <3>2. IsPlanned' /\ UNCHANGED <<chosen, group, presented>> /\ stage' \in {"single", "done"}
      BY <2>5, <3>1, ReplyIsKept
    <3>3. IsChosen'
      BY <3>1, <3>2 DEF IsChosen, Allowed
    <3> QED BY <2>0, <3>1, <3>2, <3>3 DEF PayInv
  <2>6. CASE Present
    <3>1. /\ IsChosen /\ IsPlanned /\ Unsigned = {} /\ stage' = "done"
          /\ UNCHANGED <<chosen, holds, group, signed>>
      BY <2>6 DEF Present, Finish, PayInv
    <3>2. IsChosen' /\ IsPlanned'
      BY <3>1 DEF IsChosen, Allowed, IsPlanned, Kept
    <3>3. \A i \in 1..Len(group) : signed[i] \in Kept(i)
      BY <3>1 DEF Unsigned, IsPlanned
    <3>4. \A i \in 1..Len(group') : signed'[i] \in Kept(i)
      BY <3>1, <3>3
    <3> QED BY <2>0, <3>1, <3>2, <3>4 DEF PayInv, Kept
  <2> QED BY <2>0, <2>1, <2>2, <2>3, <2>4, <2>5, <2>6 DEF PayNext
<1> QED BY <1>3, <1>4, <1>5 DEF Next

\* Whatever the server offers, the wallet holds and the pool quotes, for any
\* fees, reserves, slippage and preferences: the wallet is shown no swap group
\* that its chain state would refuse, and what is put before the server is
\* within the policy, has the payment last, and is signed transaction by
\* transaction by requests that covered them.
THEOREM PaymentStands == Spec => []GroupStands
<1>1. Init => PayInv
  BY PayInitially
<1>2. PayInv /\ [Next]_vars => PayInv'
  BY PayKeeps
<1>3. PayInv => GroupStands
  <2> SUFFICES ASSUME PayInv PROVE GroupStands
    OBVIOUS
  <2>1. stage = "asked" /\ Len(group) > 1 => Executes(holds, group)
    BY DEF PayInv, IsPlanned
  <2>2. ASSUME presented
        PROVE  /\ Allowed(chosen) /\ group[Len(group)] = Payment(chosen.amount)
               /\ \A i \in DOMAIN group : signed[i] \in Kept(i)
    <3>1. IsChosen /\ IsPlanned /\ \A i \in 1..Len(group) : signed[i] \in Kept(i)
      BY <2>2 DEF PayInv
    <3>2. DOMAIN group = 1..Len(group)
      BY <3>1 DEF IsPlanned
    <3> QED BY <3>1, <3>2 DEF IsChosen, IsPlanned
  <2> QED BY <2>1, <2>2 DEF GroupStands, Kept
<1> QED BY <1>1, <1>2, <1>3, PTL DEF Spec

-----------------------------------------------------------------------------
(* The commit graph.  A commit's history is the least set of objects that   *)
(* holds it and, with an object, its parents.                               *)

Vertices == All \X {0, 1}

\* How far a commit is from the root, at most.
Rank(c) ==
  LET rank == CHOOSE r \in [Commits \cup {Root} -> 0..Cardinality(Commits)] :
                \A d \in Commits : \A p \in Parents[d] : r[p] < r[d]
  IN IF c = Extra THEN Cardinality(Commits) + 1 ELSE rank[c]

\* Every object lies above its parents, and those of an original are originals.
IsGraph(objs) ==
  /\ objs \in [Vertices -> [parents : SUBSET Vertices, sig : Signers]]
  /\ \A o \in Vertices : \A p \in objs[o].parents : Rank(p[1]) < Rank(o[1])
  /\ \A c \in All : objs[Obj(c)].parents \subseteq {Obj(d) : d \in All}

Closed(T, objs) == \A o \in T : objs[o].parents \subseteq T

IsHistory(H, objs) ==
  /\ H \in [Vertices -> SUBSET Vertices]
  /\ \A o \in Vertices :
       /\ o \in H[o] /\ Closed(H[o], objs)
       /\ \A T \in SUBSET Vertices : Closed(T, objs) /\ o \in T => H[o] \subseteq T

\* W[n][o] is what can be reached from o in n steps.
Reaches(W, objs, N) ==
  /\ W \in [0..N -> [Vertices -> SUBSET Vertices]]
  /\ \A o \in Vertices : W[0][o] = {o}
  /\ \A n \in 1..N : \A o \in Vertices :
       W[n][o] = {o} \cup UNION {W[n - 1][p] : p \in objs[o].parents}

\* Ranks are numbers, a commit's above its parents', and none above the extra's.
LEMMA Ranks ==
  /\ Cardinality(All) \in Nat
  /\ \A c \in All : Rank(c) \in 0..Cardinality(All)
  /\ \A c \in All \ {Extra} : Rank(c) < Rank(Extra)
  /\ \A c \in Commits : \A p \in Parents[c] : Rank(p) < Rank(c)
<1> DEFINE K == Cardinality(Commits)
           Ranked(r) == \A d \in Commits : \A p \in Parents[d] : r[p] < r[d]
           rank == CHOOSE r \in [Commits \cup {Root} -> 0..K] : Ranked(r)
<1>1. K \in Nat
  BY GitAssumption, FS_CardinalityType
<1>2. rank \in [Commits \cup {Root} -> 0..K] /\ Ranked(rank)
  <2>1. \E r \in [Commits \cup {Root} -> 0..K] : Ranked(r)
    BY GitAssumption
  <2> HIDE DEF K, Ranked
  <2> QED BY <2>1
<1>3. \A c \in Commits \cup {Root} : Rank(c) = rank[c]
  BY GitAssumption DEF Rank
<1>4. Rank(Extra) = K + 1
  BY DEF Rank
<1>5. Cardinality(All) \in Nat /\ K + 1 <= Cardinality(All)
  <2>1. IsFiniteSet(Commits \cup {Extra}) /\ Cardinality(Commits \cup {Extra}) = K + 1
    BY GitAssumption, FS_AddElement
  <2>2. All = (Commits \cup {Extra}) \cup {Root}
    BY DEF All
  <2>3. IsFiniteSet(All)
    BY <2>1, <2>2, FS_AddElement
  <2> QED BY <2>1, <2>2, <2>3, FS_CardinalityType, FS_Subset
<1>6. All = (Commits \cup {Root}) \cup {Extra} /\ Extra \notin Commits \cup {Root}
  BY GitAssumption DEF All
<1>7. \A c \in Commits : \A p \in Parents[c] : p \in Commits \cup {Root}
  BY GitAssumption
<1>8. /\ \A c \in Commits \cup {Root} : rank[c] \in 0..K
      /\ \A d \in Commits : \A p \in Parents[d] : rank[p] < rank[d]
  BY <1>2
<1> HIDE DEF K, rank
<1>9. \A c \in Commits \cup {Root} : Rank(c) \in 0..K
  BY <1>3, <1>8
<1>10. \A c \in All : c = Extra \/ c \in Commits \cup {Root}
  BY <1>6
<1>11. \A c \in Commits : \A p \in Parents[c] : Rank(p) < Rank(c)
  BY <1>3, <1>7, <1>8
<1>12. \A i \in 0..K : i < K + 1 /\ i \in 0..Cardinality(All)
  BY <1>1, <1>5
<1>13. K + 1 \in 0..Cardinality(All)
  BY <1>1, <1>5
<1> QED BY <1>4, <1>5, <1>9, <1>10, <1>11, <1>12, <1>13

\* The equation that Within solves.
Unfolds(f, objs, N) ==
  f = [n \in 0..N |-> [o \in All \X {0, 1} |->
        {o} \cup IF n = 0 THEN {} ELSE UNION {f[n - 1][p] : p \in objs[o].parents}]]

\* It has a solution, and its solutions are the reach ...
LEMMA ReachExists ==
  ASSUME NEW objs, IsGraph(objs), NEW N \in Nat
  PROVE  /\ \E f : Unfolds(f, objs, N)
         /\ \A g : Unfolds(g, objs, N) => Reaches(g, objs, N)
<1> DEFINE V == [Vertices -> SUBSET Vertices]
           a == [o \in Vertices |-> {o}]
           h(v) == [o \in Vertices |-> {o} \cup UNION {v[p] : p \in objs[o].parents}]
           H == [n \in 1..N |-> [v \in V |-> h(v)]]
<1>1. \A o \in Vertices : objs[o].parents \subseteq Vertices
  BY DEF IsGraph
<1>2. a \in V /\ \A v \in V : h(v) \in V
  BY <1>1
<1>3. Steps(H, N, V)
  <2> HIDE DEF V, h
  <2> QED BY <1>2 DEF Steps
<1>4. PICK f : Follows(f, a, H, N, V)
  <2> HIDE DEF V, H, a
  <2> QED BY <1>2, <1>3, RecursionExists
<1>5. f \in [0..N -> V] /\ f[0] = a /\ \A n \in 1..N : f[n] = h(f[n - 1])
  <2>1. f \in [0..N -> V] /\ f[0] = a /\ \A n \in 1..N : f[n] = H[n][f[n - 1]]
    BY <1>4 DEF Follows
  <2>2. \A n \in 1..N : n - 1 \in 0..N
    OBVIOUS
  <2> HIDE DEF V, h
  <2> QED BY <2>1, <2>2
<1>6. Unfolds(f, objs, N)
  <2>1. ASSUME NEW n \in 0..N
        PROVE  f[n] = [o \in All \X {0, 1} |->
                 {o} \cup IF n = 0 THEN {} ELSE UNION {f[n - 1][p] : p \in objs[o].parents}]
    <3>1. CASE n = 0
      BY <3>1, <1>5 DEF Vertices
    <3>2. CASE n # 0
      <4>1. n \in 1..N
        BY <3>2
      <4>2. f[n] = h(f[n - 1])
        BY <4>1, <1>5
      <4> QED BY <4>2, <3>2 DEF Vertices
    <3> QED BY <3>1, <3>2
  <2>2. f = [n \in 0..N |-> f[n]]
    BY <1>5
  <2> QED BY <2>1, <2>2 DEF Unfolds
<1>7. ASSUME NEW g, Unfolds(g, objs, N) PROVE Reaches(g, objs, N)
  <2>0. \A n \in 0..N : g[n] = [o \in Vertices |->
          {o} \cup IF n = 0 THEN {} ELSE UNION {g[n - 1][p] : p \in objs[o].parents}]
    BY <1>7 DEF Vertices, Unfolds
  <2>1. \A o \in Vertices : g[0][o] = {o}
    <3>1. 0 \in 0..N
      OBVIOUS
    <3>2. g[0] = [o \in Vertices |-> {o} \cup {}]
      BY <3>1, <2>0
    <3> QED BY <3>2
  <2>2. ASSUME NEW n \in 1..N, NEW o \in Vertices
        PROVE  g[n][o] = {o} \cup UNION {g[n - 1][p] : p \in objs[o].parents}
    <3>1. n \in 0..N /\ n # 0
      OBVIOUS
    <3>2. g[n] = [q \in Vertices |-> {q} \cup UNION {g[n - 1][p] : p \in objs[q].parents}]
      BY <3>1, <2>0
    <3> QED BY <3>2
  <2>3. g \in [0..N -> V]
    <3> DEFINE S == {n \in Nat : n <= N => g[n] \in V}
    <3>1. \A n \in 0..N : g[n] = [o \in Vertices |-> g[n][o]]
      BY <2>0
    <3>2. 0 \in S
      <4>1. 0 \in 0..N /\ \A o \in Vertices : g[0][o] \in SUBSET Vertices
        BY <2>1
      <4>2. g[0] = [o \in Vertices |-> g[0][o]]
        BY <3>1, <4>1
      <4>3. g[0] \in V
        BY <4>1, <4>2
      <4> QED BY <4>3
    <3>3. ASSUME NEW n \in S PROVE n + 1 \in S
      <4>1. ASSUME n + 1 <= N PROVE g[n + 1] \in V
        <5>1. n + 1 \in 1..N /\ n + 1 \in 0..N /\ n + 1 - 1 = n /\ g[n] \in V
          BY <4>1
        <5>2. \A o \in Vertices : g[n + 1][o] = {o} \cup UNION {g[n][p] : p \in objs[o].parents}
          BY <5>1, <2>2
        <5>3. \A o \in Vertices : g[n + 1][o] \in SUBSET Vertices
          BY <5>1, <5>2, <1>1
        <5> QED BY <5>1, <5>3, <3>1
      <4> QED BY <4>1
    <3>4. S = Nat
      <4>1. S \in SUBSET Nat
        OBVIOUS
      <4> HIDE DEF S
      <4> QED BY <3>2, <3>3, <4>1, Below
    <3>5. \A n \in 0..N : g[n] \in V
      BY <3>4
    <3>6. g = [n \in 0..N |-> g[n]]
      BY <1>7 DEF Unfolds
    <3> HIDE DEF V
    <3> QED BY <3>5, <3>6
  <2> QED BY <2>1, <2>2, <2>3 DEF Reaches
<1> HIDE DEF h, H, a
<1> QED BY <1>6, <1>7

\* ... and, with steps enough, it is the history.
LEMMA ReachIsHistory ==
  ASSUME NEW objs, IsGraph(objs), NEW W, Reaches(W, objs, Cardinality(All))
  PROVE  IsHistory(W[Cardinality(All)], objs)
<1> DEFINE N == Cardinality(All)
<1>1. N \in Nat /\ \A c \in All : Rank(c) \in 0..N
  BY Ranks
<1> HIDE DEF N
<1>2. /\ W \in [0..N -> [Vertices -> SUBSET Vertices]]
      /\ \A o \in Vertices : W[0][o] = {o}
      /\ \A n \in 1..N : \A o \in Vertices :
           W[n][o] = {o} \cup UNION {W[n - 1][p] : p \in objs[o].parents}
  BY DEF Reaches, N
<1>3. \A o \in Vertices : o[1] \in All /\ Rank(o[1]) \in 0..N
  BY <1>1 DEF Vertices
<1>4. /\ \A o \in Vertices : objs[o].parents \subseteq Vertices
      /\ \A o \in Vertices : \A p \in objs[o].parents : Rank(p[1]) < Rank(o[1])
  BY DEF IsGraph
<1>5. \A n \in 0..N : \A o \in Vertices : o \in W[n][o]
  <2>1. ASSUME NEW n \in 0..N, NEW o \in Vertices PROVE o \in W[n][o]
    <3>1. CASE n = 0
      BY <3>1, <1>2
    <3>2. CASE n # 0
      <4>1. n \in 1..N
        BY <3>2
      <4> QED BY <4>1, <1>2
    <3> QED BY <3>1, <3>2
  <2> QED BY <2>1
<1>6. \A o \in Vertices : Closed(W[N][o], objs)
  <2> DEFINE S == {n \in Nat : n <= N =>
                     \A o \in Vertices : Rank(o[1]) <= n => Closed(W[n][o], objs)}
  <2>1. 0 \in S
    <3>1. ASSUME NEW o \in Vertices, Rank(o[1]) <= 0 PROVE Closed(W[0][o], objs)
      <4>1. \A p \in objs[o].parents : FALSE
        BY <3>1, <1>3, <1>4
      <4> QED BY <4>1, <1>2 DEF Closed
    <3> QED BY <3>1
  <2>2. ASSUME NEW n \in S PROVE n + 1 \in S
    <3>1. ASSUME n + 1 <= N, NEW o \in Vertices, Rank(o[1]) <= n + 1
          PROVE  Closed(W[n + 1][o], objs)
      <4>1. n \in Nat /\ n \in 0..N /\ n + 1 \in 1..N /\ n + 1 - 1 = n
        BY <3>1, <1>1
      <4>2. W[n + 1][o] = {o} \cup UNION {W[n][p] : p \in objs[o].parents}
        BY <4>1, <1>2
      <4>3. ASSUME NEW p \in objs[o].parents
            PROVE  p \in W[n][p] /\ Closed(W[n][p], objs)
        <5>1. p \in Vertices /\ Rank(p[1]) <= n
          BY <3>1, <4>1, <1>3, <1>4
        <5> QED BY <5>1, <4>1, <1>5
      <4>4. ASSUME NEW q \in W[n + 1][o] PROVE objs[q].parents \subseteq W[n + 1][o]
        <5>1. CASE q = o
          BY <5>1, <4>2, <4>3
        <5>2. CASE q # o
          <6>1. PICK p \in objs[o].parents : q \in W[n][p]
            BY <5>2, <4>2, <4>4
          <6>2. objs[q].parents \subseteq W[n][p]
            BY <6>1, <4>3 DEF Closed
          <6> QED BY <6>2, <4>2
        <5> QED BY <5>1, <5>2
      <4> QED BY <4>4 DEF Closed
    <3> QED BY <3>1
  <2>3. S = Nat
    <3>1. S \in SUBSET Nat
      OBVIOUS
    <3> HIDE DEF S
    <3> QED BY <2>1, <2>2, <3>1, Below
  <2>4. \A o \in Vertices : Rank(o[1]) <= N => Closed(W[N][o], objs)
    BY <2>3, <1>1
  <2> QED BY <2>4, <1>3, <1>1
<1>7. ASSUME NEW T \in SUBSET Vertices, Closed(T, objs)
      PROVE  \A o \in T : W[N][o] \subseteq T
  <2> DEFINE S == {n \in Nat : n <= N => \A o \in T : W[n][o] \subseteq T}
  <2>1. 0 \in S
    BY <1>2
  <2>2. ASSUME NEW n \in S PROVE n + 1 \in S
    <3>1. ASSUME n + 1 <= N, NEW o \in T PROVE W[n + 1][o] \subseteq T
      <4>1. n \in Nat /\ n <= N /\ n + 1 \in 1..N /\ n + 1 - 1 = n
        BY <3>1, <1>1
      <4>2. W[n + 1][o] = {o} \cup UNION {W[n][p] : p \in objs[o].parents}
        BY <4>1, <1>2
      <4>3. \A p \in objs[o].parents : W[n][p] \subseteq T
        BY <4>1, <1>7 DEF Closed
      <4> QED BY <4>2, <4>3
    <3> QED BY <3>1
  <2>3. S = Nat
    <3>1. S \in SUBSET Nat
      OBVIOUS
    <3> HIDE DEF S
    <3> QED BY <2>1, <2>2, <3>1, Below
  <2> QED BY <2>3, <1>1
<1>8. W[N] \in [Vertices -> SUBSET Vertices] /\ \A o \in Vertices : o \in W[N][o]
  BY <1>1, <1>2, <1>5
<1> QED BY <1>6, <1>7, <1>8 DEF IsHistory, N

\* Histories, now and after a step.
LEMMA HistoryIs ==
  /\ IsGraph(objects) => IsHistory(Within[Cardinality(All)], objects)
  /\ IsGraph(objects') => IsHistory(Within'[Cardinality(All)], objects')
<1> DEFINE N == Cardinality(All)
<1>1. N \in Nat
  BY Ranks
<1>2. ASSUME IsGraph(objects) PROVE Reaches(Within, objects, N)
  <2>1. Within = CHOOSE f : Unfolds(f, objects, N)
    BY DEF Within, Unfolds
  <2> QED BY <1>1, <1>2, <2>1, ReachExists
<1>3. ASSUME IsGraph(objects') PROVE Reaches(Within', objects', N)
  <2>1. Within' = CHOOSE f : Unfolds(f, objects', N)
    BY DEF Within, Unfolds
  <2> QED BY <1>1, <1>3, <2>1, ReachExists
<1> QED BY <1>2, <1>3, ReachIsHistory

-----------------------------------------------------------------------------
(* What a range that is partly rewritten looks like, and its history.       *)

Becomes(c) == IF c \in mapping THEN Rewritten(c) ELSE Obj(c)

\* X holds a commit's parents with the commit, and what is rewritten has its
\* parents rewritten, while what is not has none that are.
IsRewritten(X) ==
  /\ X \in SUBSET All
  /\ \A c \in X : objects[Obj(c)].parents \subseteq {Obj(d) : d \in X}
  /\ \A c \in X : objects[Becomes(c)].parents = {Becomes(d) : d \in Held(objects[Obj(c)].parents)}

\* The two versions of a commit are objects of their own.
LEMMA Pairs ==
  /\ \A c \in All : Obj(c) \in Vertices /\ Rewritten(c) \in Vertices
  /\ \A c : Obj(c)[1] = c /\ Rewritten(c)[1] = c /\ Becomes(c)[1] = c
  /\ \A c, d : Obj(c) # Rewritten(d)
  /\ \A c \in All : Becomes(c) \in Vertices
BY DEF Obj, Rewritten, Vertices, Becomes

\* The commits held by originals are these, and no others.
LEMMA HeldByOriginals ==
  ASSUME NEW S, NEW os \in SUBSET {Obj(d) : d \in S}
  PROVE  /\ Held(os) \subseteq S
         /\ \A d : d \in Held(os) <=> Obj(d) \in os
<1>1. \A o \in os : \E d \in S : o = Obj(d) /\ o[1] = d
  BY Pairs
<1> QED BY <1>1, Pairs DEF Held

\* The history of what a commit became is what became of its history.
LEMMA HistoryBecomes ==
  ASSUME IsGraph(objects), NEW X, IsRewritten(X), NEW t \in X
  PROVE  LET held == Held(History(Obj(t)))
         IN /\ held \subseteq X /\ t \in held
            /\ History(Obj(t)) = {Obj(d) : d \in held}
            /\ History(Becomes(t)) = {Becomes(d) : d \in held}
<1> DEFINE H == Within[Cardinality(All)]
           old == H[Obj(t)]
           held == Held(old)
           new == H[Becomes(t)]
<1>1. IsHistory(H, objects)
  BY HistoryIs
<1>2. History(Obj(t)) = old /\ History(Becomes(t)) = new
  BY DEF History
<1> HIDE DEF H
<1>3. t \in All /\ Obj(t) \in Vertices /\ Becomes(t) \in Vertices
  BY Pairs DEF IsRewritten
<1>4. /\ Obj(t) \in old /\ Closed(old, objects) /\ old \subseteq Vertices
      /\ Becomes(t) \in new /\ Closed(new, objects) /\ new \subseteq Vertices
      /\ \A T \in SUBSET Vertices : Closed(T, objects) =>
           (Obj(t) \in T => old \subseteq T) /\ (Becomes(t) \in T => new \subseteq T)
  BY <1>1, <1>3 DEF IsHistory
<1> HIDE DEF old, new
<1>5. old \subseteq {Obj(d) : d \in X}
  <2> DEFINE T == {Obj(d) : d \in X}
  <2>1. T \in SUBSET Vertices /\ Closed(T, objects) /\ Obj(t) \in T
    BY Pairs DEF IsRewritten, Closed
  <2>2. old \subseteq T
    <3> HIDE DEF T
    <3> QED BY <1>4, <2>1
  <2> QED BY <2>2
<1>6. held \subseteq X /\ \A d : d \in held <=> Obj(d) \in old
  BY <1>5, HeldByOriginals
<1>7. old = {Obj(d) : d \in held}
  BY <1>5, <1>6
<1> HIDE DEF held
<1>8. ASSUME NEW c \in X, NEW d
      PROVE  d \in Held(objects[Obj(c)].parents) <=> Obj(d) \in objects[Obj(c)].parents
  BY <1>8, HeldByOriginals DEF IsRewritten
<1>9. new \subseteq {Becomes(d) : d \in held}
  <2> DEFINE T == {Becomes(d) : d \in held}
  <2>1. T \in SUBSET Vertices
    BY <1>6, Pairs DEF IsRewritten
  <2>2. Becomes(t) \in T
    BY <1>4, <1>6
  <2>3. ASSUME NEW c \in held PROVE objects[Becomes(c)].parents \subseteq T
    <3>1. c \in X /\ Obj(c) \in old
      BY <1>6
    <3>2. \A d \in Held(objects[Obj(c)].parents) : d \in held
      BY <3>1, <1>4, <1>6, <1>8 DEF Closed
    <3> QED BY <3>1, <3>2 DEF IsRewritten
  <2>4. Closed(T, objects)
    BY <2>3 DEF Closed
  <2>5. new \subseteq T
    <3> HIDE DEF T
    <3> QED BY <1>4, <2>1, <2>2, <2>4
  <2> QED BY <2>5
<1>10. \A d \in held : Becomes(d) \in new
  <2> DEFINE T == {Obj(d) : d \in {e \in X : Becomes(e) \in new}}
  <2>1. T \in SUBSET Vertices
    BY Pairs DEF IsRewritten
  <2>2. Obj(t) \in T
    BY <1>4
  <2>3. ASSUME NEW c \in X, Becomes(c) \in new PROVE objects[Obj(c)].parents \subseteq T
    <3>1. ASSUME NEW p \in objects[Obj(c)].parents PROVE p \in T
      <4>1. PICK d \in X : p = Obj(d)
        BY <3>1 DEF IsRewritten
      <4>2. Becomes(d) \in objects[Becomes(c)].parents
        BY <4>1, <1>8 DEF IsRewritten
      <4>3. Becomes(d) \in new
        BY <4>2, <2>3, <1>4 DEF Closed
      <4> QED BY <4>1, <4>3
    <3> QED BY <3>1
  <2>4. Closed(T, objects)
    BY <2>3 DEF Closed
  <2>5. old \subseteq T
    <3> HIDE DEF T
    <3> QED BY <1>4, <2>1, <2>2, <2>4
  <2>6. ASSUME NEW d \in held PROVE Becomes(d) \in new
    <3>1. PICK e \in X : Becomes(e) \in new /\ Obj(e) = Obj(d)
      BY <1>6, <2>5
    <3>2. e = d
      BY <3>1, Pairs
    <3> QED BY <3>1, <3>2
  <2> QED BY <2>6
<1>11. new = {Becomes(d) : d \in held}
  BY <1>9, <1>10
<1>12. t \in held
  BY <1>4, <1>6
<1> QED BY <1>2, <1>6, <1>7, <1>11, <1>12 DEF held

\* No commit is lost or doubled by it.
LEMMA HistoryIsKept ==
  ASSUME IsGraph(objects), NEW X, IsRewritten(X), NEW t \in X
  PROVE  /\ Held(History(Becomes(t))) = Held(History(Obj(t)))
         /\ Cardinality(History(Becomes(t))) = Cardinality(History(Obj(t)))
<1>1. PICK held, old, new :
        /\ held = Held(History(Obj(t))) /\ old = History(Obj(t)) /\ new = History(Becomes(t))
        /\ held \subseteq X /\ old = {Obj(d) : d \in held} /\ new = {Becomes(d) : d \in held}
  BY HistoryBecomes
<1>2. Held(new) = held
  <2>1. ASSUME NEW c \in held PROVE c \in Held(new)
    <3>1. PICK o \in new : o = Becomes(c)
      BY <1>1
    <3>2. o[1] = c
      BY <3>1, Pairs
    <3> QED BY <3>2 DEF Held
  <2>2. ASSUME NEW c \in Held(new) PROVE c \in held
    <3>1. PICK o \in new : c = o[1]
      BY DEF Held
    <3>2. PICK d \in held : o = Becomes(d)
      BY <1>1
    <3> QED BY <3>1, <3>2, Pairs
  <2> QED BY <2>1, <2>2
<1>3. IsFiniteSet(held)
  <2>1. IsFiniteSet(All)
    BY GitAssumption, FS_AddElement DEF All
  <2>2. held \in SUBSET All
    BY <1>1 DEF IsRewritten
  <2> QED BY <2>1, <2>2, FS_Subset
<1>4. ExistsBijection(held, old)
  <2> DEFINE f == [d \in held |-> Obj(d)]
  <2>1. f \in [held -> old] /\ \A d, e \in held : f[d] = f[e] => d = e
    <3>1. \A d, e : Obj(d) = Obj(e) => d = e
      BY Pairs
    <3> QED BY <1>1, <3>1
  <2>2. \A o \in old : \E d \in held : f[d] = o
    BY <1>1
  <2>3. f \in Bijection(held, old)
    <3> HIDE DEF f
    <3> QED BY <2>1, <2>2 DEF Bijection, Injection, IsInjective, Surjection
  <2> QED BY <2>3 DEF ExistsBijection
<1>5. ExistsBijection(held, new)
  <2> DEFINE f == [d \in held |-> Becomes(d)]
  <2>1. f \in [held -> new] /\ \A d, e \in held : f[d] = f[e] => d = e
    <3>1. \A d, e : Becomes(d) = Becomes(e) => d = e
      BY Pairs
    <3> QED BY <1>1, <3>1
  <2>2. \A o \in new : \E d \in held : f[d] = o
    BY <1>1
  <2>3. f \in Bijection(held, new)
    <3> HIDE DEF f
    <3> QED BY <2>1, <2>2 DEF Bijection, Injection, IsInjective, Surjection
  <2> QED BY <2>3 DEF ExistsBijection
<1> QED BY <1>1, <1>2, <1>3, <1>4, <1>5, FS_Bijection

\* Originals that gain parents keep their history.
LEMMA HistoryGrows ==
  ASSUME IsGraph(objects), IsGraph(objects'),
         \A c \in All : objects[Obj(c)].parents \subseteq objects'[Obj(c)].parents,
         NEW c \in All
  PROVE  Held(History(Obj(c))) \subseteq Held(History(Obj(c))')
<1> DEFINE H == Within[Cardinality(All)]
           G == Within'[Cardinality(All)]
           T == G[Obj(c)] \cap {Obj(d) : d \in All}
<1>1. IsHistory(H, objects) /\ IsHistory(G, objects')
  BY HistoryIs
<1>2. History(Obj(c)) = H[Obj(c)] /\ History(Obj(c))' = G[Obj(c)]
  BY DEF History, Obj
<1> HIDE DEF H, G
<1>3. T \in SUBSET Vertices /\ Obj(c) \in T
  BY <1>1, Pairs DEF IsHistory
<1>4. Closed(T, objects)
  <2>1. Closed(G[Obj(c)], objects')
    BY <1>1, Pairs DEF IsHistory
  <2>2. ASSUME NEW d \in All, Obj(d) \in G[Obj(c)] PROVE objects[Obj(d)].parents \subseteq T
    <3>1. objects[Obj(d)].parents \subseteq G[Obj(c)]
      BY <2>1, <2>2 DEF Closed
    <3> QED BY <3>1 DEF IsGraph
  <2> QED BY <2>2 DEF Closed
<1>5. H[Obj(c)] \subseteq T
  <2> HIDE DEF T
  <2> QED BY <1>1, <1>3, <1>4, Pairs DEF IsHistory
<1> QED BY <1>2, <1>5 DEF Held

-----------------------------------------------------------------------------
(* git-sign at work.  The repository is a graph whose branches hold         *)
(* originals until the ref moves; of the range, what is done is rewritten   *)
(* over its parents as they are by now, or needs no signature.              *)

IsMade(c) == c = Extra => objects[Obj(Extra)].parents # {}

Repository ==
  /\ IsGraph(objects) /\ walletKey \in Keys
  /\ objects[Obj(Root)].parents = {}
  /\ objects[Obj(Extra)].parents = {} => objects[Obj(Extra)] = NoObject
  /\ head \in Branches /\ tips \in [Branches -> Vertices]
  /\ step # "end" => \A b \in Branches : \E d \in All : tips[b] = Obj(d) /\ IsMade(d)

\* R is the range that was surveyed.
IsWorked(R) ==
  /\ R \in SUBSET All /\ todo \subseteq R /\ mapping \subseteq R \ todo
  /\ \E t \in R : oldTip = Obj(t) /\ (~ranged => R = {t})
  /\ ranged => /\ Root \notin R
               /\ \A c \in R : objects[Obj(c)].parents \subseteq {Obj(d) : d \in R \cup {Root}}
  /\ \A c \in R : IsMade(c)
  /\ \A c \in R \ todo : MayBeNext(c) /\ (c \in mapping \/ Skips(c))
  /\ \A c \in mapping : objects[Rewritten(c)] = [parents |-> WithParents(c), sig |-> "account"]

SaysSigned == outcome \in {"signed", "already_signed"}

Work ==
  /\ tool # "git" => step = "start"
  /\ step = "start" => mapping = {}
  /\ SaysSigned => step = "end" /\ todo = {} /\ (outcome = "signed" <=> oldTip[1] \in mapping)
  /\ step \in {"loop", "asked"} \/ SaysSigned => \E R \in SUBSET All : IsWorked(R)
  /\ step = "asked" => item.what \in todo /\ MayBeNext(item.what)

GitInv == Repository /\ Work

\* It holds at first ...
LEMMA GitInitially == Init => GitInv
<1> SUFFICES ASSUME GitInit PROVE GitInv
  BY DEF Init
<1>1. PICK sig \in Signed :
        objects = [o \in Vertices |->
          IF o[2] = 0 /\ o[1] \in Commits
          THEN [parents |-> {Obj(p) : p \in Parents[o[1]]}, sig |-> sig[o[1]]]
          ELSE NoObject]
  BY DEF GitInit, Vertices
<1>2. /\ \A c \in Commits : /\ Parents[c] \subseteq Commits \cup {Root} /\ sig[c] \in Signers
                            /\ \A p \in Parents[c] : Rank(p) < Rank(c)
      /\ All = Commits \cup {Root, Extra} /\ Root \notin Commits /\ Extra \notin Commits
  BY GitAssumption, Ranks DEF All
<1>3. /\ \A o \in Vertices : o[1] \in All
      /\ \A c \in All : Obj(c)[1] = c /\ Obj(c)[2] = 0 /\ Obj(c) \in Vertices
  BY DEF Vertices, Obj
<1>4. ASSUME NEW o \in Vertices
      PROVE  /\ objects[o] \in [parents : SUBSET Vertices, sig : Signers]
             /\ \A p \in objects[o].parents : Rank(p[1]) < Rank(o[1])
             /\ objects[o].parents \subseteq {Obj(d) : d \in All}
  <2>1. CASE o[2] = 0 /\ o[1] \in Commits
    <3>1. objects[o] = [parents |-> {Obj(p) : p \in Parents[o[1]]}, sig |-> sig[o[1]]]
      BY <1>1, <2>1
    <3>2. \A p \in Parents[o[1]] : p \in All /\ Obj(p) \in Vertices /\ Obj(p)[1] = p
      BY <1>2, <1>3, <2>1
    <3> QED BY <1>2, <2>1, <3>1, <3>2
  <2>2. CASE ~(o[2] = 0 /\ o[1] \in Commits)
    BY <1>1, <2>2 DEF NoObject, Signers
  <2> QED BY <2>1, <2>2
<1>5. IsGraph(objects)
  BY <1>1, <1>3, <1>4 DEF IsGraph
<1>6. objects[Obj(Root)] = NoObject /\ objects[Obj(Extra)] = NoObject
  BY <1>1, <1>2, <1>3
<1>7. /\ tips \in [Branches -> Vertices] /\ head \in Branches
      /\ \A b \in Branches : tips[b] = Obj(Tip) \/ tips[b] = Obj(Root)
  BY <1>2, <1>3, GitAssumption DEF GitInit
<1>8. Tip \in All /\ Root \in All /\ IsMade(Tip) /\ IsMade(Root)
  BY <1>2, GitAssumption DEF IsMade
<1>9. Repository
  <2>1. \A b \in Branches : \E d \in All : tips[b] = Obj(d) /\ IsMade(d)
    BY <1>7, <1>8
  <2>2. objects[Obj(Root)].parents = {}
    BY <1>6 DEF NoObject
  <2>3. walletKey \in Keys
    BY DEF GitInit
  <2> QED BY <1>5, <1>6, <1>7, <2>1, <2>2, <2>3 DEF Repository
<1>10. Work
  <2>1. step = "start" /\ mapping = {} /\ outcome = None
    BY DEF GitInit
  <2>2. None # "signed" /\ None # "already_signed"
    BY GitAssumption
  <2>3. ~SaysSigned
    BY <2>1, <2>2 DEF SaysSigned
  <2> QED BY <2>1, <2>3 DEF Work
<1> QED BY <1>9, <1>10 DEF GitInv

\* A range stays worked as long as its own objects are left alone.
LEMMA WorkedStays ==
  ASSUME NEW R, IsWorked(R), UNCHANGED <<todo, mapping, ranged, oldTip, walletKey>>,
         \A c \in R : objects'[Obj(c)] = objects[Obj(c)],
         \A c \in R : objects'[Rewritten(c)] = objects[Rewritten(c)],
         \A c \in R : IsMade(c)'
  PROVE  IsWorked(R)'
<1>1. \A c \in R : WithParents(c)' = WithParents(c) /\ MayBeNext(c)' = MayBeNext(c)
  BY DEF WithParents, MayBeNext, Obj, Rewritten
<1>2. \A c \in R : Skips(c)' = Skips(c)
  BY <1>1 DEF Skips, Obj
<1> QED BY <1>1, <1>2 DEF IsWorked, Obj, Rewritten

\* What a commit's parents are to be is settled when none of them is to do.
LEMMA ParentsStay ==
  ASSUME NEW c, NEW d, mapping' = mapping \cup {c}, objects'[Obj(d)] = objects[Obj(d)],
         \A p \in objects[Obj(d)].parents : p[1] # c
  PROVE  WithParents(d)' = WithParents(d)
<1>1. \A p \in objects[Obj(d)].parents : p[1] \in mapping' <=> p[1] \in mapping
  OBVIOUS
<1> QED BY <1>1 DEF WithParents, Obj, Rewritten

\* The survey of a range: what is behind the tip, without the root.
LEMMA SurveyWorks ==
  ASSUME Repository, Work, Survey, step' = "loop"
  PROVE  \E R \in SUBSET All : IsWorked(R)'
<1>1. PICK t \in All : tips[head] = Obj(t) /\ IsMade(t)
  BY DEF Repository, Survey
<1> DEFINE H == Within[Cardinality(All)]
           hist == H[Obj(t)]
<1>0. PICK R : R = IF ranged THEN Held(hist) \ {Root} ELSE {t}
  OBVIOUS
<1>2. IsHistory(H, objects)
  BY HistoryIs DEF Repository
<1>3. History(tips[head]) = hist
  BY <1>1 DEF History
<1>4. /\ todo' = R /\ R # {} /\ oldTip' = Obj(t) /\ mapping' = {}
      /\ UNCHANGED <<objects, ranged, walletKey, mapping>>
  <2>1. ~End("no_commits_in_range")
    BY DEF End
  <2>2. tips[head][1] = t
    BY <1>1, Pairs
  <2> QED BY <1>0, <1>1, <1>3, <2>1, <2>2 DEF Survey, Work
<1> HIDE DEF H
<1>5. /\ Obj(t) \in hist /\ Closed(hist, objects)
      /\ \A T \in SUBSET Vertices : Closed(T, objects) /\ Obj(t) \in T => hist \subseteq T
  BY <1>2, Pairs DEF IsHistory
<1> HIDE DEF hist
<1>6. \A c \in All : objects[Obj(c)].parents \subseteq {Obj(d) : d \in All}
  BY DEF Repository, IsGraph
<1>7. hist \subseteq {Obj(d) : d \in {e \in All : IsMade(e)}}
  <2> DEFINE T == {Obj(d) : d \in {e \in All : IsMade(e)}}
  <2>1. T \in SUBSET Vertices /\ Obj(t) \in T
    BY <1>1, Pairs
  <2>2. ASSUME NEW c \in All, IsMade(c), NEW p \in objects[Obj(c)].parents
        PROVE  p \in T
    <3>1. PICK d \in All : p = Obj(d)
      BY <1>6
    <3>2. Rank(d) < Rank(c)
      BY <2>2, <3>1, Pairs DEF Repository, IsGraph
    <3>3. IsMade(d)
      <4>1. ASSUME d = Extra PROVE FALSE
        <5>1. CASE c = Extra
          <6>1. Rank(Extra) \in 0..Cardinality(All) /\ Cardinality(All) \in Nat
            BY <4>1, Ranks
          <6> QED BY <6>1, <5>1, <4>1, <3>2
        <5>2. CASE c # Extra
          <6>1. /\ Rank(Extra) \in 0..Cardinality(All) /\ Cardinality(All) \in Nat
                /\ Rank(c) \in 0..Cardinality(All) /\ Rank(c) < Rank(Extra)
            BY <4>1, <5>2, Ranks
          <6> QED BY <6>1, <4>1, <3>2
        <5> QED BY <5>1, <5>2
      <4> QED BY <4>1 DEF IsMade
    <3> QED BY <3>1, <3>3
  <2>3. Closed(T, objects)
    BY <2>2 DEF Closed
  <2>4. hist \subseteq T
    <3> HIDE DEF T
    <3> QED BY <1>5, <2>1, <2>3
  <2> QED BY <2>4
<1>8. /\ Held(hist) \subseteq {e \in All : IsMade(e)}
      /\ \A d : d \in Held(hist) <=> Obj(d) \in hist
  BY <1>7, HeldByOriginals
<1>9. R \in SUBSET All /\ \A c \in R : IsMade(c)
  BY <1>0, <1>1, <1>8
<1>10. t \in R
  <2>1. CASE ranged /\ t = Root
    <3> DEFINE T == {Obj(Root)}
    <3>1. T \in SUBSET Vertices /\ Obj(t) \in T
      BY <2>1, Pairs
    <3>2. Closed(T, objects)
      BY DEF Closed, Repository
    <3>3. hist \subseteq T
      <4> HIDE DEF T
      <4> QED BY <1>5, <3>1, <3>2
    <3>4. \A d \in Held(hist) : d = Root
      BY <1>8, <3>3, Pairs
    <3> QED BY <1>0, <1>4, <2>1, <3>4
  <2>2. CASE ~(ranged /\ t = Root)
    BY <1>0, <1>5, <1>8, <2>2
  <2> QED BY <2>1, <2>2
<1>11. ASSUME ranged, NEW c \in R
       PROVE  objects[Obj(c)].parents \subseteq {Obj(d) : d \in R \cup {Root}}
  <2>1. ASSUME NEW p \in objects[Obj(c)].parents PROVE p \in {Obj(d) : d \in R \cup {Root}}
    <3>1. p \in hist
      BY <1>0, <1>5, <1>8, <1>11 DEF Closed
    <3>2. PICK d \in All : p = Obj(d)
      BY <1>6, <1>9
    <3>3. d \in R \cup {Root}
      BY <1>0, <1>8, <1>11, <3>1, <3>2
    <3> QED BY <3>2, <3>3
  <2> QED BY <2>1
<1>12. ranged => Root \notin R
  BY <1>0
<1>13. ~ranged => R = {t}
  BY <1>0
<1>14. \A c \in R : IsMade(c)'
  BY <1>4, <1>9 DEF IsMade, Obj
<1>15. /\ R \in SUBSET All /\ todo' \subseteq R /\ mapping' \subseteq R \ todo'
       /\ R \ todo' = {} /\ mapping' = {}
  BY <1>4, <1>9
<1>16. \E d \in R : oldTip' = Obj(d) /\ (~ranged' => R = {d})
  BY <1>4, <1>10, <1>13
<1>17. ranged' =>
         /\ Root \notin R
         /\ \A c \in R : objects'[Obj(c)].parents \subseteq {Obj(d) : d \in R \cup {Root}}
  BY <1>4, <1>11, <1>12
<1>18. IsWorked(R)'
  <2>1. /\ \A c \in R \ todo' : MayBeNext(c)' /\ (c \in mapping' \/ Skips(c)')
        /\ \A c \in mapping' :
             objects'[Rewritten(c)] = [parents |-> WithParents(c)', sig |-> "account"]
    BY <1>15
  <2> QED BY <1>14, <1>15, <1>16, <1>17, <2>1 DEF IsWorked, Obj, Rewritten
<1> QED BY <1>9, <1>18

\* ... the wallet's reply adds to the range what it signed ...
LEMMA ReplyWorks ==
  ASSUME Repository, Work, NEW R, IsWorked(R), CommitReplied,
         item.what \in todo, MayBeNext(item.what)
  PROVE  Repository' /\ (step' = "loop" => IsWorked(R)') /\ ~SaysSigned'
         /\ step' \in {"loop", "end"}
<1> DEFINE c == item.what
<1>0. PICK e : e = c
  OBVIOUS
<1>1. e \in R /\ e \in All /\ e \notin mapping /\ e \in todo /\ MayBeNext(e)
  BY <1>0 DEF IsWorked
<1>2. UNCHANGED <<head, tips, ranged, walletKey, oldTip>>
  BY DEF CommitReplied
<1>3. CASE reply # "one"
  <2>1. UNCHANGED objects /\ step' = "end" /\ outcome' \in {"error", "rejected"}
    BY <1>3 DEF CommitReplied, End
  <2> QED BY <1>2, <2>1 DEF Repository, SaysSigned, Obj
<1>4. CASE reply = "one"
  <2>1. /\ objects' = [objects EXCEPT ![Rewritten(e)] =
                        [parents |-> WithParents(e), sig |-> "account"]]
        /\ mapping' = mapping \cup {e} /\ todo' = todo \ {e} /\ step' = "loop"
        /\ UNCHANGED outcome
    BY <1>0, <1>4 DEF CommitReplied
  <2>2. objects \in [Vertices -> [parents : SUBSET Vertices, sig : Signers]]
    BY DEF Repository, IsGraph
  <2>3. /\ \A d \in All : objects'[Obj(d)] = objects[Obj(d)]
        /\ \A o \in Vertices : o # Rewritten(e) => objects'[o] = objects[o]
        /\ objects'[Rewritten(e)] = [parents |-> WithParents(e), sig |-> "account"]
    BY <1>1, <2>1, <2>2, Pairs
  <2>4. /\ WithParents(e) \in SUBSET Vertices
        /\ \A p \in WithParents(e) : Rank(p[1]) < Rank(e)
    <3>1. ASSUME NEW p \in WithParents(e) PROVE p \in Vertices /\ Rank(p[1]) < Rank(e)
      <4>1. PICK q \in objects[Obj(e)].parents :
              p = IF q[1] \in mapping THEN Rewritten(q[1]) ELSE q
        BY <3>1 DEF WithParents
      <4>2. q \in Vertices /\ Rank(q[1]) < Rank(e)
        BY <1>1, <2>2, Pairs DEF Repository, IsGraph
      <4>3. q[1] \in All
        BY <4>2 DEF Vertices
      <4> QED BY <4>1, <4>2, <4>3, Pairs
    <3> QED BY <3>1
  <2>5. IsGraph(objects')
    <3>1. objects' \in [Vertices -> [parents : SUBSET Vertices, sig : Signers]]
      BY <2>1, <2>2, <2>4 DEF Signers
    <3>2. ASSUME NEW o \in Vertices, NEW p \in objects'[o].parents
          PROVE  Rank(p[1]) < Rank(o[1])
      <4>1. CASE o = Rewritten(e)
        BY <4>1, <3>2, <2>3, <2>4, Pairs
      <4>2. CASE o # Rewritten(e)
        BY <4>2, <3>2, <2>3 DEF Repository, IsGraph
      <4> QED BY <4>1, <4>2
    <3>3. \A d \in All : objects'[Obj(d)].parents \subseteq {Obj(f) : f \in All}
      BY <2>3 DEF Repository, IsGraph
    <3> QED BY <3>1, <3>2, <3>3 DEF IsGraph
  <2>6. Root \in All /\ Extra \in All
    BY DEF All
  <2>7. /\ objects'[Obj(Root)] = objects[Obj(Root)] /\ objects'[Obj(Extra)] = objects[Obj(Extra)]
        /\ \A d : IsMade(d)' <=> IsMade(d)
    BY <2>3, <2>6 DEF IsMade, Obj
  <2>8. Repository'
    <3>1. step # "end"
      BY DEF CommitReplied
    <3>2. \A b \in Branches : \E d \in All : tips'[b] = Obj(d) /\ IsMade(d)'
      BY <1>2, <2>7, <3>1 DEF Repository
    <3> QED BY <1>2, <2>5, <2>7, <3>2 DEF Repository, Obj, NoObject
  <2>9. ASSUME NEW d \in (R \ todo) \cup {e}
        PROVE  /\ WithParents(d)' = WithParents(d) /\ MayBeNext(d)'
               /\ d \in mapping' \/ Skips(d)'
    <3>1. d \in R /\ d \in All /\ MayBeNext(d) /\ (d = e \/ d \in mapping \/ Skips(d))
      BY <1>1, <2>9 DEF IsWorked
    <3>2. \A p \in objects[Obj(d)].parents : p[1] # e
      BY <1>1, <3>1 DEF MayBeNext
    <3>3. WithParents(d)' = WithParents(d)
      BY <2>1, <2>3, <3>1, <3>2, ParentsStay
    <3>4. MayBeNext(d)'
      BY <2>1, <2>3, <3>1 DEF MayBeNext, Obj
    <3>5. Skips(d) => Skips(d)'
      BY <1>2, <2>3, <3>1, <3>3 DEF Skips, Obj
    <3> QED BY <2>1, <3>1, <3>3, <3>4, <3>5
  <2>10. \A d \in mapping' : objects'[Rewritten(d)] = [parents |-> WithParents(d)', sig |-> "account"]
    <3>1. ASSUME NEW d \in mapping
          PROVE  objects'[Rewritten(d)] = [parents |-> WithParents(d)', sig |-> "account"]
      <4>1. d \in R \ todo /\ d \in All /\ d # e
        BY <1>1 DEF IsWorked
      <4>2. objects'[Rewritten(d)] = objects[Rewritten(d)]
        BY <2>3, <4>1, Pairs
      <4> QED BY <2>9, <4>1, <4>2 DEF IsWorked
    <3>2. objects'[Rewritten(e)] = [parents |-> WithParents(e)', sig |-> "account"]
      BY <2>3, <2>9
    <3> QED BY <2>1, <3>1, <3>2
  <2>11. IsWorked(R)'
    <3>1. R \ todo' = (R \ todo) \cup {e} /\ todo' \subseteq R /\ mapping' \subseteq R \ todo'
      BY <1>1, <2>1 DEF IsWorked
    <3>2. R \in SUBSET All /\ \E t \in R : oldTip' = Obj(t) /\ (~ranged' => R = {t})
      BY <1>2 DEF IsWorked
    <3>3. ranged' =>
            /\ Root \notin R
            /\ \A d \in R : objects'[Obj(d)].parents \subseteq {Obj(f) : f \in R \cup {Root}}
      BY <1>2, <2>3, <3>2 DEF IsWorked
    <3>4. \A d \in R : IsMade(d)'
      BY <2>7 DEF IsWorked
    <3> QED BY <2>9, <2>10, <3>1, <3>2, <3>3, <3>4 DEF IsWorked, Obj, Rewritten
  <2>12. ~SaysSigned'
    BY <2>1 DEF SaysSigned, CommitReplied, Work
  <2> QED BY <2>1, <2>8, <2>11, <2>12
<1> QED BY <1>3, <1>4

\* ... and every step keeps it.
LEMMA GitKeeps == GitInv /\ [Next]_vars => GitInv'
<1> SUFFICES ASSUME GitInv, [Next]_vars PROVE GitInv'
  OBVIOUS
<1>0. Repository /\ Work
  BY DEF GitInv
<1>1. CASE UNCHANGED gitVars /\ UNCHANGED <<item, tool>>
  <2>1. /\ \A c : IsMade(c)' <=> IsMade(c)
        /\ \A c : WithParents(c)' = WithParents(c) /\ (MayBeNext(c)' <=> MayBeNext(c))
    BY <1>1 DEF gitVars, IsMade, WithParents, MayBeNext, Obj, Rewritten
  <2>2. Repository'
    BY <1>0, <1>1, <2>1 DEF gitVars, Repository, Obj, NoObject
  <2>3. \A R : IsWorked(R) => IsWorked(R)'
    <3>1. ASSUME NEW R, IsWorked(R) PROVE IsWorked(R)'
      <4>1. \A c \in R : IsMade(c)'
        BY <2>1, <3>1 DEF IsWorked
      <4> QED BY <1>1, <3>1, <4>1, WorkedStays DEF gitVars
    <3> QED BY <3>1
  <2>4. Work'
    BY <1>0, <1>1, <2>1, <2>3 DEF gitVars, Work, SaysSigned
  <2> QED BY <2>2, <2>4 DEF GitInv
<1>2. CASE tool # "git" /\ UNCHANGED gitVars /\ UNCHANGED tool
  <2>1. /\ \A c : IsMade(c)' <=> IsMade(c)
    BY <1>2 DEF gitVars, IsMade, Obj
  <2>2. Repository'
    BY <1>0, <1>2, <2>1 DEF gitVars, Repository, Obj, NoObject
  <2>3. step = "start" /\ mapping = {} /\ ~SaysSigned
    BY <1>0, <1>2 DEF Work
  <2>4. Work'
    BY <1>2, <2>3 DEF gitVars, Work, SaysSigned
  <2> QED BY <2>2, <2>4 DEF GitInv
<1>3. CASE Relay \/ UNCHANGED vars
  <2>1. UNCHANGED gitVars /\ UNCHANGED <<item, tool>>
    BY <1>3 DEF vars, Relay, RelayNext, RelayWork, relayVars, callVars, Attempt, Answered,
       BackstopFires, Read, WalletTimesOut, Tick, WalletAnswers, LinkDrops, LinkCloses, Relinks,
       Wedges, Dies, Restarts, Settle
  <2> QED BY <2>1, <1>1
<1>4. CASE SignPayload \/ SignReplied \/ Pay
  BY <1>2, <1>4 DEF SignPayload, SignReplied, Pay
<1>5. CASE Git
  <2>0. tool = "git" /\ tool' = "git" /\ GitNext /\ step # "end"
    BY <1>5 DEF Git, Done
  <2>1. ASSUME UNCHANGED <<objects, head, tips, walletKey>> PROVE Repository'
    <3>1. \A c : IsMade(c)' <=> IsMade(c)
      BY <2>1 DEF IsMade, Obj
    <3>2. \A b \in Branches : \E d \in All : tips'[b] = Obj(d) /\ IsMade(d)'
      BY <1>0, <2>0, <2>1, <3>1 DEF Repository
    <3>3. head' \in Branches /\ tips' \in [Branches -> Vertices] /\ walletKey' \in Keys
      BY <1>0, <2>1 DEF Repository
    <3> QED BY <1>0, <2>1, <3>2, <3>3 DEF Repository, Obj, NoObject
  <2>2. ASSUME step' \in {"loop", "asked"}, \E R \in SUBSET All : IsWorked(R)', ~SaysSigned',
               step' = "asked" => item'.what \in todo' /\ MayBeNext(item.what)'
        PROVE  Work'
    BY <2>0, <2>2 DEF Work
  <2>3. ~SaysSigned
    BY <1>0, <2>0 DEF Work
  <2>4. ASSUME step \in {"loop", "asked"}
        PROVE  \E R \in SUBSET All : IsWorked(R)
    BY <1>0, <2>4 DEF Work
  <2>5. CASE Survey
    <3>1. Repository'
      BY <2>1, <2>5 DEF Survey
    <3>2. CASE step' = "loop"
      <4>1. ~SaysSigned'
        BY <2>3, <2>5, <3>2 DEF Survey, End, SaysSigned
      <4> QED BY <1>0, <2>2, <2>5, <3>1, <3>2, <4>1, SurveyWorks DEF GitInv
    <3>3. CASE step' # "loop"
      <4>1. step' = "end" /\ ~SaysSigned'
        BY <2>5, <3>3 DEF Survey, End, SaysSigned
      <4> QED BY <2>0, <3>1, <4>1 DEF GitInv, Work
    <3> QED BY <3>2, <3>3
  <2>6. ASSUME NEW c \in All, SkipCommit(c) PROVE GitInv'
    <3>1. Repository'
      BY <2>1, <2>6 DEF SkipCommit
    <3>2. PICK R \in SUBSET All : IsWorked(R)
      BY <2>4, <2>6 DEF SkipCommit
    <3>3. /\ UNCHANGED <<objects, mapping, ranged, oldTip, walletKey, step, outcome>>
          /\ step = "loop" /\ c \in todo /\ todo' = todo \ {c} /\ MayBeNext(c) /\ Skips(c)
      BY <2>6 DEF SkipCommit
    <3>4. ASSUME NEW d PROVE /\ IsMade(d)' <=> IsMade(d)
                             /\ WithParents(d)' = WithParents(d) /\ (Skips(d)' <=> Skips(d))
                             /\ MayBeNext(d) => MayBeNext(d)'
      BY <3>3 DEF IsMade, WithParents, Skips, MayBeNext, Obj, Rewritten
    <3>5. /\ R \ todo' = (R \ todo) \cup {c} /\ todo' \subseteq R /\ mapping' \subseteq R \ todo'
      BY <3>2, <3>3 DEF IsWorked
    <3>6. IsWorked(R)'
      BY <3>2, <3>3, <3>4, <3>5 DEF IsWorked, Obj, Rewritten
    <3>7. ~SaysSigned' /\ step' = "loop"
      BY <2>3, <3>3 DEF SaysSigned
    <3> QED BY <2>2, <3>1, <3>6, <3>7 DEF GitInv
  <2>7. ASSUME NEW c \in All, AskCommit(c) PROVE GitInv'
    <3>1. Repository'
      BY <2>1, <2>7 DEF AskCommit
    <3>2. PICK R \in SUBSET All : IsWorked(R)
      BY <2>4, <2>7 DEF AskCommit
    <3>3. /\ UNCHANGED <<objects, todo, mapping, ranged, oldTip, walletKey, outcome>>
          /\ c \in todo /\ MayBeNext(c) /\ item'.what = c /\ step' = "asked"
      BY <2>7 DEF AskCommit, Ask
    <3>4. \A d \in R : IsMade(d)'
      BY <3>2, <3>3 DEF IsMade, IsWorked, Obj
    <3>5. IsWorked(R)'
      BY <3>2, <3>3, <3>4, WorkedStays
    <3>6. item'.what \in todo' /\ MayBeNext(item.what)'
      BY <3>3 DEF MayBeNext, Obj
    <3>7. ~SaysSigned'
      BY <2>3, <3>3 DEF SaysSigned
    <3> QED BY <2>2, <3>1, <3>3, <3>5, <3>6, <3>7 DEF GitInv
  <2>8. CASE CommitReplied
    <3>1. PICK R \in SUBSET All : IsWorked(R)
      BY <2>4, <2>8 DEF CommitReplied
    <3>2. item.what \in todo /\ MayBeNext(item.what)
      BY <1>0, <2>8 DEF Work, CommitReplied
    <3>3. /\ Repository' /\ (step' = "loop" => IsWorked(R)') /\ ~SaysSigned'
          /\ step' \in {"loop", "end"}
      BY <1>0, <2>8, <3>1, <3>2, ReplyWorks
    <3>4. CASE step' = "end"
      BY <2>0, <3>3, <3>4 DEF GitInv, Work
    <3>5. CASE step' = "loop"
      BY <2>2, <3>3, <3>5 DEF GitInv
    <3> QED BY <3>3, <3>4, <3>5
  <2>9. CASE UpdateRef
    <3>1. PICK R \in SUBSET All : IsWorked(R)
      BY <2>4, <2>9 DEF UpdateRef
    <3>2. /\ UNCHANGED <<objects, head, todo, mapping, ranged, oldTip, walletKey>>
          /\ step' = "end" /\ todo = {}
          /\ \/ outcome' = "already_signed" /\ oldTip[1] \notin mapping /\ tips' = tips
             \/ outcome' = "signed" /\ oldTip[1] \in mapping
                /\ tips' = [tips EXCEPT ![head] = Rewritten(oldTip[1])]
             \/ outcome' = "git_error" /\ tips' = tips
      BY <2>9 DEF UpdateRef, End
    <3>3. PICK t \in All : oldTip = Obj(t) /\ oldTip[1] = t
      BY <3>1, Pairs DEF IsWorked
    <3>4. head' \in Branches /\ tips' \in [Branches -> Vertices] /\ walletKey' \in Keys
      BY <1>0, <3>2, <3>3, Pairs DEF Repository
    <3>5. Repository'
      BY <1>0, <3>2, <3>4 DEF Repository, Obj, NoObject
    <3>6. IsWorked(R)'
      <4>1. \A d \in R : IsMade(d)'
        BY <3>1, <3>2 DEF IsMade, IsWorked, Obj
      <4> QED BY <3>1, <3>2, <4>1, WorkedStays
    <3>7. SaysSigned' => (outcome' = "signed" <=> oldTip'[1] \in mapping')
      BY <3>2 DEF SaysSigned
    <3>8. Work'
      BY <2>0, <3>2, <3>6, <3>7 DEF Work
    <3> QED BY <3>5, <3>8 DEF GitInv
  <2>10. CASE DeveloperCommits
    <3>1. /\ objects[Obj(Extra)].parents = {}
          /\ objects' = [objects EXCEPT ![Obj(Extra)].parents = {tips[head]}]
          /\ tips' = [tips EXCEPT ![head] = Obj(Extra)]
          /\ UNCHANGED <<step, head, ranged, walletKey, oldTip, todo, mapping, outcome, item>>
      BY <2>10 DEF DeveloperCommits, relayVars, callVars
    <3>2. objects \in [Vertices -> [parents : SUBSET Vertices, sig : Signers]]
          /\ Extra \in All /\ Root \in All /\ Root # Extra
      BY <1>0, GitAssumption DEF Repository, IsGraph, All
    <3>3. PICK t \in All : tips[head] = Obj(t) /\ t # Extra
      BY <1>0, <2>0, <3>1 DEF Repository, IsMade
    <3>4. /\ \A o \in Vertices : o # Obj(Extra) => objects'[o] = objects[o]
          /\ objects'[Obj(Extra)].parents = {Obj(t)}
      BY <3>1, <3>2, <3>3, Pairs
    <3>5. \A c : IsMade(c)'
      BY <3>4 DEF IsMade, Obj
    <3>6. IsGraph(objects')
      <4>1. objects' \in [Vertices -> [parents : SUBSET Vertices, sig : Signers]]
        BY <3>1, <3>2, <3>3, Pairs
      <4>2. ASSUME NEW o \in Vertices, NEW p \in objects'[o].parents
            PROVE  Rank(p[1]) < Rank(o[1])
        <5>1. CASE o = Obj(Extra)
          BY <4>2, <5>1, <3>3, <3>4, Pairs, Ranks
        <5>2. CASE o # Obj(Extra)
          BY <1>0, <4>2, <5>2, <3>4 DEF Repository, IsGraph
        <5> QED BY <5>1, <5>2
      <4>3. \A c \in All : objects'[Obj(c)].parents \subseteq {Obj(d) : d \in All}
        BY <1>0, <3>3, <3>4, Pairs DEF Repository, IsGraph
      <4> QED BY <4>1, <4>2, <4>3 DEF IsGraph
    <3>7. Repository'
      <4>1. /\ objects'[Obj(Root)].parents = {} /\ objects'[Obj(Extra)].parents # {}
        BY <1>0, <3>2, <3>4, Pairs DEF Repository
      <4>2. head' \in Branches /\ tips' \in [Branches -> Vertices] /\ walletKey' \in Keys
        BY <1>0, <3>1, <3>2, Pairs DEF Repository
      <4>3. ASSUME NEW b \in Branches PROVE \E d \in All : tips'[b] = Obj(d)
        BY <1>0, <2>0, <3>1, <3>2, <4>3 DEF Repository
      <4> QED BY <3>5, <3>6, <4>1, <4>2, <4>3 DEF Repository, Obj
    <3>8. \A R \in SUBSET All : IsWorked(R) => IsWorked(R)' /\ Extra \notin R
      <4>1. ASSUME NEW R \in SUBSET All, IsWorked(R) PROVE IsWorked(R)' /\ Extra \notin R
        <5>1. Extra \notin R
          BY <3>1, <4>1 DEF IsWorked, IsMade
        <5>2. \A c \in R : objects'[Obj(c)] = objects[Obj(c)]
                          /\ objects'[Rewritten(c)] = objects[Rewritten(c)]
          BY <3>4, <5>1, Pairs
        <5> QED BY <3>1, <3>5, <4>1, <5>1, <5>2, WorkedStays
      <4> QED BY <4>1
    <3>9. CASE step \in {"loop", "asked"}
      <4>1. PICK R \in SUBSET All : IsWorked(R)
        BY <2>4, <3>9
      <4>2. IsWorked(R)' /\ Extra \notin R /\ todo \subseteq R
        BY <3>8, <4>1 DEF IsWorked
      <4>3. ASSUME step = "asked" PROVE item'.what \in todo' /\ MayBeNext(item.what)'
        <5>1. item.what \in todo /\ MayBeNext(item.what)
          BY <1>0, <4>3 DEF Work
        <5>2. objects'[Obj(item.what)] = objects[Obj(item.what)]
          BY <3>4, <4>1, <4>2, <5>1, Pairs
        <5> QED BY <3>1, <5>1, <5>2 DEF MayBeNext, Obj
      <4>4. ~SaysSigned'
        BY <2>3, <3>1 DEF SaysSigned
      <4> QED BY <2>2, <3>1, <3>7, <3>9, <4>2, <4>3, <4>4 DEF GitInv
    <3>10. CASE step \notin {"loop", "asked"}
      <4>1. ~SaysSigned'
        BY <2>3, <3>1 DEF SaysSigned
      <4> QED BY <1>0, <2>0, <3>1, <3>7, <3>10, <4>1 DEF GitInv, Work
    <3> QED BY <3>9, <3>10
  <2>11. ASSUME NEW b \in Branches, DeveloperSwitches(b) PROVE GitInv'
    <3>1. /\ head' = b /\ UNCHANGED item
          /\ UNCHANGED <<step, objects, ranged, walletKey, oldTip, todo, mapping, outcome>>
          /\ tips' = tips \/ tips' = [tips EXCEPT ![b] = tips[head]]
      BY <2>11 DEF DeveloperSwitches, relayVars, callVars
    <3>2. \A c : /\ IsMade(c)' <=> IsMade(c)
                 /\ MayBeNext(c)' <=> MayBeNext(c)
      BY <3>1 DEF IsMade, MayBeNext, Obj
    <3>3. Repository'
      <4>1. tips' \in [Branches -> Vertices] /\ head' \in Branches
        BY <1>0, <3>1 DEF Repository
      <4>2. \A c \in Branches : \E d \in Branches : tips'[c] = tips[d]
        BY <1>0, <3>1 DEF Repository
      <4>3. \A c \in Branches : \E d \in All : tips'[c] = Obj(d) /\ IsMade(d)'
        BY <1>0, <2>0, <3>2, <4>2 DEF Repository
      <4> QED BY <1>0, <3>1, <4>1, <4>3 DEF Repository, Obj, NoObject
    <3>4. \A R : IsWorked(R) => IsWorked(R)'
      <4>1. ASSUME NEW R, IsWorked(R) PROVE IsWorked(R)'
        <5>1. \A c \in R : IsMade(c)'
          BY <3>2, <4>1 DEF IsWorked
        <5> QED BY <3>1, <4>1, <5>1, WorkedStays
      <4> QED BY <4>1
    <3>5. Work'
      BY <1>0, <2>0, <3>1, <3>2, <3>4 DEF Work, SaysSigned
    <3> QED BY <3>3, <3>5 DEF GitInv
  <2>12. CASE GitFails
    <3>1. UNCHANGED <<objects, head, tips, ranged, walletKey, oldTip, todo, mapping>>
          /\ step' = "end" /\ outcome' \in {"error", "git_error"}
      BY <2>12 DEF GitFails, End
    <3>2. Repository'
      BY <2>1, <3>1
    <3> QED BY <2>0, <3>1, <3>2 DEF GitInv, Work, SaysSigned
  <2> QED BY <2>0, <2>5, <2>6, <2>7, <2>8, <2>9, <2>10, <2>11, <2>12 DEF GitNext
<1> QED BY <1>3, <1>4, <1>5 DEF Next

\* So it always holds.
LEMMA GitAlways == Spec => []GitInv
  BY GitInitially, GitKeeps, PTL DEF Spec

\* When the range is done, it is rewritten with all that lies behind its tip.
LEMMA RangeIsRewritten ==
  ASSUME Repository, NEW R, IsWorked(R), todo = {}
  PROVE  \E X, t : /\ IsRewritten(X) /\ t \in X /\ t \in R /\ oldTip = Obj(t)
                   /\ ranged => X \subseteq R \cup {Root}
                   /\ ~ranged => R = {t}
<1>1. PICK t \in R : oldTip = Obj(t) /\ (~ranged => R = {t})
  BY DEF IsWorked
<1>2. R \in SUBSET All /\ Root \in All /\ mapping \subseteq R
  BY DEF IsWorked, All
<1>3. /\ \A c \in All : objects[Obj(c)].parents \subseteq {Obj(d) : d \in All}
      /\ \A c, d \in All : Obj(d) \in objects[Obj(c)].parents => Rank(d) < Rank(c)
      /\ \A c \in All : Rank(c) \in Nat
  BY Pairs, Ranks DEF Repository, IsGraph
<1>4. PICK X : X = IF ranged THEN R \cup {Root} ELSE {c \in All : Rank(c) < Rank(t)} \cup {t}
  OBVIOUS
<1>5. X \in SUBSET All /\ t \in X
  BY <1>1, <1>2, <1>4
<1>6. ASSUME NEW c \in X PROVE objects[Obj(c)].parents \subseteq {Obj(d) : d \in X}
  <2>1. CASE ranged
    <3>1. c \in R \/ c = Root
      BY <2>1, <1>4
    <3> QED BY <2>1, <3>1, <1>4 DEF IsWorked, Repository
  <2>2. CASE ~ranged
    <3>1. ASSUME NEW p \in objects[Obj(c)].parents PROVE p \in {Obj(d) : d \in X}
      <4>1. PICK d \in All : p = Obj(d)
        BY <1>3, <1>5
      <4>2. Rank(d) < Rank(c) /\ (c = t \/ Rank(c) < Rank(t))
        BY <1>3, <1>4, <1>5, <2>2, <3>1, <4>1
      <4>3. Rank(d) < Rank(t)
        BY <1>3, <1>5, <4>2
      <4> QED BY <1>4, <2>2, <4>1, <4>3
    <3> QED BY <3>1
  <2> QED BY <2>1, <2>2
\* What is not rewritten has no parent that is.
<1>7. ASSUME NEW c \in X, c \notin mapping, NEW p \in objects[Obj(c)].parents
      PROVE  p[1] \notin mapping
  <2>0. PICK d \in X : p = Obj(d) /\ p[1] = d
    BY <1>6, <1>7, Pairs
  <2>1. CASE c \in R
    <3>1. WithParents(c) = objects[Obj(c)].parents
      BY <1>7, <2>1 DEF IsWorked, Skips
    <3>2. ASSUME d \in mapping PROVE FALSE
      <4>1. Rewritten(d) \in objects[Obj(c)].parents
        BY <1>7, <2>0, <3>1, <3>2 DEF WithParents
      <4> QED BY <1>3, <1>5, <4>1, Pairs
    <3> QED BY <2>0, <3>2
  <2>2. CASE c \notin R
    <3>1. CASE ranged
      BY <1>4, <1>7, <2>2, <3>1 DEF Repository
    <3>2. CASE ~ranged
      <4>1. Rank(c) < Rank(t) /\ Rank(d) < Rank(c) /\ R = {t}
        BY <1>1, <1>3, <1>4, <1>5, <1>7, <2>0, <2>2, <3>2
      <4>2. d # t
        BY <1>3, <1>5, <4>1
      <4> QED BY <1>2, <2>0, <4>1, <4>2
    <3> QED BY <3>1, <3>2
  <2> QED BY <2>1, <2>2
<1>8. ASSUME NEW c \in X
      PROVE  objects[Becomes(c)].parents = {Becomes(d) : d \in Held(objects[Obj(c)].parents)}
  <2>1. ASSUME NEW p \in objects[Obj(c)].parents
        PROVE  Becomes(p[1]) = IF p[1] \in mapping THEN Rewritten(p[1]) ELSE p
    <3>1. PICK d \in X : p = Obj(d) /\ p[1] = d
      BY <1>6, <2>1, Pairs
    <3> QED BY <3>1 DEF Becomes
  <2>2. WithParents(c) = {Becomes(p[1]) : p \in objects[Obj(c)].parents}
    BY <2>1 DEF WithParents
  <2>3. WithParents(c) = {Becomes(d) : d \in Held(objects[Obj(c)].parents)}
    BY <2>2 DEF Held
  <2>4. CASE c \in mapping
    <3>1. Becomes(c) = Rewritten(c)
      BY <2>4 DEF Becomes
    <3>2. objects[Rewritten(c)] = [parents |-> WithParents(c), sig |-> "account"]
      BY <2>4 DEF IsWorked
    <3>3. objects[Becomes(c)].parents = WithParents(c)
      BY <3>1, <3>2
    <3> QED BY <2>3, <3>3
  <2>5. CASE c \notin mapping
    <3>1. \A p \in objects[Obj(c)].parents : p[1] \notin mapping
      BY <1>7, <2>5
    <3>2. WithParents(c) = objects[Obj(c)].parents
      BY <3>1 DEF WithParents
    <3> QED BY <2>3, <2>5, <3>2 DEF Becomes
  <2> QED BY <2>4, <2>5
<1>9. IsRewritten(X)
  BY <1>5, <1>6, <1>8 DEF IsRewritten
<1> QED BY <1>1, <1>4, <1>5, <1>9

\* Whatever the graph, the range, the signatures the commits carried and the
\* keys that are known, and whatever the developer does meanwhile: when
\* git-sign reports the range as signed, each of its commits carries the
\* signature wanted, and the history holds the same commits, each once.
THEOREM RangeSigned == Spec => []ChainSigned
<1>1. GitInv => ChainSigned
  <2> SUFFICES ASSUME Repository, Work, SaysSigned PROVE ChainSigned
    BY DEF GitInv, ChainSigned, SaysSigned
  <2>1. PICK R \in SUBSET All : IsWorked(R)
    BY DEF Work
  <2>2. todo = {} /\ (outcome = "signed" <=> oldTip[1] \in mapping)
    BY DEF Work
  <2>3. PICK X, t : /\ IsRewritten(X) /\ t \in X /\ t \in R /\ oldTip = Obj(t)
                    /\ ranged => X \subseteq R \cup {Root}
                    /\ ~ranged => R = {t}
    BY <2>1, <2>2, RangeIsRewritten
  <2> DEFINE tip == IF outcome = "signed" THEN Rewritten(oldTip[1]) ELSE oldTip
  <2>4. tip = Becomes(t) /\ oldTip[1] = t
    BY <2>2, <2>3, Pairs DEF Becomes
  <2>5. /\ Held(History(tip)) = Held(History(oldTip))
        /\ Cardinality(History(tip)) = Cardinality(History(oldTip))
    <3> HIDE DEF tip
    <3> QED BY <2>3, <2>4, HistoryIsKept DEF Repository
  <2>6. ASSUME NEW o \in History(tip), IF ranged THEN o[1] # Root ELSE o = tip
        PROVE  SignedEnough(o)
    <3> HIDE DEF tip
    <3>1. PICK d \in X : o = Becomes(d)
      BY <2>3, <2>4, <2>6, HistoryBecomes DEF Repository
    <3>2. o[1] = d
      BY <3>1, Pairs
    <3>3. d \in R
      <4>1. CASE ranged
        BY <2>3, <2>6, <3>2, <4>1
      <4>2. CASE ~ranged
        <5>1. d = t
          BY <2>4, <2>6, <3>1, <3>2, <4>2, Pairs
        <5> QED BY <2>3, <5>1
      <4> QED BY <4>1, <4>2
    <3>4. CASE d \in mapping
      <4>1. objects[o].sig = "account" /\ None # "account"
        <5>1. o = Rewritten(d)
          BY <3>1, <3>4 DEF Becomes
        <5>2. objects[Rewritten(d)] = [parents |-> WithParents(d), sig |-> "account"]
          BY <2>1, <3>4 DEF IsWorked
        <5> QED BY <5>1, <5>2, GitAssumption
      <4> QED BY <4>1 DEF SignedEnough
    <3>5. CASE d \notin mapping
      <4>1. Skips(d) /\ o = Obj(d) /\ Obj(d) \in Vertices
        BY <2>1, <2>2, <3>1, <3>3, <3>5, Pairs DEF IsWorked, Becomes
      <4>2. objects[o].sig # None /\ (walletKey = None \/ objects[o].sig = walletKey)
        BY <4>1 DEF Skips
      <4>3. objects[o].sig \in Signers /\ walletKey \in Keys
        BY <4>1 DEF Repository, IsGraph
      <4> QED BY <4>2, <4>3 DEF SignedEnough, Signers, Keys
    <3> QED BY <3>4, <3>5
  <2> QED BY <2>5, <2>6 DEF ChainSigned, SaysSigned
<1> QED BY <1>1, GitAlways, PTL

-----------------------------------------------------------------------------
(* What the branches hold.                                                  *)

\* While the objects stay as they are, so do the histories.
LEMMA HistoryStays ==
  ASSUME IsGraph(objects), objects' = objects, NEW o \in Vertices
  PROVE  History(o)' = History(o)
<1> DEFINE H == Within[Cardinality(All)]
           G == Within'[Cardinality(All)]
<1>1. IsHistory(H, objects) /\ IsHistory(G, objects)
  BY HistoryIs
<1>2. \A p : History(p) = H[p] /\ History(p)' = G[p]
  BY DEF History
<1> HIDE DEF H, G
<1>3. H[o] \subseteq G[o] /\ G[o] \subseteq H[o]
  BY <1>1 DEF IsHistory
<1> QED BY <1>2, <1>3

\* A history holds its commit, and the histories of its parents.
LEMMA HistoryHasParents ==
  ASSUME IsGraph(objects'), NEW o \in Vertices, NEW p \in objects'[o].parents
  PROVE  /\ o[1] \in Held(History(o)')
         /\ Held(History(p)') \subseteq Held(History(o)')
<1> DEFINE G == Within'[Cardinality(All)]
<1>1. IsHistory(G, objects')
  BY HistoryIs
<1>2. \A q : History(q)' = G[q]
  BY DEF History
<1> HIDE DEF G
<1>3. p \in G[o] /\ Closed(G[o], objects') /\ o \in G[o] /\ G[o] \in SUBSET Vertices
  BY <1>1 DEF IsHistory, Closed
<1>4. G[p] \subseteq G[o]
  BY <1>1, <1>3 DEF IsHistory
<1> QED BY <1>2, <1>3, <1>4 DEF Held

\* At first all commits are behind the tip of the main branch ...
LEMMA CoveredAtFirst == Init => NothingLost
<1> SUFFICES ASSUME Init PROVE NothingLost
  OBVIOUS
<1>1. Repository /\ GitInit
  BY GitInitially DEF Init, GitInv
<1>2. PICK sig \in Signed :
        objects = [o \in Vertices |->
          IF o[2] = 0 /\ o[1] \in Commits
          THEN [parents |-> {Obj(p) : p \in Parents[o[1]]}, sig |-> sig[o[1]]]
          ELSE NoObject]
  BY <1>1 DEF GitInit, Vertices
<1>3. \A c \in All : Obj(c)[1] = c /\ Obj(c)[2] = 0 /\ Obj(c) \in Vertices
  BY DEF Vertices, Obj
<1>4. /\ \A c \in Commits : objects[Obj(c)].parents = {Obj(p) : p \in Parents[c]}
      /\ objects[Obj(Extra)] = NoObject
  BY <1>2, <1>3, GitAssumption DEF All
<1>5. tips[Main] = Obj(Tip) /\ Main \in Branches /\ Tip \in All
  BY <1>1, GitAssumption DEF GitInit, All
<1> DEFINE H == Within[Cardinality(All)]
           hist == H[Obj(Tip)]
           S == {c \in Commits \cup {Root} : Obj(c) \in hist}
<1>6. IsHistory(H, objects) /\ History(Obj(Tip)) = hist
  BY <1>1, HistoryIs DEF Repository, History
<1> HIDE DEF H
<1>7. Obj(Tip) \in hist /\ Closed(hist, objects)
  BY <1>3, <1>5, <1>6 DEF IsHistory
<1> HIDE DEF hist
<1>8. Tip \in S
  BY <1>7, GitAssumption
<1>9. ASSUME NEW c \in S \ {Root} PROVE Parents[c] \subseteq S
  <2>1. c \in Commits /\ Obj(c) \in hist
    BY <1>9
  <2>2. objects[Obj(c)].parents \subseteq hist
    BY <1>7, <2>1 DEF Closed
  <2>3. \A p \in Parents[c] : Obj(p) \in hist /\ p \in Commits \cup {Root}
    BY <1>4, <2>1, <2>2, GitAssumption
  <2> QED BY <2>3
<1>10. Commits \subseteq S
  <2>1. S \in SUBSET (Commits \cup {Root})
    OBVIOUS
  <2> HIDE DEF S
  <2> QED BY <1>8, <1>9, <2>1, GitAssumption
<1>11. ASSUME NEW c \in Commits PROVE c \in Held(History(tips[Main]))
  <2>1. Obj(c) \in hist /\ Obj(c)[1] = c
    BY <1>10, Pairs
  <2> QED BY <1>5, <1>6, <2>1 DEF Held
<1> QED BY <1>4, <1>5, <1>11 DEF NothingLost

\* ... and no step takes the last branch from a commit.
LEMMA CoverKept ==
  ASSUME GitInv, GitInv', NothingLost, [Next]_vars
  PROVE  NothingLost'
<1>0. Repository /\ Work /\ Repository'
  BY DEF GitInv
<1>1. CASE UNCHANGED gitVars
  <2>1. UNCHANGED <<objects, tips>> /\ tips \in [Branches -> Vertices] /\ IsGraph(objects)
    BY <1>0, <1>1 DEF gitVars, Repository
  <2>2. \A b \in Branches : History(tips[b])' = History(tips[b])
    <3>1. ASSUME NEW b \in Branches PROVE History(tips[b])' = History(tips[b])
      <4>1. PICK o \in Vertices : o = tips[b] /\ o = tips'[b]
        BY <2>1
      <4>2. History(o)' = History(o)
        BY <2>1, HistoryStays
      <4> QED BY <4>1, <4>2 DEF History
    <3> QED BY <3>1
  <2>3. \A b \in Branches : Held(History(tips[b]))' = Held(History(tips[b]))
    BY <2>2 DEF Held
  <2> QED BY <2>1, <2>3 DEF NothingLost, Obj, NoObject
<1>2. CASE tool # "git" \/ ~Git
  <2>1. UNCHANGED gitVars
    BY <1>2 DEF Next, vars, Relay, SignPayload, SignReplied, Pay, Git
  <2> QED BY <1>1, <2>1
<1>3. CASE Git
  <2>0. GitNext /\ step # "end"
    BY <1>3 DEF Git, Done
  <2>1. \A b \in Branches : \E d \in All : tips[b] = Obj(d) /\ IsMade(d)
    BY <1>0, <2>0 DEF Repository
  <2>2. Commits \cup {Extra} \subseteq All /\ Root \notin Commits \cup {Extra}
    BY GitAssumption DEF All
  <2>3. ASSUME NEW c \in Commits \cup {Extra}, objects[Obj(c)] # NoObject
        PROVE  \E b \in Branches, d \in All : tips[b] = Obj(d) /\ c \in Held(History(Obj(d)))
    <3>1. PICK b \in Branches : c \in Held(History(tips[b]))
      BY <2>3 DEF NothingLost
    <3>2. PICK d \in All : tips[b] = Obj(d)
      BY <2>1
    <3> QED BY <3>1, <3>2
  <2>4. ASSUME NEW b \in Branches, NEW o, tips'[b] = o, NEW c, c \in Held(History(o)')
        PROVE  \E e \in Branches : c \in Held(History(tips[e]))'
    <3>1. c \in Held(History(tips[b]))'
      BY <2>4 DEF Held, History
    <3> QED BY <3>1
  <2>5. ASSUME \A c \in All : objects[Obj(c)].parents \subseteq objects'[Obj(c)].parents
        PROVE  \A d \in All : Held(History(Obj(d))) \subseteq Held(History(Obj(d))')
    BY <1>0, <2>5, HistoryGrows DEF Repository
  <2>6. ASSUME tips' = tips, \A c \in All : objects'[Obj(c)] = objects[Obj(c)]
        PROVE  NothingLost'
    <3>1. ASSUME NEW c \in Commits \cup {Extra}, objects'[Obj(c)] # NoObject
          PROVE  \E b \in Branches : c \in Held(History(tips[b]))'
      <4>1. PICK b \in Branches, d \in All : tips[b] = Obj(d) /\ c \in Held(History(Obj(d)))
        BY <2>2, <2>3, <2>6, <3>1
      <4>2. c \in Held(History(Obj(d))')
        BY <2>5, <2>6, <4>1
      <4> QED BY <2>4, <2>6, <4>1, <4>2
    <3> QED BY <3>1 DEF NothingLost, Obj, NoObject
  <2>7. CASE Survey \/ GitFails \/ (\E c \in All : SkipCommit(c) \/ AskCommit(c))
    BY <2>6, <2>7 DEF Survey, GitFails, SkipCommit, AskCommit
  <2>8. CASE CommitReplied
    <3>1. tips' = tips /\ (objects' = objects
          \/ \E v : objects' = [objects EXCEPT ![Rewritten(item.what)] = v])
      BY <2>8 DEF CommitReplied
    <3>2. \A c \in All : objects'[Obj(c)] = objects[Obj(c)]
      BY <1>0, <3>1, Pairs DEF Repository, IsGraph
    <3> QED BY <2>6, <3>1, <3>2
  <2>9. CASE UpdateRef
    <3>1. UNCHANGED <<objects, head, mapping>> /\ step = "loop" /\ todo = {}
      BY <2>9 DEF UpdateRef
    <3>2. CASE tips' = tips
      BY <2>6, <3>1, <3>2
    <3>3. CASE tips' # tips
      <4>1. tips[head] = oldTip /\ oldTip[1] \in mapping
            /\ tips' = [tips EXCEPT ![head] = Rewritten(oldTip[1])]
        BY <2>9, <3>3 DEF UpdateRef, RefUnmoved
      <4>2. PICK R \in SUBSET All : IsWorked(R)
        BY <1>0, <3>1 DEF Work
      <4>3. PICK X, t : IsRewritten(X) /\ t \in X /\ oldTip = Obj(t)
        BY <1>0, <3>1, <4>2, RangeIsRewritten
      <4>4. oldTip[1] = t /\ Rewritten(t) = Becomes(t) /\ t \in All /\ Rewritten(t) \in Vertices
        BY <4>1, <4>3, Pairs DEF Becomes, IsRewritten
      <4>5. Held(History(Rewritten(t))) = Held(History(Obj(t)))
        BY <1>0, <4>3, <4>4, HistoryIsKept DEF Repository
      <4>6. \A o \in Vertices : History(o)' = History(o)
        <5>1. ASSUME NEW o \in Vertices PROVE History(o)' = History(o)
          BY <1>0, <3>1, HistoryStays DEF Repository
        <5> QED BY <5>1
      <4>7. ASSUME NEW c \in Commits \cup {Extra}, objects'[Obj(c)] # NoObject
            PROVE  \E b \in Branches : c \in Held(History(tips[b]))'
        <5>1. PICK b \in Branches, d \in All : tips[b] = Obj(d) /\ c \in Held(History(Obj(d)))
          BY <2>3, <3>1, <4>7
        <5>2. CASE b = head
          <6>1. tips'[b] = Rewritten(t) /\ Obj(d) = Obj(t)
            BY <1>0, <4>1, <4>3, <4>4, <5>1, <5>2 DEF Repository
          <6>2. c \in Held(History(Rewritten(t)))
            BY <4>5, <5>1, <6>1
          <6>3. c \in Held(History(Rewritten(t))')
            BY <4>4, <4>6, <6>2
          <6> QED BY <2>4, <6>1, <6>3
        <5>3. CASE b # head
          <6>1. tips'[b] = Obj(d) /\ Obj(d) \in Vertices
            BY <1>0, <4>1, <5>1, <5>3, Pairs DEF Repository
          <6>2. c \in Held(History(Obj(d))')
            BY <4>6, <5>1, <6>1
          <6> QED BY <2>4, <6>1, <6>2
        <5> QED BY <5>2, <5>3
      <4> QED BY <4>7 DEF NothingLost, Obj, NoObject
    <3> QED BY <3>2, <3>3
  <2>10. CASE DeveloperCommits
    <3>1. /\ objects[Obj(Extra)].parents = {}
          /\ objects' = [objects EXCEPT ![Obj(Extra)].parents = {tips[head]}]
          /\ tips' = [tips EXCEPT ![head] = Obj(Extra)]
      BY <2>10 DEF DeveloperCommits
    <3>2. /\ objects \in [Vertices -> [parents : SUBSET Vertices, sig : Signers]]
          /\ Extra \in All /\ head \in Branches /\ tips \in [Branches -> Vertices]
      BY <1>0 DEF Repository, IsGraph, All
    <3>3. PICK t \in All : tips[head] = Obj(t)
      BY <2>1, <3>2
    <3>4. /\ \A o \in Vertices : o # Obj(Extra) => objects'[o] = objects[o]
          /\ objects'[Obj(Extra)].parents = {Obj(t)}
      BY <3>1, <3>2, <3>3, Pairs
    <3>5. \A d \in All : Held(History(Obj(d))) \subseteq Held(History(Obj(d))')
      <4>1. \A c \in All : objects[Obj(c)].parents \subseteq objects'[Obj(c)].parents
        BY <3>1, <3>4, Pairs
      <4> QED BY <2>5, <4>1
    <3>6. /\ Extra \in Held(History(Obj(Extra))')
          /\ Held(History(Obj(t))') \subseteq Held(History(Obj(Extra))')
      <4>1. PICK o, p : o = Obj(Extra) /\ p = Obj(t)
        OBVIOUS
      <4>2. IsGraph(objects') /\ o \in Vertices /\ p \in objects'[o].parents /\ o[1] = Extra
        BY <1>0, <3>2, <3>4, <4>1, Pairs DEF Repository
      <4>3. o[1] \in Held(History(o)') /\ Held(History(p)') \subseteq Held(History(o)')
        BY <4>2, HistoryHasParents
      <4> QED BY <4>1, <4>2, <4>3
    <3>7. tips'[head] = Obj(Extra) /\ \A b \in Branches : b # head => tips'[b] = tips[b]
      BY <3>1, <3>2
    <3>8. ASSUME NEW c \in Commits \cup {Extra}, objects'[Obj(c)] # NoObject
          PROVE  \E b \in Branches : c \in Held(History(tips[b]))'
      <4>1. CASE c = Extra
        BY <2>4, <3>2, <3>6, <3>7, <4>1
      <4>2. CASE c # Extra
        <5>1. objects[Obj(c)] # NoObject
          BY <2>2, <3>4, <3>8, <4>2, Pairs
        <5>2. PICK b \in Branches, d \in All : tips[b] = Obj(d) /\ c \in Held(History(Obj(d)))
          BY <2>3, <5>1
        <5>3. c \in Held(History(Obj(d))')
          BY <3>5, <5>2
        <5>4. CASE b = head
          <6>1. c \in Held(History(Obj(Extra))')
            BY <3>3, <3>6, <5>2, <5>3, <5>4
          <6> QED BY <2>4, <3>2, <3>7, <6>1
        <5>5. CASE b # head
          BY <2>4, <3>7, <5>2, <5>3, <5>5
        <5> QED BY <5>4, <5>5
      <4> QED BY <4>1, <4>2
    <3> QED BY <3>8 DEF NothingLost, Obj, NoObject
  <2>11. ASSUME NEW b \in Branches, DeveloperSwitches(b) PROVE NothingLost'
    <3>1. objects' = objects /\ IsGraph(objects) /\ tips \in [Branches -> Vertices]
      BY <1>0, <2>11 DEF DeveloperSwitches, Repository
    <3>2. \A e \in Branches : tips'[e] = tips[e] \/ tips[e] = Obj(Root)
      BY <2>11, <3>1 DEF DeveloperSwitches
    <3>3. \A c \in Held(History(Obj(Root))) : c = Root
      <4> DEFINE H == Within[Cardinality(All)]
                 T == {Obj(Root)}
      <4>1. IsHistory(H, objects) /\ History(Obj(Root)) = H[Obj(Root)]
        BY <3>1, HistoryIs DEF History
      <4> HIDE DEF H
      <4>2. Obj(Root) \in Vertices
        BY Pairs DEF All
      <4>3. T \in SUBSET Vertices /\ Closed(T, objects) /\ Obj(Root) \in T
        BY <1>0, <4>2 DEF Closed, Repository
      <4>4. H[Obj(Root)] \subseteq T
        <5> HIDE DEF T
        <5> QED BY <4>1, <4>2, <4>3 DEF IsHistory
      <4> QED BY <4>1, <4>4, Pairs DEF Held
    <3>4. \A d \in All : Held(History(Obj(d))) \subseteq Held(History(Obj(d))')
      BY <2>5, <3>1
    <3>5. ASSUME NEW c \in Commits \cup {Extra}, objects'[Obj(c)] # NoObject
          PROVE  \E e \in Branches : c \in Held(History(tips[e]))'
      <4>1. PICK e \in Branches, d \in All : tips[e] = Obj(d) /\ c \in Held(History(Obj(d)))
        BY <2>3, <3>1, <3>5
      <4>2. tips'[e] = Obj(d)
        BY <2>2, <3>2, <3>3, <4>1
      <4> QED BY <2>4, <3>4, <4>1, <4>2
    <3> QED BY <3>5 DEF NothingLost, Obj, NoObject
  <2> QED BY <2>0, <2>7, <2>8, <2>9, <2>10, <2>11 DEF GitNext
<1> QED BY <1>2, <1>3

\* Whatever the developer commits, and on whatever branch, while the wallet is
\* asked: no commit falls out of the branches' histories.
THEOREM NoCommitLost == Spec => []NothingLost
  BY CoveredAtFirst, GitAlways, CoverKept, PTL DEF Spec
=============================================================================
