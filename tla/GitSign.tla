------------------------------ MODULE GitSign ------------------------------
(* `openclaw ac2 git-sign` (git/sign.ts): sign the commit at a ref, or all  *)
(* of base..ref, oldest first, each with one approval of the wallet, write  *)
(* the signed commits as new objects with their parents rewritten, and move *)
(* the ref by compare-and-swap.  Meanwhile the developer goes on working in *)
(* the repository.                                                          *)
(*                                                                          *)
(* A commit object is <<c, 0>> as it was and <<c, 1>> as it was rewritten:  *)
(* c is what it holds besides parents and signature.  rev-list gives        *)
(* parents before children, which git does as long as commit dates do not   *)
(* run backwards.                                                           *)
EXTENDS SignRelay, FiniteSets

CONSTANTS
  Commits,      \* the commits between the base and the tip
  Root,         \* the base
  Extra,        \* the commit the developer may add
  Tip,
  Parents,      \* [Commits -> sets of Commits and Root]
  Signed,       \* whose signatures the commits may carry at first
  Branches, Main

VARIABLES
  step,         \* where signCommits is
  objects,      \* the commit objects in the repository
  head, tips,   \* what HEAD refers to, and the tip of each branch
  ranged,       \* a base was given
  walletKey,    \* what resolveWalletSigningPublicKey knows
  oldTip,
  todo,         \* commits of the range not looked at yet
  mapping,      \* commits that were rewritten
  outcome       \* the status, or the reason, that signCommits returns

gitVars == <<step, objects, head, tips, ranged, walletKey, oldTip, todo, mapping, outcome>>

\* Whose signature a commit carries.  The wallet signs with the paired
\* account's key; the bound controller's may be another one, or unknown.
Signers == {"account", "machine", None}
Keys == {"account", "controller", None}

\* The range is a graph without cycles, all of it behind the tip.
ASSUME GitAssumption ==
  /\ None \notin {"account", "signed", "already_signed"}
  /\ IsFiniteSet(Commits) /\ Root \notin Commits /\ Extra \notin Commits \cup {Root}
  /\ Tip \in Commits /\ Main \in Branches
  /\ Signed \subseteq [Commits -> Signers]
  /\ Parents \in [Commits -> SUBSET (Commits \cup {Root})]
  /\ \E rank \in [Commits \cup {Root} -> 0..Cardinality(Commits)] :
       \A c \in Commits : \A p \in Parents[c] : rank[p] < rank[c]
  /\ \A S \in SUBSET (Commits \cup {Root}) :
       Tip \in S /\ (\A c \in S \ {Root} : Parents[c] \subseteq S) => Commits \subseteq S

All == Commits \cup {Root, Extra}
Obj(c) == <<c, 0>>
Rewritten(c) == <<c, 1>>
NoObject == [parents |-> {}, sig |-> None]

GitInit ==
  /\ step = "start"
  /\ ranged \in BOOLEAN /\ walletKey \in Keys
  /\ \E sig \in Signed :
       objects = [o \in All \X {0, 1} |->
         IF o[2] = 0 /\ o[1] \in Commits
         THEN [parents |-> {Obj(p) : p \in Parents[o[1]]}, sig |-> sig[o[1]]]
         ELSE NoObject]
  /\ head = Main /\ tips = [b \in Branches |-> IF b = Main THEN Obj(Tip) ELSE Obj(Root)]
  /\ oldTip = None /\ todo = {} /\ mapping = {} /\ outcome = None

\* o and all its ancestors: what can be reached in so many steps.
Within[n \in 0..Cardinality(All)] ==
  [o \in All \X {0, 1} |->
    {o} \cup IF n = 0 THEN {} ELSE UNION {Within[n - 1][p] : p \in objects[o].parents}]
History(o) == Within[Cardinality(All)][o]
Held(os) == {o[1] : o \in os}

End(o) == step' = "end" /\ outcome' = o

\* rev-parse of HEAD and rev-list of the range.
Survey ==
  /\ step = "start"
  /\ oldTip' = tips[head]
  /\ todo' = IF ranged THEN Held(History(tips[head])) \ {Root} ELSE {tips[head][1]}
  /\ IF todo' = {} THEN End("no_commits_in_range") ELSE step' = "loop" /\ UNCHANGED outcome
  /\ UNCHANGED <<objects, head, tips, ranged, walletKey, mapping, relayVars>>

\* rewriteParentHeaders
WithParents(c) ==
  {IF p[1] \in mapping THEN Rewritten(p[1]) ELSE p : p \in objects[Obj(c)].parents}

\* The commit needs no signature of the wallet's.
Skips_OnOldParents(c) ==
  LET sig == objects[Obj(c)].sig IN sig # None /\ (walletKey = None \/ sig = walletKey)
Skips(c) ==
  LET sig == objects[Obj(c)].sig IN
  /\ sig # None
  /\ WithParents(c) = objects[Obj(c)].parents
  /\ walletKey = None \/ sig = walletKey

\* rev-list --reverse: parents before children.
MayBeNext(c) == \A p \in objects[Obj(c)].parents : p[1] \notin todo

SkipCommit(c) ==
  /\ step = "loop" /\ c \in todo /\ MayBeNext(c)
  /\ Skips(c)
  /\ todo' = todo \ {c}
  /\ UNCHANGED <<step, objects, head, tips, ranged, walletKey, oldTip, mapping, outcome, relayVars>>

AskCommit(c) ==
  /\ step = "loop" /\ c \in todo /\ MayBeNext(c)
  /\ ~Skips(c)
  /\ Ask([schema |-> "git", what |-> c])
  /\ step' = "asked"
  /\ UNCHANGED <<objects, head, tips, ranged, walletKey, oldTip, todo, mapping, outcome>>

\* gitSignFlow checks the length and the signature; any key will do.
CommitReplied ==
  /\ step = "asked" /\ call = "none"
  /\ LET c == item.what IN
     IF reply = "one"
     THEN /\ objects' = [objects EXCEPT ![Rewritten(c)] =
                          [parents |-> WithParents(c), sig |-> "account"]]
          /\ mapping' = mapping \cup {c}
          /\ todo' = todo \ {c}
          /\ step' = "loop"
          /\ UNCHANGED outcome
     ELSE /\ End(IF reply = "error" THEN "error" ELSE "rejected")
          /\ UNCHANGED <<objects, mapping, todo>>
  /\ Taken
  /\ UNCHANGED <<head, tips, ranged, walletKey, oldTip>>

\* update-ref HEAD newTip oldTip: the branch HEAD is on by now.
RefUnmoved_Unchecked == TRUE
RefUnmoved == tips[head] = oldTip

UpdateRef ==
  /\ step = "loop" /\ todo = {}
  /\ IF oldTip[1] \notin mapping
     THEN End("already_signed") /\ UNCHANGED tips
     ELSE IF RefUnmoved
     THEN End("signed") /\ tips' = [tips EXCEPT ![head] = Rewritten(oldTip[1])]
     ELSE End("git_error") /\ UNCHANGED tips
  /\ UNCHANGED <<objects, head, ranged, walletKey, oldTip, todo, mapping, relayVars>>

\* A git command fails: rev-parse, rev-list and update-ref are caught; cat-file,
\* and the hash-object that stores what the wallet signed, throw.
GitFails ==
  /\ \/ step = "start" /\ End("git_error") /\ UNCHANGED relayVars
     \/ step = "loop" /\ todo # {} /\ End("error") /\ UNCHANGED relayVars
     \/ step = "loop" /\ todo = {} /\ oldTip[1] \in mapping
        /\ End("git_error") /\ UNCHANGED relayVars
     \/ step = "asked" /\ call = "none" /\ reply = "one" /\ End("error") /\ Taken
  /\ UNCHANGED <<objects, head, tips, ranged, walletKey, oldTip, todo, mapping>>

\* The developer commits on the branch checked out, or checks out another
\* branch (once each), which may be one that starts where this one is.
DeveloperCommits ==
  /\ objects[Obj(Extra)].parents = {}
  /\ objects' = [objects EXCEPT ![Obj(Extra)].parents = {tips[head]}]
  /\ tips' = [tips EXCEPT ![head] = Obj(Extra)]
  /\ UNCHANGED <<step, head, ranged, walletKey, oldTip, todo, mapping, outcome, relayVars>>

DeveloperSwitches(b) ==
  /\ head = Main /\ b # Main
  /\ head' = b
  /\ tips' \in {tips, IF tips[b] = Obj(Root) THEN [tips EXCEPT ![b] = tips[head]] ELSE tips}
  /\ UNCHANGED <<step, objects, ranged, walletKey, oldTip, todo, mapping, outcome, relayVars>>

GitNext ==
  \/ Survey \/ CommitReplied \/ UpdateRef \/ GitFails
  \/ \E c \in All : SkipCommit(c) \/ AskCommit(c)
  \/ DeveloperCommits
  \/ \E b \in Branches : DeveloperSwitches(b)

----------------------------------------------------------------------------
(* What may not go wrong.                                                   *)

SignedEnough(o) ==
  objects[o].sig # None /\ (walletKey # None => objects[o].sig = "account")

\* When git-sign says that all is signed, it is: every commit of the range,
\* in the history the ref now has, carries a signature - the wallet's, when
\* its key is known - and the history holds the commits it held before, each
\* once.
ChainSigned ==
  LET tip == IF outcome = "signed" THEN Rewritten(oldTip[1]) ELSE oldTip
      range == {o \in History(tip) : IF ranged THEN o[1] # Root ELSE o = tip}
  IN outcome \in {"signed", "already_signed"} =>
       /\ \A o \in range : SignedEnough(o)
       /\ Held(History(tip)) = Held(History(oldTip))
       /\ Cardinality(History(tip)) = Cardinality(History(oldTip))

\* No commit is lost: whatever the developer did while the wallet was asked,
\* each commit made is still in the history of a branch.
NothingLost ==
  \A c \in Commits \cup {Extra} :
    objects[Obj(c)] # NoObject => \E b \in Branches : c \in Held(History(tips[b]))
=============================================================================
