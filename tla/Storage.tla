------------------------------ MODULE Storage ------------------------------
(* What AC2 keeps on disk: `ac2-state.json` (identity/state.ts), which the  *)
(* daemon and the process of `openclaw ac2 pair` both read, merge and write *)
(* back whole, and the keystore (keystore/, identity/), into which the keys *)
(* of the engine AC2 used to ship are lifted when a daemon starts.          *)
(*                                                                          *)
(* A write of the file is three steps, because the other process, or a      *)
(* kill, may come between them: the reading that computes the patch, the    *)
(* second reading that saveAc2State merges it onto, and writeFileSync,      *)
(* which truncates before it writes.  A truncated file loads as {}, so      *)
(* opening it for writing empties the model's file.                         *)
(*                                                                          *)
(* Left out: activeRequestId, which is written with requestId and read by   *)
(* nothing; times; the content of conversations; the engine and keychains.  *)
EXTENDS Naturals

CONSTANTS
  Conns,       \* ids of connections
  Service,     \* SERVICE_KEY_ID
  Agents,      \* ids of agent keys the legacy file may hold
  None,
  MaxOps,      \* bound on the writes of the state file
  MaxKills,    \* bound on the kills of the daemon
  Replaces,    \* importing an id the keystore holds replaces its key, or fails
  Amidst       \* a forget counts although the other process is mid-write

ASSUME StorageAssumption ==
  /\ None \notin Conns \cup Agents \cup {"legacy", "new"}
  /\ Service \notin Agents
  /\ MaxOps \in Nat /\ MaxKills \in Nat
  /\ {Replaces, Amidst} \subseteq BOOLEAN

VARIABLES
  file,        \* what loadAc2State() returns
  doing,       \* the write each process is in the middle of
  boot,        \* how far the daemon is
  cycle,       \* the requestId of the daemon's pairing cycle
  shown,       \* the connection the pair process holds as its active session
  forgotten,   \* (auxiliary) connections forgotten and not used since
  ops, kills,
  legacy,      \* entries of the legacy keystore file; its readability
  retired,     \* the legacy file was renamed to its backup
  store,       \* the keystore: which key each id names
  todo,        \* entries the migration has yet to look at
  failed,      \* an entry of this migration failed
  dropped,     \* (auxiliary) ids whose keys a forget removed
  clearing,    \* ids clearAgentIdentities is about to remove
  announced    \* (auxiliary) the service key other agents were shown

stateVars == <<file, doing, cycle, shown, forgotten, ops>>
keyVars == <<legacy, retired, store, todo, failed, dropped, clearing, announced>>
vars == <<stateVars, keyVars, boot, kills>>

Procs == {"daemon", "pair"}
Ids == Agents \cup {Service}
Connection == [identity : BOOLEAN, cookie : BOOLEAN, told : BOOLEAN]

----------------------------------------------------------------------------
(* The state file.                                                          *)

NoConns == [c \in Conns |-> None]
NoState == [requestId |-> None, identity |-> None, connections |-> NoConns, runtime |-> FALSE]

Known(s) == {c \in Conns : s.connections[c] # None}

\* `{ ...g, ...f }`: the fields of f over those of g.
Over(f, g) == [x \in DOMAIN f \cup DOMAIN g |-> IF x \in DOMAIN f THEN f[x] ELSE g[x]]

\* A connection record that is not there yet is created with no conversation.
Fresh == [identity |-> FALSE, cookie |-> FALSE, told |-> FALSE]
Upsert(s, c, fields) ==
  [s.connections EXCEPT ![c] = Over(fields, IF @ = None THEN Fresh ELSE @)]

\* What each writer of the file changes, computed from the state s it read.
Touch(s, c) == [connections |-> Upsert(s, c, <<>>), requestId |-> c]
Cookie(s, c) == [connections |-> Upsert(s, c, [cookie |-> TRUE]), requestId |-> c]
Grant(s, c) ==
  [connections |-> Upsert(s, c, [identity |-> TRUE]), requestId |-> c, identity |-> c]
Message(s, c) == [connections |-> Upsert(s, c, [told |-> TRUE]), requestId |-> c]
Mirror(c) == [requestId |-> c]
Selection(s) == [runtime |-> s.runtime]

\* Forgetting one connection writes back all it read but the connection and,
\* when that is the mirror, the mirror; what the file lacked stays out of it.
Without_KeepsMirror(s, c) == [s EXCEPT !.connections[c] = None]
Without(s, c) ==
  LET rest == {"connections"} \cup {x \in {"requestId"} : s.requestId \notin {None, c}}
              \cup {x \in {"identity"} : s.identity # None} \cup {x \in {"runtime"} : s.runtime}
  IN [x \in rest |-> [s EXCEPT !.connections[c] = None][x]]

Idle == [at |-> "idle", forgets |-> {}]
Quiet(p) == doing[p].at = "idle"

\* p has read the file and is going to write: `clears` when clearAc2State
\* comes first, `forgets` is what is forgotten when it is done.  A write that
\* begins in its course calls a forget off; one that is under way when it
\* begins does so unless Amidst.
Start(p, clears, patch, forgets) ==
  /\ Quiet(p)
  /\ ops < MaxOps
  /\ ops' = ops + 1
  /\ LET alone == Amidst \/ \A q \in Procs \ {p} : Quiet(q) IN
     doing' = [q \in Procs |->
       IF q # p THEN [doing[q] EXCEPT !.forgets = {}]
       ELSE [at |-> IF clears THEN "clear" ELSE "merge", patch |-> patch,
             forgets |-> IF alone THEN forgets ELSE {}]]
  /\ UNCHANGED <<file, boot, kills>>

\* A use of c by p: a connection that is used is no longer a forgotten one.
Use(p, c, patch) ==
  /\ Start(p, FALSE, patch, {})
  /\ forgotten' = forgotten \ {c}
  /\ UNCHANGED keyVars

\* A write of p is over, and with it the forget it was part of.
Forgotten(p) == forgotten \cup doing[p].forgets

Clear(p) ==
  /\ doing[p].at = "clear"
  /\ file' = NoState
  /\ IF doing[p].patch = <<>>
     THEN /\ doing' = [doing EXCEPT ![p] = Idle]
          /\ forgotten' = Forgotten(p)
     ELSE /\ doing' = [doing EXCEPT ![p].at = "merge"]
          /\ UNCHANGED forgotten
  /\ UNCHANGED <<cycle, shown, ops, boot, kills, keyVars>>

Merge(p) ==
  /\ doing[p].at = "merge"
  /\ doing' = [doing EXCEPT ![p] = [at |-> "open", next |-> Over(@.patch, file), forgets |-> @.forgets]]
  /\ UNCHANGED <<file, cycle, shown, forgotten, ops, boot, kills, keyVars>>

Open(p) ==
  /\ doing[p].at = "open"
  /\ file' = NoState
  /\ doing' = [doing EXCEPT ![p].at = "write"]
  /\ UNCHANGED <<cycle, shown, forgotten, ops, boot, kills, keyVars>>

Write(p) ==
  /\ doing[p].at = "write"
  /\ file' = doing[p].next
  /\ doing' = [doing EXCEPT ![p] = Idle]
  /\ forgotten' = Forgotten(p)
  /\ UNCHANGED <<cycle, shown, ops, boot, kills, keyVars>>

----------------------------------------------------------------------------
(* The daemon's use of the file, and that of the pair process.              *)

Up == boot = "up"

\* Which connection a started daemon resumes: the mirror, else one it knows.
Resumable ==
  IF file.requestId # None THEN {file.requestId} ELSE Known(file)

\* armPairing and beginPairing: the cycle serves what is resumed, and the
\* mirror is written when it was missing.  pair.start with nothing known
\* mints an id that was never used.
ArmPairing(c) ==
  /\ Up /\ cycle = None /\ Quiet("daemon")
  /\ c \in Resumable
  /\ cycle' = c
  /\ UNCHANGED shown
  /\ IF file.requestId = None
     THEN Use("daemon", c, Mirror(c))
     ELSE UNCHANGED <<file, doing, boot, kills, keyVars, ops, forgotten>>

PairStart(c) ==
  /\ Up /\ cycle = None
  /\ file.requestId = None
  /\ c \notin Known(file) \cup forgotten
  /\ cycle' = c
  /\ UNCHANGED shown
  /\ Use("daemon", c, Mirror(c))

\* A wallet links: touchConnection, and the pair process, which listens for
\* connection.connected, takes the connection as its active session.
WalletLinks ==
  /\ Up /\ cycle # None
  /\ Use("daemon", cycle, Touch(file, cycle))
  /\ shown' \in {shown, cycle}
  /\ UNCHANGED cycle

\* The key of the agent the wallet granted was stored: setConnectionIdentity.
IdentityGranted ==
  /\ Up /\ cycle # None
  /\ file.identity = None
  /\ Use("daemon", cycle, Grant(file, cycle))
  /\ UNCHANGED <<cycle, shown>>

\* The signaling server hands out a cookie, at any time of a cycle; an
\* unchanged one is not written again.
CookieArrives ==
  /\ Up /\ cycle # None
  /\ ~(cycle \in Known(file) /\ file.connections[cycle].cookie)
  /\ Use("daemon", cycle, Cookie(file, cycle))
  /\ UNCHANGED <<cycle, shown>>

\* pair.cancel, or the cycle ends with the daemon.
CycleEnds ==
  /\ Up /\ cycle # None /\ Quiet("daemon")
  /\ cycle' = None
  /\ UNCHANGED <<file, doing, boot, kills, keyVars, shown, ops, forgotten>>

\* An adapter chosen explicitly was loaded.
RuntimeChosen ==
  /\ Up
  /\ Start("daemon", FALSE, [runtime |-> TRUE], {})
  /\ UNCHANGED <<cycle, shown, forgotten, keyVars>>

\* connections.forget of one connection, which does not look at the cycle.
ForgetConnection(c) ==
  /\ Up
  /\ c \in Known(file)
  /\ Start("daemon", TRUE, Without(file, c), IF cycle = c THEN {} ELSE {c})
  /\ UNCHANGED <<cycle, shown, forgotten, keyVars>>

\* connections.forget of everything, up to the awaiting of the keystore.
ForgetAll ==
  /\ Up
  /\ clearing = None
  /\ Start("daemon", TRUE, IF file.runtime THEN Selection(file) ELSE <<>>, Conns \ {cycle})
  /\ clearing' = Ids
  /\ UNCHANGED <<cycle, shown, forgotten>>
  /\ UNCHANGED <<legacy, retired, store, todo, failed, dropped, announced>>

\* deliverAgentText of the pair process, while it has an active session.
MessageRecorded ==
  /\ shown # None
  /\ Use("pair", shown, Message(file, shown))
  /\ UNCHANGED <<cycle, shown>>

\* connection.disconnected reaches the pair process, or it ends.
PairLetsGo ==
  /\ shown # None /\ Quiet("pair")
  /\ shown' = None
  /\ UNCHANGED <<file, doing, boot, kills, keyVars, cycle, ops, forgotten>>

----------------------------------------------------------------------------
(* The keystore: migration, the service key, clearing.                      *)

\* An entry is good, or cannot be decrypted, or holds nothing importable.
Entry == {"good", "corrupt", "foreign"}
InFile == {k \in Ids : legacy[k] # None}
Present(k) == store[k] # None

\* createAc2KeyStore: the engine is open.  With no legacy file, or with its
\* master key out of reach (a locked login keychain reads like a missing
\* one), nothing is migrated at this start.
OpenKeystore(reachable) ==
  /\ boot = "down"
  /\ failed' = FALSE
  /\ IF retired \/ InFile = {} \/ ~reachable
     THEN boot' = "service" /\ todo' = {}
     ELSE boot' = "migrate" /\ todo' = InFile
  /\ UNCHANGED <<stateVars, kills, legacy, retired, store, dropped, clearing, announced>>

\* One entry: left alone when its id is seen to be present (an export that
\* fails sees nothing), else decrypted and imported.  The import may fail.
MigrateEntry(k, exports, imports) ==
  /\ boot = "migrate" /\ k \in todo
  /\ todo' = todo \ {k}
  /\ IF (Present(k) /\ exports) \/ legacy[k] = "foreign" THEN UNCHANGED <<store, failed>>
     ELSE IF legacy[k] = "good" /\ imports /\ (Present(k) => Replaces)
     THEN store' = [store EXCEPT ![k] = "legacy"] /\ UNCHANGED failed
     ELSE failed' = TRUE /\ UNCHANGED store
  /\ UNCHANGED <<stateVars, boot, kills, legacy, retired, dropped, clearing, announced>>

\* The file is renamed only when nothing failed; the rename may fail.
RetireLegacy_AfterFailures(renames) ==
  /\ boot = "migrate" /\ todo = {}
  /\ retired' = renames
  /\ boot' = "service"
  /\ UNCHANGED <<stateVars, kills, legacy, store, todo, failed, dropped, clearing, announced>>

RetireLegacy(renames) ==
  /\ boot = "migrate" /\ todo = {}
  /\ retired' = (~failed /\ renames)
  /\ boot' = "service"
  /\ UNCHANGED <<stateVars, kills, legacy, store, todo, failed, dropped, clearing, announced>>

\* ensureServiceKey: found, or generated; its DID is shown from here on.
EnsureServiceKey ==
  /\ boot = "service"
  /\ store' = [store EXCEPT ![Service] = IF @ = None THEN "new" ELSE @]
  /\ announced' = store'[Service]
  /\ boot' = "up"
  /\ UNCHANGED <<stateVars, kills, legacy, retired, todo, failed, dropped, clearing>>

\* A wallet's grant stores a key under a new DID.
StoreAgentKey(k) ==
  /\ Up /\ cycle # None /\ ~Present(k) /\ legacy[k] = None
  /\ store' = [store EXCEPT ![k] = "new"]
  /\ UNCHANGED <<stateVars, boot, kills, legacy, retired, todo, failed, dropped, clearing,
                 announced>>

\* clearAgentIdentities: every key but the service key, those the keychain
\* refuses to remove excepted.
ClearAgentIdentities_Everything ==
  /\ Up /\ clearing # None /\ Quiet("daemon")
  /\ store' = [k \in Ids |-> None]
  /\ dropped' = dropped \cup {k \in Ids : Present(k)}
  /\ clearing' = None
  /\ UNCHANGED <<stateVars, boot, kills, legacy, retired, todo, failed, announced>>

ClearAgentIdentities ==
  /\ Up /\ clearing # None /\ Quiet("daemon")
  /\ \E gone \in SUBSET {k \in clearing \ {Service} : Present(k)} :
       /\ store' = [k \in Ids |-> IF k \in gone THEN None ELSE store[k]]
       /\ dropped' = dropped \cup gone
  /\ clearing' = None
  /\ UNCHANGED <<stateVars, boot, kills, legacy, retired, todo, failed, announced>>

\* The daemon is killed, at any step.
Kill ==
  /\ boot # "down" /\ kills < MaxKills
  /\ kills' = kills + 1
  /\ boot' = "down"
  /\ doing' = [doing EXCEPT !["daemon"] = Idle]
  /\ cycle' = None /\ todo' = {} /\ clearing' = None
  /\ UNCHANGED <<file, shown, forgotten, ops, legacy, retired, store, failed, dropped, announced>>

----------------------------------------------------------------------------
\* An install that ran the old engine: its service key, and agent keys.
Init ==
  /\ file \in {NoState} \cup
       {[requestId |-> c, identity |-> c, runtime |-> TRUE,
         connections |-> [NoConns EXCEPT ![c] = [Fresh EXCEPT !.identity = TRUE]]] : c \in Conns}
  /\ doing = [p \in Procs |-> Idle]
  /\ boot = "down"
  /\ cycle = None /\ shown = None /\ forgotten = {}
  /\ ops = 0 /\ kills = 0
  /\ legacy \in [Ids -> Entry \cup {None}]
  /\ legacy[Service] \in {"good", None}
  /\ retired = FALSE
  /\ store = [k \in Ids |-> None]
  /\ todo = {} /\ failed = FALSE /\ dropped = {} /\ clearing = None
  /\ announced = None

Next ==
  \/ \E p \in Procs : Clear(p) \/ Merge(p) \/ Open(p) \/ Write(p)
  \/ \E c \in Conns : ArmPairing(c) \/ PairStart(c) \/ ForgetConnection(c)
  \/ WalletLinks \/ IdentityGranted \/ CookieArrives \/ CycleEnds \/ RuntimeChosen
  \/ ForgetAll \/ MessageRecorded \/ PairLetsGo
  \/ \E b \in BOOLEAN : OpenKeystore(b) \/ RetireLegacy(b)
  \/ \E k \in Ids, exports, imports \in BOOLEAN : MigrateEntry(k, exports, imports)
  \/ EnsureServiceKey \/ ClearAgentIdentities \/ Kill
  \/ \E k \in Agents : StoreAgentKey(k)

Spec == Init /\ [][Next]_vars

----------------------------------------------------------------------------
\* The state file holds a state, and both processes are where they can be.
TypeOK ==
  /\ file \in [requestId : Conns \cup {None}, identity : Conns \cup {None},
              connections : [Conns -> Connection \cup {None}], runtime : BOOLEAN]
  /\ \A p \in Procs : doing[p].at \in {"idle", "clear", "merge", "open", "write"}
  /\ boot \in {"down", "migrate", "service", "up"}
  /\ {cycle, shown} \subseteq Conns \cup {None}
  /\ forgotten \subseteq Conns
  /\ ops \in 0..MaxOps /\ kills \in 0..MaxKills
  /\ legacy \in [Ids -> Entry \cup {None}]
  /\ store \in [Ids -> {"legacy", "new", None}]
  /\ todo \subseteq Ids /\ dropped \subseteq Ids
  /\ clearing \in {None, Ids}
  /\ {retired, failed} \subseteq BOOLEAN
  /\ announced \in {"legacy", "new", None}

\* A connection that was forgotten while no cycle served it and no other
\* process was writing stays forgotten, across kills in the middle of a
\* write and restarts, until it is used again: it is in no record, it is not
\* the mirror, and no cycle resumes it (forgetConnection,
\* resolveResumeRequestId).
NoResurrection ==
  \A c \in forgotten : c \notin Known(file) /\ file.requestId # c /\ cycle # c

\* When the legacy file is retired, each key it could have given is in the
\* keystore or was forgotten since, whatever failed or was killed in between
\* (migrateLegacyKeystore: "only renamed ... once every entry has been
\* accounted for").
RetiredWhenLifted ==
  retired => \A k \in InFile : legacy[k] = "foreign" \/ Present(k) \/ k \in dropped

\* Once the daemon has shown its service DID, nothing changes the key behind
\* it: no later migration, no restart, no forget (ensureServiceKey,
\* clearAgentIdentities).
ServiceKeyStays ==
  [][announced # None => announced' = announced /\ store'[Service] = announced]_vars

\* What migrate.ts says of an upgrade: "service and agent DIDs survive".
ServiceKeySurvivesUpgrade ==
  legacy[Service] = "good" => announced # "new"

============================================================================
