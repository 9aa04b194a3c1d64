---------------------------- MODULE StorageProofs ----------------------------
(***************************************************************************)
(* For any connections, agent keys, writes and kills: what was forgotten   *)
(* stays forgotten, the legacy file retires when it was lifted, and the    *)
(* service key stays what it was shown to be.                              *)
(***************************************************************************)
EXTENDS Storage, TLAPS

-----------------------------------------------------------------------------
(* Types.  TypeOK says nothing of the patch of a write under way: it is    *)
(* one of the shapes that the writers of the file compute.                 *)

Connections == [Conns -> Connection \cup {None}]
State == [requestId : Conns \cup {None}, identity : Conns \cup {None},
          connections : Connections, runtime : BOOLEAN]
\* Some of the fields of a state.
FieldNames == {"requestId", "identity", "connections", "runtime"}
Parts ==
  {f \in UNION {[D -> Conns \cup {None} \cup Connections \cup BOOLEAN] : D \in SUBSET FieldNames} :
     /\ "requestId" \in DOMAIN f => f["requestId"] \in Conns \cup {None}
     /\ "identity" \in DOMAIN f => f["identity"] \in Conns \cup {None}
     /\ "connections" \in DOMAIN f => f["connections"] \in Connections
     /\ "runtime" \in DOMAIN f => f["runtime"] \in BOOLEAN}
Patches ==
  {<<>>} \cup Parts
  \cup [requestId : Conns] \cup [runtime : BOOLEAN]
  \cup [connections : Connections, requestId : Conns]
  \cup [connections : Connections, requestId : Conns, identity : Conns]

Doings ==
  {Idle}
  \cup [at : {"clear", "merge"}, patch : Patches, forgets : SUBSET Conns]
  \cup [at : {"open", "write"}, next : State, forgets : SUBSET Conns]

Types == TypeOK /\ doing \in [Procs -> Doings]

\* The fields of a patch over a state are a state.
LEMMA OverIsState ==
  ASSUME NEW f \in Patches, NEW s \in State
  PROVE  Over(f, s) \in State
<1>1. CASE f = <<>>
  <2>1. DOMAIN f = {}
    BY <1>1
  <2> QED BY <2>1 DEF Over, State
<1>2. CASE f \in Parts
  <2>1. DOMAIN f \subseteq FieldNames /\ DOMAIN s = FieldNames
    BY <1>2 DEF Parts, State, FieldNames
  <2>2. Over(f, s) = [x \in FieldNames |-> IF x \in DOMAIN f THEN f[x] ELSE s[x]]
    BY <2>1 DEF Over
  <2>3. /\ Over(f, s)["requestId"] \in Conns \cup {None}
        /\ Over(f, s)["identity"] \in Conns \cup {None}
        /\ Over(f, s)["connections"] \in Connections
        /\ Over(f, s)["runtime"] \in BOOLEAN
    BY <1>2, <2>2 DEF Parts, State, FieldNames
  <2> QED BY <2>2, <2>3 DEF State, FieldNames
<1>3. CASE f \in [requestId : Conns] \cup [runtime : BOOLEAN]
  BY <1>3 DEF Over, State
<1>4. CASE f \in [connections : Connections, requestId : Conns]
  BY <1>4 DEF Over, State
<1>5. CASE f \in [connections : Connections, requestId : Conns, identity : Conns]
  BY <1>5 DEF Over, State
<1> QED BY <1>1, <1>2, <1>3, <1>4, <1>5 DEF Patches

\* What a use of c makes of the connections: c has a record, the others are left.
Fields == {<<>>} \cup [cookie : BOOLEAN] \cup [identity : BOOLEAN] \cup [told : BOOLEAN]

LEMMA UpsertIsConnections ==
  ASSUME NEW s \in State, NEW c \in Conns, NEW fields \in Fields
  PROVE  /\ Upsert(s, c, fields) \in Connections
         /\ \A d \in Conns \ {c} : Upsert(s, c, fields)[d] = s.connections[d]
<1> DEFINE old == IF s.connections[c] = None THEN Fresh ELSE s.connections[c]
<1>1. old \in Connection
  BY DEF State, Connections, Connection, Fresh
<1>2. Over(fields, old) \in Connection
  <2>1. CASE fields = <<>>
    <3>1. DOMAIN fields = {}
      BY <2>1
    <3> QED BY <3>1, <1>1 DEF Over, Connection
  <2>2. CASE fields # <<>>
    BY <1>1, <2>2 DEF Over, Connection, Fields
  <2> QED BY <2>1, <2>2
<1>3. Upsert(s, c, fields) = [s.connections EXCEPT ![c] = Over(fields, old)]
  BY DEF Upsert
<1> HIDE DEF old
<1> QED BY <1>2, <1>3 DEF State, Connections

\* The patches of the writers are patches.
LEMMA PatchTypes ==
  ASSUME NEW s \in State, NEW c \in Conns
  PROVE  /\ {Touch(s, c), Cookie(s, c), Message(s, c), Grant(s, c)} \subseteq Patches
         /\ {Mirror(c), Selection(s), Without(s, c), <<>>} \subseteq Patches
<1>1. /\ Upsert(s, c, <<>>) \in Connections
      /\ Upsert(s, c, [cookie |-> TRUE]) \in Connections
      /\ Upsert(s, c, [identity |-> TRUE]) \in Connections
      /\ Upsert(s, c, [told |-> TRUE]) \in Connections
  BY UpsertIsConnections DEF Fields
<1>2. {Touch(s, c), Cookie(s, c), Message(s, c), Grant(s, c)} \subseteq Patches
  BY <1>1 DEF Touch, Cookie, Message, Grant, Patches
<1>3. Without(s, c) \in Parts
  <2> DEFINE less == [s EXCEPT !.connections[c] = None]
  <2>1. less \in State /\ Without(s, c) = [x \in DOMAIN Without(s, c) |-> less[x]]
    BY DEF State, Connections, Without
  <2>2. DOMAIN Without(s, c) \in SUBSET FieldNames
    BY DEF Without, FieldNames
  <2>3. \A x \in DOMAIN Without(s, c) : less[x] \in Conns \cup {None} \cup Connections \cup BOOLEAN
    BY <2>1, <2>2 DEF State, FieldNames
  <2>4. Without(s, c) \in [DOMAIN Without(s, c) -> Conns \cup {None} \cup Connections \cup BOOLEAN]
    BY <2>1, <2>3
  <2>5. \A x \in DOMAIN Without(s, c) : Without(s, c)[x] = less[x]
    BY <2>1
  <2> HIDE DEF less
  <2> QED BY <2>1, <2>2, <2>4, <2>5 DEF Parts, State
<1>4. {Mirror(c), Selection(s), <<>>} \subseteq Patches
  BY DEF Mirror, Selection, Patches, State
<1> QED BY <1>2, <1>3, <1>4 DEF Patches

-----------------------------------------------------------------------------
(* One lemma for the beginning of every write.                             *)

LEMMA StartTypes ==
  ASSUME Types, NEW p \in Procs, NEW patch \in Patches, NEW forgets \in SUBSET Conns,
         Start(p, TRUE, patch, forgets) \/ Start(p, FALSE, patch, forgets)
  PROVE  /\ doing' \in [Procs -> Doings]
         /\ ops' \in 0..MaxOps
         /\ \A q \in Procs : doing'[q].at \in {"idle", "clear", "merge", "open", "write"}
<1>1. ASSUME NEW q \in Procs \ {p}
      PROVE  [doing[q] EXCEPT !.forgets = {}] \in Doings
  <2>1. doing[q] \in Doings
    BY DEF Types
  <2>2. CASE doing[q] = Idle
    BY <2>2 DEF Doings, Idle
  <2>3. CASE doing[q] \in [at : {"clear", "merge"}, patch : Patches, forgets : SUBSET Conns]
    BY <2>3 DEF Doings
  <2>4. CASE doing[q] \in [at : {"open", "write"}, next : State, forgets : SUBSET Conns]
    BY <2>4 DEF Doings
  <2> QED BY <2>1, <2>2, <2>3, <2>4 DEF Doings
<1>2. ASSUME NEW f \in SUBSET Conns
      PROVE  /\ [at |-> "clear", patch |-> patch, forgets |-> f] \in Doings
             /\ [at |-> "merge", patch |-> patch, forgets |-> f] \in Doings
  BY DEF Doings
<1>3. doing' \in [Procs -> Doings]
  BY <1>1, <1>2 DEF Start
<1>4. ops' \in 0..MaxOps
  BY StorageAssumption DEF Start, Types, TypeOK
<1>5. \A d \in Doings : d.at \in {"idle", "clear", "merge", "open", "write"}
  BY DEF Doings, Idle
<1> QED BY <1>3, <1>4, <1>5

LEMMA InitTypes == Init => Types
<1> SUFFICES ASSUME Init PROVE Types
  OBVIOUS
<1>1. NoState \in State
  BY DEF NoState, NoConns, State, Connections
<1>2. file \in State
  <2>1. CASE file = NoState
    BY <1>1, <2>1
  <2>2. ASSUME NEW c \in Conns,
               file = [requestId |-> c, identity |-> c, runtime |-> TRUE,
                       connections |-> [NoConns EXCEPT ![c] = [Fresh EXCEPT !.identity = TRUE]]]
        PROVE  file \in State
    <3>1. [Fresh EXCEPT !.identity = TRUE] \in Connection
      BY DEF Fresh, Connection
    <3> HIDE DEF Fresh, Connection
    <3>2. [NoConns EXCEPT ![c] = [Fresh EXCEPT !.identity = TRUE]] \in Connections
      BY <3>1 DEF NoConns, Connections
    <3> QED BY <2>2, <3>2 DEF State
  <2> QED BY <2>1, <2>2 DEF Init
<1>3. doing \in [Procs -> Doings]
  BY DEF Init, Doings
<1>4. \A p \in Procs : doing[p].at \in {"idle", "clear", "merge", "open", "write"}
  BY DEF Init, Idle
<1>5. store \in [Ids -> {"legacy", "new", None}] /\ legacy \in [Ids -> Entry \cup {None}]
  BY DEF Init
<1>6. ops \in 0..MaxOps /\ kills \in 0..MaxKills
  BY StorageAssumption DEF Init
<1> QED BY <1>2, <1>3, <1>4, <1>5, <1>6 DEF Init, Types, TypeOK, State, Connections

\* How far a write is says what is known of it.
LEMMA DoingAt ==
  ASSUME NEW d \in Doings
  PROVE  /\ d.at \in {"idle", "clear", "merge", "open", "write"}
         /\ d.at = "idle" => d = Idle
         /\ d.at \in {"clear", "merge"} =>
              d \in [at : {"clear", "merge"}, patch : Patches, forgets : SUBSET Conns]
         /\ d.at \in {"open", "write"} =>
              d \in [at : {"open", "write"}, next : State, forgets : SUBSET Conns]
         /\ d.forgets \subseteq Conns
<1>1. CASE d = Idle
  BY <1>1 DEF Idle
<1>2. CASE d \in [at : {"clear", "merge"}, patch : Patches, forgets : SUBSET Conns]
  BY <1>2
<1>3. CASE d \in [at : {"open", "write"}, next : State, forgets : SUBSET Conns]
  BY <1>3
<1> QED BY <1>1, <1>2, <1>3 DEF Doings

\* No step leaves the types.
LEMMA StepTypes == Types /\ [Next]_vars => Types'
<1> SUFFICES ASSUME Types, [Next]_vars PROVE Types'
  OBVIOUS
<1> USE DEF stateVars, keyVars, Up
<1> file \in State /\ doing \in [Procs -> Doings]
  BY DEF Types, TypeOK, State, Connections
<1>e. /\ {} \in SUBSET Conns /\ \A c : Conns \ {c} \in SUBSET Conns
      /\ "daemon" \in Procs /\ "pair" \in Procs
  BY DEF Procs
<1>0. ASSUME file' \in State, doing' \in [Procs -> Doings],
             UNCHANGED <<boot, kills, keyVars>>,
             {cycle', shown'} \subseteq Conns \cup {None}, forgotten' \subseteq Conns,
             ops' \in 0..MaxOps
      PROVE  Types'
  BY <1>0, DoingAt DEF Types, TypeOK, State, Connections
<1>w. ASSUME NEW p \in Procs, NEW c \in Conns, NEW patch \in Patches, Use(p, c, patch),
             {cycle', shown'} \subseteq Conns \cup {None}
      PROVE  Types'
  <2>1. Start(p, FALSE, patch, {})
    BY <1>w DEF Use
  <2>2. doing' \in [Procs -> Doings] /\ ops' \in 0..MaxOps
    BY <2>1, <1>e, StartTypes, Zenon
  <2> QED BY <1>w, <2>1, <2>2, <1>0 DEF Use, Start, Types, TypeOK
<1>1. ASSUME NEW p \in Procs, Clear(p) PROVE Types'
  <2>1. NoState \in State
    BY DEF NoState, NoConns, State, Connections
  <2>2. doing[p] \in [at : {"clear", "merge"}, patch : Patches, forgets : SUBSET Conns]
    BY <1>1, DoingAt DEF Clear
  <2>3. [doing[p] EXCEPT !.at = "merge"] \in Doings /\ Idle \in Doings
    BY <2>2 DEF Doings
  <2>4. doing' \in [Procs -> Doings] /\ forgotten' \subseteq Conns
    BY <1>1, <2>2, <2>3 DEF Clear, Forgotten, Types, TypeOK
  <2> QED BY <1>0, <1>1, <2>1, <2>4 DEF Clear, Types, TypeOK
<1>2. ASSUME NEW p \in Procs, Merge(p) PROVE Types'
  <2>1. doing[p] \in [at : {"clear", "merge"}, patch : Patches, forgets : SUBSET Conns]
    BY <1>2, DoingAt DEF Merge
  <2>2. Over(doing[p].patch, file) \in State
    BY <2>1, OverIsState
  <2>3. [at |-> "open", next |-> Over(doing[p].patch, file), forgets |-> doing[p].forgets] \in Doings
    BY <2>1, <2>2 DEF Doings
  <2>4. doing' \in [Procs -> Doings]
    BY <1>2, <2>3 DEF Merge
  <2> QED BY <1>0, <1>2, <2>4 DEF Merge, Types, TypeOK
<1>3. ASSUME NEW p \in Procs, Open(p) PROVE Types'
  <2>1. NoState \in State
    BY DEF NoState, NoConns, State, Connections
  <2>2. doing[p] \in [at : {"open", "write"}, next : State, forgets : SUBSET Conns]
    BY <1>3, DoingAt DEF Open
  <2>3. [doing[p] EXCEPT !.at = "write"] \in Doings
    BY <2>2 DEF Doings
  <2>4. doing' \in [Procs -> Doings]
    BY <1>3, <2>3 DEF Open
  <2> QED BY <1>0, <1>3, <2>1, <2>4 DEF Open, Types, TypeOK
<1>4. ASSUME NEW p \in Procs, Write(p) PROVE Types'
  <2>1. doing[p] \in [at : {"open", "write"}, next : State, forgets : SUBSET Conns]
    BY <1>4, DoingAt DEF Write
  <2>2. doing' \in [Procs -> Doings]
    BY <1>4 DEF Write, Doings
  <2> QED BY <1>0, <1>4, <2>1, <2>2 DEF Write, Forgotten, Types, TypeOK
<1>5. ASSUME NEW c \in Conns, ArmPairing(c) PROVE Types'
  <2>1. CASE Use("daemon", c, Mirror(c))
    BY <1>5, <2>1, <1>w, PatchTypes DEF ArmPairing, Procs, Types, TypeOK
  <2>2. CASE ~Use("daemon", c, Mirror(c))
    BY <1>5, <2>2, <1>0 DEF ArmPairing, Types, TypeOK
  <2> QED BY <2>1, <2>2
<1>6. ASSUME NEW c \in Conns, PairStart(c) PROVE Types'
  BY <1>6, <1>w, PatchTypes DEF PairStart, Procs, Types, TypeOK
<1>7. ASSUME NEW c \in Conns, ForgetConnection(c) PROVE Types'
  <2> DEFINE what == IF cycle = c THEN {} ELSE {c}
  <2>1. Start("daemon", TRUE, Without(file, c), what)
    BY <1>7 DEF ForgetConnection
  <2>2. doing' \in [Procs -> Doings] /\ ops' \in 0..MaxOps
    <3>1. Without(file, c) \in Patches /\ what \in SUBSET Conns
      BY PatchTypes
    <3> HIDE DEF what
    <3> QED BY <2>1, <3>1, <1>e, StartTypes, Zenon
  <2> QED BY <1>7, <2>1, <2>2, <1>0 DEF ForgetConnection, Start, Types, TypeOK
<1>8. CASE WalletLinks \/ IdentityGranted \/ CookieArrives
  <2>1. cycle \in Conns
    BY <1>8 DEF WalletLinks, IdentityGranted, CookieArrives, Types, TypeOK
  <2>2. PICK patch \in Patches : Use("daemon", cycle, patch)
    BY <1>8, <2>1, PatchTypes DEF WalletLinks, IdentityGranted, CookieArrives
  <2>3. {cycle', shown'} \subseteq Conns \cup {None}
    BY <1>8 DEF WalletLinks, IdentityGranted, CookieArrives, Types, TypeOK
  <2> QED BY <2>1, <2>2, <2>3, <1>w DEF Procs
<1>9. CASE CycleEnds \/ PairLetsGo
  BY <1>9, <1>0 DEF CycleEnds, PairLetsGo, Types, TypeOK
<1>10. CASE RuntimeChosen
  <2>1. Start("daemon", FALSE, [runtime |-> TRUE], {}) /\ [runtime |-> TRUE] \in Patches
    BY <1>10 DEF RuntimeChosen, Patches
  <2>2. doing' \in [Procs -> Doings] /\ ops' \in 0..MaxOps
    BY <2>1, <1>e, StartTypes, Zenon
  <2> QED BY <1>10, <2>1, <2>2, <1>0 DEF RuntimeChosen, Start, Types, TypeOK
<1>11. CASE ForgetAll
  <2> DEFINE patch == IF file.runtime THEN Selection(file) ELSE <<>>
  <2>1. Start("daemon", TRUE, patch, Conns \ {cycle})
    BY <1>11 DEF ForgetAll
  <2>2. patch \in Patches
    BY DEF Selection, Patches, State
  <2> HIDE DEF patch
  <2>3. /\ doing' \in [Procs -> Doings] /\ ops' \in 0..MaxOps
        /\ \A q \in Procs : doing'[q].at \in {"idle", "clear", "merge", "open", "write"}
    BY <2>1, <2>2, <1>e, StartTypes, Zenon
  <2> QED BY <1>11, <2>1, <2>3 DEF ForgetAll, Start, Types, TypeOK
<1>12. CASE MessageRecorded
  <2>1. shown \in Conns
    BY <1>12 DEF MessageRecorded, Types, TypeOK
  <2> QED BY <1>12, <2>1, <1>w, PatchTypes DEF MessageRecorded, Procs, Types, TypeOK
<1>13. CASE Kill
  <2>1. doing' \in [Procs -> Doings]
    BY <1>13 DEF Kill, Doings
  <2>2. kills' \in 0..MaxKills
    BY <1>13, StorageAssumption DEF Kill, Types, TypeOK
  <2> QED BY <1>13, <2>1, <2>2, DoingAt DEF Kill, Types, TypeOK
<1>14. ASSUME NEW b \in BOOLEAN, OpenKeystore(b) PROVE Types'
  BY <1>14 DEF OpenKeystore, InFile, Types, TypeOK
<1>15. ASSUME NEW b \in BOOLEAN, RetireLegacy(b) PROVE Types'
  BY <1>15 DEF RetireLegacy, Types, TypeOK
<1>16. ASSUME NEW b \in BOOLEAN, NEW i \in BOOLEAN, NEW k \in Ids, MigrateEntry(k, b, i) PROVE Types'
  BY <1>16 DEF MigrateEntry, Types, TypeOK
<1>17. CASE EnsureServiceKey
  BY <1>17 DEF EnsureServiceKey, Ids, Types, TypeOK
<1>18. ASSUME NEW k \in Agents, StoreAgentKey(k) PROVE Types'
  BY <1>18 DEF StoreAgentKey, Types, TypeOK
<1>19. CASE ClearAgentIdentities
  BY <1>19 DEF ClearAgentIdentities, Present, Types, TypeOK
<1>20. CASE UNCHANGED vars
  BY <1>20 DEF vars, Types, TypeOK
<1> QED
  BY <1>1, <1>2, <1>3, <1>4, <1>5, <1>6, <1>7, <1>8, <1>9, <1>10, <1>11, <1>12, <1>13, <1>14,
     <1>15, <1>16, <1>17, <1>18, <1>19, <1>20 DEF Next

\* Every variable stays within its type, and every write under way is one of
\* those that the writers of the file compute.
THEOREM TypeCorrect == Spec => []TypeOK
<1>1. Types => TypeOK
  BY DEF Types
<1> QED BY InitTypes, StepTypes, <1>1, PTL DEF Spec

-----------------------------------------------------------------------------
(* The keystore.  The two invariants look at one id each: what a migration *)
(* that has not failed is done with is lifted, and the service key that    *)
(* was shown is the one in the keystore, unless an import replaced it.     *)

Lifted(k) == legacy[k] = "foreign" \/ Present(k) \/ k \in dropped
MigrationIsHonest == boot = "migrate" /\ ~failed => \A k \in InFile \ todo : Lifted(k)
ShownIsStored == ~Replaces /\ announced # None => store[Service] = announced

KeyInv == Types /\ RetiredWhenLifted /\ MigrationIsHonest /\ ShownIsStored

\* The steps of the state file and of its processes leave the keystore alone.
FileStep ==
  \/ \E p \in Procs : Clear(p) \/ Merge(p) \/ Open(p) \/ Write(p)
  \/ \E c \in Conns : ArmPairing(c) \/ PairStart(c) \/ ForgetConnection(c)
  \/ WalletLinks \/ IdentityGranted \/ CookieArrives \/ CycleEnds \/ RuntimeChosen
  \/ ForgetAll \/ MessageRecorded \/ PairLetsGo

LEMMA FileStepsLeaveKeys ==
  FileStep => UNCHANGED <<boot, legacy, retired, store, todo, failed, dropped, announced>>
<1> USE DEF keyVars
<1>1. ASSUME NEW p \in Procs, Clear(p) \/ Merge(p) \/ Open(p) \/ Write(p)
      PROVE  UNCHANGED <<boot, keyVars>>
  BY <1>1 DEF Clear, Merge, Open, Write
<1>2. ASSUME NEW c \in Conns, ArmPairing(c) \/ PairStart(c) \/ ForgetConnection(c)
      PROVE  UNCHANGED <<boot, keyVars>>
  BY <1>2 DEF ArmPairing, PairStart, ForgetConnection, Use, Start
<1>3. CASE WalletLinks \/ IdentityGranted \/ CookieArrives \/ CycleEnds
  BY <1>3 DEF WalletLinks, IdentityGranted, CookieArrives, CycleEnds, Use, Start
<1>4. CASE RuntimeChosen \/ ForgetAll \/ MessageRecorded \/ PairLetsGo
  BY <1>4 DEF RuntimeChosen, ForgetAll, MessageRecorded, PairLetsGo, Use, Start
<1> QED BY <1>1, <1>2, <1>3, <1>4 DEF FileStep

LEMMA KeyInitially == Init => KeyInv
  BY InitTypes DEF Init, KeyInv, RetiredWhenLifted, MigrationIsHonest, ShownIsStored

\* A step keeps the invariant, and changes no service key that was shown.
LEMMA KeyStep ==
  KeyInv /\ [Next]_vars =>
    /\ KeyInv'
    /\ ~Replaces /\ announced # None => announced' = announced /\ store'[Service] = announced
<1> DEFINE Kept == /\ RetiredWhenLifted' /\ MigrationIsHonest' /\ ShownIsStored'
                   /\ ~Replaces /\ announced # None =>
                        announced' = announced /\ store'[Service] = announced
<1> SUFFICES ASSUME KeyInv, [Next]_vars PROVE Kept
  BY StepTypes DEF KeyInv
<1> USE DEF KeyInv, RetiredWhenLifted, MigrationIsHonest, ShownIsStored, Lifted, Present, InFile,
            stateVars
<1>t. /\ store \in [Ids -> {"legacy", "new", None}]
      /\ Service \in Ids /\ Agents \subseteq Ids /\ Service \notin Agents
      /\ None \notin {"legacy", "new"}
  BY StorageAssumption DEF Types, TypeOK, Ids
<1>1. CASE FileStep
  BY <1>1, FileStepsLeaveKeys
<1>2. ASSUME NEW b \in BOOLEAN, OpenKeystore(b) PROVE Kept
  BY <1>2 DEF OpenKeystore
<1>3. ASSUME NEW b \in BOOLEAN, NEW i \in BOOLEAN, NEW k \in Ids, MigrateEntry(k, b, i) PROVE Kept
  <2>1. \A j \in Ids : store[j] # None => store'[j] # None /\ (~Replaces => store'[j] = store[j])
    BY <1>3, <1>t DEF MigrateEntry
  <2>2. RetiredWhenLifted' /\ ShownIsStored'
        /\ (~Replaces /\ announced # None => announced' = announced /\ store'[Service] = announced)
    BY <1>3, <1>t, <2>1 DEF MigrateEntry
  <2>3. MigrationIsHonest'
    BY <1>3, <1>t, <2>1 DEF MigrateEntry
  <2> QED BY <2>2, <2>3
<1>4. ASSUME NEW b \in BOOLEAN, RetireLegacy(b) PROVE Kept
  BY <1>4 DEF RetireLegacy
<1>5. CASE EnsureServiceKey
  <2>1. \A j \in Ids : store[j] # None => store'[j] = store[j]
    BY <1>5, <1>t DEF EnsureServiceKey
  <2>2. RetiredWhenLifted' /\ MigrationIsHonest'
    BY <1>5, <2>1 DEF EnsureServiceKey
  <2>3. ShownIsStored' /\ (~Replaces /\ announced # None => announced' = announced)
    BY <1>5, <1>t DEF EnsureServiceKey
  <2> QED BY <2>1, <2>2, <2>3, <1>t
<1>6. ASSUME NEW k \in Agents, StoreAgentKey(k) PROVE Kept
  BY <1>6, <1>t DEF StoreAgentKey
<1>7. CASE ClearAgentIdentities
  <2>1. PICK gone \in SUBSET {k \in clearing \ {Service} : Present(k)} :
          /\ store' = [k \in Ids |-> IF k \in gone THEN None ELSE store[k]]
          /\ dropped' = dropped \cup gone
    BY <1>7 DEF ClearAgentIdentities
  <2> QED BY <1>7, <1>t, <2>1 DEF ClearAgentIdentities
<1>8. CASE Kill
  BY <1>8 DEF Kill
<1>9. CASE UNCHANGED vars
  BY <1>9 DEF vars, keyVars
<1> HIDE DEF Kept, KeyInv
<1> QED
  BY <1>1, <1>2, <1>3, <1>4, <1>5, <1>6, <1>7, <1>8, <1>9, Zenon DEF Next, FileStep

\* Whatever failed or was killed in between, when the legacy file is retired
\* each key it could have given is in the keystore or was forgotten since.
THEOREM LegacyRetiresLifted == Spec => []RetiredWhenLifted
<1>1. KeyInv => RetiredWhenLifted
  BY DEF KeyInv
<1> QED BY KeyInitially, KeyStep, <1>1, PTL DEF Spec

\* Once the daemon has shown its service DID, no migration, restart or forget
\* changes the key behind it, if the keystore does not let an import replace a
\* key that it holds.
THEOREM ServiceKeyIsKept ==
  ASSUME ~Replaces
  PROVE  Spec => ServiceKeyStays
<1>1. KeyInv /\ [Next]_vars =>
        [announced # None => announced' = announced /\ store'[Service] = announced]_vars
  BY KeyStep
<1> QED BY KeyInitially, KeyStep, <1>1, PTL DEF Spec, ServiceKeyStays

-----------------------------------------------------------------------------
(* Forgetting.  A connection that was forgotten is not only out of the      *)
(* file: no write under way, of either process, would bring it back.  That *)
(* is so when its forget was the only writer, and it stays so because      *)
(* every other write puts back what it read, except for the one connection *)
(* it uses.                                                                *)

CleanState(s, c) == s.connections[c] = None /\ s.requestId # c
CleanPatch(f, c) ==
  /\ "connections" \in DOMAIN f => f.connections[c] = None
  /\ "requestId" \in DOMAIN f => f.requestId # c
CleanDoing(d, c) ==
  /\ d.at \in {"clear", "merge"} => CleanPatch(d.patch, c)
  /\ d.at \in {"open", "write"} => CleanState(d.next, c)

\* What was forgotten, and what the write under way of the daemon forgets.
Gone ==
  \A c \in forgotten :
    CleanState(file, c) /\ cycle # c /\ \A p \in Procs : CleanDoing(doing[p], c)
Going ==
  \A c \in doing["daemon"].forgets :
    /\ CleanDoing(doing["daemon"], c) /\ cycle # c /\ Quiet("pair")
    /\ doing["daemon"].at = "merge" => CleanState(file, c)
OnlyDaemonForgets ==
  /\ doing["pair"].forgets = {}
  /\ Quiet("daemon") => doing["daemon"].forgets = {}

ForgetInv == Types /\ Gone /\ Going /\ OnlyDaemonForgets

\* A clean patch over a clean state is clean.
LEMMA OverIsClean ==
  ASSUME NEW f \in Patches, NEW s \in State, NEW c \in Conns,
         CleanPatch(f, c), CleanState(s, c)
  PROVE  CleanState(Over(f, s), c)
<1>1. CASE f = <<>>
  <2>1. DOMAIN f = {}
    BY <1>1
  <2> QED BY <2>1 DEF Over, State, CleanState
<1>2. CASE f # <<>>
  BY <1>2 DEF Over, State, CleanState, CleanPatch, Patches
<1> QED BY <1>1, <1>2

\* The writers put back what they read of a connection they do not use, and
\* a forget leaves out what it forgets.
LEMMA PatchesAreClean ==
  ASSUME NEW s \in State, NEW c \in Conns
  PROVE  /\ \A d \in Conns \ {c} : CleanState(s, c) =>
              /\ CleanPatch(Touch(s, d), c) /\ CleanPatch(Cookie(s, d), c)
              /\ CleanPatch(Grant(s, d), c) /\ CleanPatch(Message(s, d), c)
              /\ CleanPatch(Mirror(d), c) /\ CleanPatch(Without(s, d), c)
         /\ CleanPatch(Without(s, c), c)
         /\ CleanPatch(Selection(s), c) /\ CleanPatch(<<>>, c)
         /\ CleanPatch([runtime |-> TRUE], c) /\ CleanState(NoState, c)
<1>0. None \notin Conns
  BY StorageAssumption
<1>1. ASSUME NEW d \in Conns \ {c}, CleanState(s, c)
      PROVE  /\ CleanPatch(Touch(s, d), c) /\ CleanPatch(Cookie(s, d), c)
             /\ CleanPatch(Grant(s, d), c) /\ CleanPatch(Message(s, d), c)
  <2>1. \A fields \in Fields : Upsert(s, d, fields)[c] = None
    BY <1>1, UpsertIsConnections DEF CleanState
  <2>2. /\ <<>> \in Fields /\ [cookie |-> TRUE] \in Fields
        /\ [identity |-> TRUE] \in Fields /\ [told |-> TRUE] \in Fields
    BY DEF Fields
  <2> QED BY <2>1, <2>2 DEF Touch, Cookie, Grant, Message, CleanPatch
<1>2. ASSUME NEW d \in Conns \ {c}, CleanState(s, c)
      PROVE  CleanPatch(Mirror(d), c) /\ CleanPatch(Without(s, d), c)
  BY <1>0, <1>2 DEF Mirror, Without, CleanState, CleanPatch, State, Connections
<1>3. CleanPatch(Without(s, c), c)
  BY <1>0 DEF Without, CleanPatch, State, Connections
<1>4. CleanPatch(Selection(s), c) /\ CleanPatch([runtime |-> TRUE], c)
  BY DEF Selection, CleanPatch
<1>5. CleanPatch(<<>>, c)
  <2>1. DOMAIN <<>> = {}
    OBVIOUS
  <2> QED BY <2>1 DEF CleanPatch
<1>6. CleanState(NoState, c)
  BY <1>0 DEF NoState, NoConns, CleanState
<1> QED BY <1>1, <1>2, <1>3, <1>4, <1>5, <1>6

\* Calling off the forget of a write changes nothing else of it.
LEMMA CalledOff ==
  ASSUME NEW d \in Doings
  PROVE  /\ [d EXCEPT !.forgets = {}].forgets = {}
         /\ [d EXCEPT !.forgets = {}].at = d.at
         /\ \A c \in Conns : CleanDoing(d, c) => CleanDoing([d EXCEPT !.forgets = {}], c)
<1>1. CASE d = Idle
  BY <1>1 DEF Idle, CleanDoing
<1>2. CASE d \in [at : {"clear", "merge"}, patch : Patches, forgets : SUBSET Conns]
  BY <1>2 DEF CleanDoing
<1>3. CASE d \in [at : {"open", "write"}, next : State, forgets : SUBSET Conns]
  BY <1>3 DEF CleanDoing
<1> QED BY <1>1, <1>2, <1>3 DEF Doings

\* A write that begins clean of what is forgotten keeps it so.
LEMMA StartForgets ==
  ASSUME ~Amidst, ForgetInv, NEW p \in Procs, NEW clears \in BOOLEAN, NEW patch \in Patches,
         NEW forgets \in SUBSET Conns, Start(p, clears, patch, forgets),
         forgets # {} => p = "daemon" /\ clears,
         forgotten' \subseteq forgotten,
         \A c \in forgotten' \cup forgets : cycle' # c /\ CleanPatch(patch, c)
  PROVE  Gone' /\ Going' /\ OnlyDaemonForgets'
<1> DEFINE q == IF p = "daemon" THEN "pair" ELSE "daemon"
           mine == IF Quiet(q) THEN forgets ELSE {}
           new == [at |-> IF clears THEN "clear" ELSE "merge", patch |-> patch, forgets |-> mine]
<1>1. q \in Procs /\ Procs = {p, q} /\ p # q /\ Procs = {"daemon", "pair"}
  BY DEF Procs
<1>2. /\ doing'[p] = new /\ doing'[q] = [doing[q] EXCEPT !.forgets = {}]
      /\ file' = file
  <2>1. (\A r \in Procs \ {p} : Quiet(r)) <=> Quiet(q)
    BY <1>1
  <2> HIDE DEF q
  <2> QED BY <1>1, <2>1 DEF Start
<1>3. doing[q] \in Doings
  BY <1>1 DEF ForgetInv, Types
<1>4. /\ doing'[q].forgets = {} /\ doing'[q].at = doing[q].at
      /\ \A c \in Conns : CleanDoing(doing[q], c) => CleanDoing(doing'[q], c)
  BY <1>2, <1>3, CalledOff
<1>5. /\ doing'[p].forgets = mine /\ doing'[p].at = (IF clears THEN "clear" ELSE "merge")
      /\ \A c \in Conns : CleanPatch(patch, c) => CleanDoing(doing'[p], c)
  BY <1>2 DEF CleanDoing
<1> HIDE DEF q, new
<1>6. Gone'
  <2> SUFFICES ASSUME NEW c \in forgotten'
               PROVE  CleanState(file, c) /\ cycle' # c /\ \A r \in Procs : CleanDoing(doing'[r], c)
    BY <1>2 DEF Gone
  <2>1. c \in forgotten /\ c \in Conns
    BY DEF ForgetInv, Types, TypeOK
  <2>2. CleanDoing(doing[q], c) /\ CleanState(file, c)
    BY <2>1, <1>1 DEF ForgetInv, Gone
  <2> QED BY <2>1, <2>2, <1>1, <1>4, <1>5
<1>7. OnlyDaemonForgets'
  BY <1>1, <1>4, <1>5 DEF ForgetInv, OnlyDaemonForgets, Quiet, Start
<1>8. Going'
  <2>1. CASE p = "daemon"
    <3>1. q = "pair"
      BY <2>1 DEF q
    <3> SUFFICES ASSUME NEW c \in mine
                 PROVE  /\ CleanDoing(doing'["daemon"], c) /\ cycle' # c /\ Quiet("pair")'
                        /\ doing'["daemon"].at # "merge"
      BY <2>1, <1>5 DEF Going
    <3>2. c \in forgets /\ Quiet(q) /\ clears
      OBVIOUS
    <3> QED BY <2>1, <3>1, <3>2, <1>4, <1>5 DEF Quiet
  <2>2. CASE p # "daemon"
    <3>1. q = "daemon"
      BY <2>2, <1>1
    <3> QED BY <3>1, <1>4 DEF Going
  <2> QED BY <2>1, <2>2
<1> QED BY <1>6, <1>7, <1>8

\* A use of c brings back no other connection.
LEMMA UseForgets ==
  ASSUME ~Amidst, ForgetInv, NEW p \in Procs, NEW c \in Conns, NEW patch \in Patches, Use(p, c, patch),
         \A d \in Conns \ {c} : CleanState(file, d) => CleanPatch(patch, d),
         \A d \in forgotten \ {c} : cycle' # d
  PROVE  Gone' /\ Going' /\ OnlyDaemonForgets'
<1>1. Start(p, FALSE, patch, {}) /\ forgotten' = forgotten \ {c}
  BY DEF Use
<1>2. forgotten \subseteq Conns /\ \A d \in forgotten : CleanState(file, d)
  BY DEF ForgetInv, Gone, Types, TypeOK
<1>3. \A d \in forgotten' \cup {} : cycle' # d /\ CleanPatch(patch, d)
  BY <1>1, <1>2
<1>4. {} \in SUBSET Conns /\ forgotten' \subseteq forgotten /\ FALSE \in BOOLEAN
  BY <1>1
<1> QED BY <1>1, <1>3, <1>4, StartForgets, Zenon

\* The three steps of a write, and the clearing before them.
LEMMA WriteForgets ==
  ASSUME ForgetInv, NEW p \in Procs, Clear(p) \/ Merge(p) \/ Open(p) \/ Write(p)
  PROVE  Gone' /\ Going' /\ OnlyDaemonForgets'
<1> DEFINE d == doing[p]
<1>1. /\ forgotten \subseteq Conns /\ file \in State /\ doing \in [Procs -> Doings]
      /\ d.forgets \subseteq Conns /\ p \in {"daemon", "pair"} /\ cycle' = cycle
      /\ p = "pair" => d.forgets = {}
  BY DoingAt DEF ForgetInv, Types, TypeOK, State, Connections, OnlyDaemonForgets, Procs,
     Clear, Merge, Open, Write
<1>2. \A c \in Conns : CleanState(NoState, c) /\ CleanDoing(Idle, c)
  BY <1>1, PatchesAreClean DEF CleanDoing, Idle
<1>3. ASSUME NEW new, doing' = [doing EXCEPT ![p] = new], new.forgets = d.forgets,
             new.at # "idle", forgotten' = forgotten,
             \A c \in Conns : CleanState(file, c) => CleanState(file', c),
             \A c \in forgotten \cup d.forgets : CleanDoing(new, c),
             new.at = "merge" => \A c \in Conns : CleanState(file', c)
      PROVE  Gone' /\ Going' /\ OnlyDaemonForgets'
  <2>1. doing'[p] = new /\ \A q \in Procs \ {p} : doing'[q] = doing[q]
    BY <1>1, <1>3
  <2>2. Gone'
    BY <1>1, <1>3, <2>1 DEF ForgetInv, Gone
  <2>3. OnlyDaemonForgets'
    BY <1>1, <1>3, <2>1 DEF ForgetInv, OnlyDaemonForgets, Quiet, Procs
  <2>4. Going'
    <3>1. CASE p = "daemon"
      BY <1>1, <1>3, <2>1, <3>1 DEF ForgetInv, Going, Quiet, Procs
    <3>2. CASE p = "pair"
      BY <1>1, <1>3, <2>1, <3>2 DEF ForgetInv, Going, Quiet, Procs,
         Clear, Merge, Open, Write
    <3> QED BY <1>1, <3>1, <3>2
  <2> QED BY <2>2, <2>3, <2>4
<1>4. ASSUME doing' = [doing EXCEPT ![p] = Idle], forgotten' = Forgotten(p),
             \A c \in forgotten \cup d.forgets : CleanState(file', c)
      PROVE  Gone' /\ Going' /\ OnlyDaemonForgets'
  <2>1. /\ doing'[p] = Idle /\ \A q \in Procs \ {p} : doing'[q] = doing[q]
        /\ Idle.at = "idle" /\ Idle.forgets = {}
    BY <1>1, <1>4 DEF Idle
  <2>2. Gone'
    <3> SUFFICES ASSUME NEW c \in forgotten \cup d.forgets
                 PROVE  cycle # c /\ \A q \in Procs : CleanDoing(doing'[q], c)
      BY <1>1, <1>4 DEF Gone, Forgotten
    <3>1. c \in Conns
      BY <1>1
    <3>2. CASE c \in forgotten
      BY <1>2, <2>1, <3>1, <3>2 DEF ForgetInv, Gone
    <3>3. CASE c \in d.forgets
      <4>1. p = "daemon" /\ cycle # c /\ Quiet("pair")
        BY <1>1, <3>3 DEF ForgetInv, Going
      <4>2. CleanDoing(doing["pair"], c)
        BY <4>1 DEF CleanDoing, Quiet
      <4> QED BY <1>2, <2>1, <3>1, <4>1, <4>2 DEF Procs
    <3> QED BY <3>2, <3>3
  <2>3. OnlyDaemonForgets'
    BY <1>1, <2>1 DEF ForgetInv, OnlyDaemonForgets, Quiet, Procs
  <2>4. Going'
    <3>1. CASE p = "daemon"
      BY <2>1, <3>1 DEF Going
    <3>2. CASE p = "pair"
      BY <1>1, <2>1, <3>2 DEF ForgetInv, Going, Quiet, Procs, Clear, Merge, Open, Write
    <3> QED BY <1>1, <3>1, <3>2
  <2> QED BY <2>2, <2>3, <2>4
<1>c. \A c \in forgotten \cup d.forgets : CleanDoing(d, c)
  BY <1>1 DEF ForgetInv, Gone, Going
<1>5. CASE Clear(p)
  <2>1. d \in [at : {"clear", "merge"}, patch : Patches, forgets : SUBSET Conns]
    BY <1>1, <1>5, DoingAt DEF Clear
  <2>2. CASE d.patch = <<>>
    BY <1>1, <1>2, <1>4, <1>5, <2>2 DEF Clear
  <2>3. CASE d.patch # <<>>
    <3> DEFINE new == [d EXCEPT !.at = "merge"]
    <3>1. /\ doing' = [doing EXCEPT ![p] = new] /\ forgotten' = forgotten /\ file' = NoState
      BY <1>5, <2>3 DEF Clear
    <3>2. /\ new.at = "merge" /\ new.forgets = d.forgets
          /\ \A c \in forgotten \cup d.forgets : CleanDoing(new, c)
      BY <2>1, <1>c, <1>5 DEF CleanDoing, Clear
    <3> HIDE DEF new
    <3> QED BY <1>2, <1>3, <3>1, <3>2
  <2> QED BY <2>2, <2>3
<1>6. CASE Merge(p)
  <2>1. d \in [at : {"clear", "merge"}, patch : Patches, forgets : SUBSET Conns]
    BY <1>1, <1>6, DoingAt DEF Merge
  <2> DEFINE new == [at |-> "open", next |-> Over(d.patch, file), forgets |-> d.forgets]
  <2>2. /\ doing' = [doing EXCEPT ![p] = new] /\ forgotten' = forgotten /\ file' = file
    BY <1>6 DEF Merge
  <2>3. \A c \in forgotten \cup d.forgets : CleanState(file, c) /\ CleanPatch(d.patch, c)
    BY <1>1, <1>6, <1>c DEF ForgetInv, Gone, Going, CleanDoing, Merge
  <2>4. \A c \in forgotten \cup d.forgets : CleanState(Over(d.patch, file), c)
    BY <1>1, <2>1, <2>3, OverIsClean
  <2>5. /\ new.at = "open" /\ new.forgets = d.forgets
        /\ \A c \in forgotten \cup d.forgets : CleanDoing(new, c)
    BY <2>4 DEF CleanDoing
  <2> HIDE DEF new
  <2> QED BY <1>3, <2>2, <2>5
<1>7. CASE Open(p)
  <2>1. d \in [at : {"open", "write"}, next : State, forgets : SUBSET Conns]
    BY <1>1, <1>7, DoingAt DEF Open
  <2> DEFINE new == [d EXCEPT !.at = "write"]
  <2>2. /\ doing' = [doing EXCEPT ![p] = new] /\ forgotten' = forgotten /\ file' = NoState
    BY <1>7 DEF Open
  <2>3. /\ new.at = "write" /\ new.forgets = d.forgets
        /\ \A c \in forgotten \cup d.forgets : CleanDoing(new, c)
    BY <2>1, <1>c, <1>7 DEF CleanDoing, Open
  <2> HIDE DEF new
  <2> QED BY <1>2, <1>3, <2>2, <2>3
<1>8. CASE Write(p)
  <2>1. /\ doing' = [doing EXCEPT ![p] = Idle] /\ forgotten' = Forgotten(p) /\ file' = d.next
        /\ d.at = "write"
    BY <1>8 DEF Write
  <2>2. \A c \in forgotten \cup d.forgets : CleanState(d.next, c)
    BY <1>c, <2>1 DEF CleanDoing
  <2> QED BY <1>4, <2>1, <2>2
<1> QED BY <1>5, <1>6, <1>7, <1>8

LEMMA ForgetInitially == Init => ForgetInv
  BY InitTypes DEF Init, ForgetInv, Gone, Going, OnlyDaemonForgets, Idle, Procs

\* Every step keeps it: the daemon changes its cycle only through a use of a
\* connection or while it is not writing, and no one resumes what is neither
\* in a record nor the mirror.
LEMMA ForgetStep ==
  ASSUME ~Amidst
  PROVE  ForgetInv /\ [Next]_vars => ForgetInv'
<1> DEFINE Kept == Gone' /\ Going' /\ OnlyDaemonForgets'
<1> SUFFICES ASSUME ForgetInv, [Next]_vars PROVE Kept
  BY StepTypes DEF ForgetInv
<1>t. /\ file \in State /\ forgotten \subseteq Conns /\ cycle \in Conns \cup {None}
      /\ shown \in Conns \cup {None} /\ None \notin Conns /\ Procs = {"daemon", "pair"}
      /\ \A c \in forgotten : CleanState(file, c) /\ cycle # c
  BY StorageAssumption DEF ForgetInv, Gone, Types, TypeOK, State, Connections, Procs
<1>p. \A c \in Conns : /\ Touch(file, c) \in Patches /\ Cookie(file, c) \in Patches
                       /\ Message(file, c) \in Patches /\ Grant(file, c) \in Patches
                       /\ Mirror(c) \in Patches /\ Without(file, c) \in Patches
                       /\ Selection(file) \in Patches /\ <<>> \in Patches
                       /\ [runtime |-> TRUE] \in Patches
  BY <1>t, PatchTypes DEF Patches
<1>0. ASSUME UNCHANGED <<file, forgotten>>, doing' = doing,
             \A c \in forgotten \cup doing["daemon"].forgets : cycle' # c
      PROVE  Kept
  BY <1>0 DEF ForgetInv, Gone, Going, OnlyDaemonForgets, Quiet
<1>q. Quiet("daemon") => doing["daemon"].forgets = {}
  BY DEF ForgetInv, OnlyDaemonForgets
<1>1. ASSUME NEW p \in Procs, Clear(p) \/ Merge(p) \/ Open(p) \/ Write(p) PROVE Kept
  BY <1>1, WriteForgets
<1>2. ASSUME NEW c \in Conns, ArmPairing(c) PROVE Kept
  <2>1. c \notin forgotten
    BY <1>2, <1>t DEF ArmPairing, Resumable, Known, CleanState
  <2>2. CASE Use("daemon", c, Mirror(c))
    BY <1>2, <1>t, <1>p, <2>1, <2>2, UseForgets, PatchesAreClean DEF ArmPairing
  <2>3. CASE ~Use("daemon", c, Mirror(c))
    BY <1>2, <1>0, <1>q, <2>1, <2>3 DEF ArmPairing
  <2> QED BY <2>2, <2>3
<1>3. ASSUME NEW c \in Conns, PairStart(c) PROVE Kept
  BY <1>3, <1>t, <1>p, UseForgets, PatchesAreClean DEF PairStart
<1>4. CASE WalletLinks \/ IdentityGranted \/ CookieArrives
  <2>1. cycle \in Conns /\ cycle' = cycle
    BY <1>4, <1>t DEF WalletLinks, IdentityGranted, CookieArrives
  <2>2. PICK patch \in {Touch(file, cycle), Grant(file, cycle), Cookie(file, cycle)} :
          Use("daemon", cycle, patch)
    BY <1>4 DEF WalletLinks, IdentityGranted, CookieArrives
  <2>3. \A d \in Conns \ {cycle} : CleanState(file, d) => CleanPatch(patch, d)
    BY <1>t, <2>1, PatchesAreClean
  <2> QED BY <1>t, <1>p, <2>1, <2>2, <2>3, UseForgets
<1>5. CASE MessageRecorded
  <2>1. /\ shown \in Conns /\ cycle' = cycle /\ Use("pair", shown, Message(file, shown))
    BY <1>5, <1>t DEF MessageRecorded
  <2> QED BY <1>t, <1>p, <2>1, UseForgets, PatchesAreClean
<1>6. CASE CycleEnds \/ PairLetsGo
  <2>1. UNCHANGED <<file, forgotten>> /\ doing' = doing
    BY <1>6 DEF CycleEnds, PairLetsGo
  <2>2. \A c \in forgotten \cup doing["daemon"].forgets : cycle' # c
    BY <1>6, <1>t, <1>q DEF CycleEnds, PairLetsGo, ForgetInv, Going
  <2> QED BY <1>0, <2>1, <2>2
<1>s. ASSUME NEW patch \in Patches, NEW forgets \in SUBSET Conns,
             Start("daemon", TRUE, patch, forgets), UNCHANGED <<cycle, forgotten>>,
             \A c \in forgotten \cup forgets : cycle # c /\ CleanPatch(patch, c)
      PROVE  Kept
  BY <1>s, <1>t, StartForgets
<1>7. CASE RuntimeChosen
  <2>1. /\ Start("daemon", FALSE, [runtime |-> TRUE], {}) /\ UNCHANGED <<cycle, forgotten>>
        /\ [runtime |-> TRUE] \in Patches /\ {} \in SUBSET Conns /\ FALSE \in BOOLEAN
    BY <1>7 DEF RuntimeChosen, Patches
  <2>2. forgotten' \subseteq forgotten /\ "daemon" \in Procs
    BY <1>t, <2>1
  <2>3. \A c \in forgotten' \cup {} : cycle' # c /\ CleanPatch([runtime |-> TRUE], c)
    BY <1>t, <2>1, PatchesAreClean
  <2> QED BY <2>1, <2>2, <2>3, StartForgets, Zenon
<1>8. ASSUME NEW c \in Conns, ForgetConnection(c) PROVE Kept
  <2> DEFINE what == IF cycle = c THEN {} ELSE {c}
  <2>1. Start("daemon", TRUE, Without(file, c), what) /\ UNCHANGED <<cycle, forgotten>>
    BY <1>8 DEF ForgetConnection
  <2>2. \A d \in forgotten \cup what : cycle # d /\ CleanPatch(Without(file, c), d)
    BY <1>t, PatchesAreClean
  <2>3. what \in SUBSET Conns /\ Without(file, c) \in Patches /\ TRUE \in BOOLEAN
    BY <1>p
  <2> HIDE DEF what, Kept
  <2> QED BY <1>s, <2>1, <2>2, <2>3
<1>9. CASE ForgetAll
  <2> DEFINE patch == IF file.runtime THEN Selection(file) ELSE <<>>
  <2>1. Start("daemon", TRUE, patch, Conns \ {cycle}) /\ UNCHANGED <<cycle, forgotten>>
    BY <1>9 DEF ForgetAll
  <2>2. \A d \in Conns : CleanPatch(patch, d)
    BY <1>t, PatchesAreClean
  <2>3. patch \in Patches
    BY DEF Selection, Patches, State
  <2> DEFINE what == Conns \ {cycle}
  <2>4. \A d \in forgotten \cup what : cycle # d /\ CleanPatch(patch, d)
    BY <1>t, <2>2
  <2>5. what \in SUBSET Conns /\ Start("daemon", TRUE, patch, what)
    BY <2>1
  <2> HIDE DEF patch, what, Kept
  <2> QED BY <1>s, <2>1, <2>3, <2>4, <2>5
<1>10. CASE Kill
  <2>1. /\ doing' = [doing EXCEPT !["daemon"] = Idle] /\ UNCHANGED <<file, forgotten>>
        /\ cycle' = None
    BY <1>10 DEF Kill
  <2>2. doing'["daemon"] = Idle /\ doing'["pair"] = doing["pair"]
    BY <1>t, <2>1 DEF ForgetInv, Types
  <2>3. Gone'
    BY <1>t, <2>1, <2>2 DEF ForgetInv, Gone, CleanDoing, Idle
  <2> QED BY <2>2, <2>3 DEF ForgetInv, Going, OnlyDaemonForgets, Idle
<1>11. CASE UNCHANGED stateVars
  <2>1. \A c \in forgotten \cup doing["daemon"].forgets : cycle # c
    BY <1>t DEF ForgetInv, Going
  <2> QED BY <1>0, <1>11, <2>1 DEF stateVars
<1>12. ASSUME NEW b \in BOOLEAN, OpenKeystore(b) \/ RetireLegacy(b) PROVE Kept
  BY <1>11, <1>12 DEF OpenKeystore, RetireLegacy
<1>13. ASSUME NEW b \in BOOLEAN, NEW i \in BOOLEAN, NEW k \in Ids, MigrateEntry(k, b, i) PROVE Kept
  BY <1>11, <1>13 DEF MigrateEntry
<1>14. ASSUME NEW k \in Agents, StoreAgentKey(k) PROVE Kept
  BY <1>11, <1>14 DEF StoreAgentKey
<1>15. CASE EnsureServiceKey \/ ClearAgentIdentities \/ UNCHANGED vars
  BY <1>11, <1>15 DEF EnsureServiceKey, ClearAgentIdentities, vars
<1> HIDE DEF Kept
<1> QED
  BY <1>1, <1>2, <1>3, <1>4, <1>5, <1>6, <1>7, <1>8, <1>9, <1>10, <1>12, <1>13, <1>14, <1>15,
     Zenon DEF Next

\* What was forgotten while no cycle served it and no other process wrote is
\* in no record, is not the mirror and is served by no cycle until it is used
\* again, whatever is killed and whoever writes afterwards.
THEOREM ForgottenStaysForgotten ==
  ASSUME ~Amidst
  PROVE  Spec => []NoResurrection
<1>1. ForgetInv => NoResurrection
  BY DEF ForgetInv, Gone, CleanState, NoResurrection, Known
<1> QED BY ForgetInitially, ForgetStep, <1>1, PTL DEF Spec
=============================================================================
