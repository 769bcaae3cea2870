---------------------------- MODULE StartupProofs ----------------------------
(***************************************************************************)
(* What TLAPS proves of Startup, for all processes, keys and messages.     *)
(***************************************************************************)
EXTENDS Startup, TLAPS

(* A migrator is not ahead of the schema. *)
MigratorsFollow ==
  /\ \A p \in Procs : pc[p] \in {"migrate", "run"} => ver[p] <= schema
  /\ \A p \in Procs : pc[p] = "run" => ver[p] < Latest
  /\ \A p \in Procs : pc[p] = "mark" => ver[p] < schema

(* From the second migration on every message has its chat. *)
RowsInChat == schema >= 2 => \A r \in rows : r.inChat

MigrationInv ==
  TypeOK /\ CleanIsMigrated /\ MigratorsFollow /\ RowsInChat /\ RunningIsMigrated

(* Once there is a key file, only its deletion takes it away, so that the
   identity screen is out of reach. *)
KeyStays ==
  "key removed" \notin mishaps =>
    \A p \in Procs :
      /\ pc[p] \in {"load", "write", "screen"} => file # Absent
      /\ pc[p] \notin {"identity", "renew"}
      /\ id[p] = svcId[p]

(* As long as starts do not overlap there is one of them, and the key file is
   its own business. *)
OneStart ==
  mishaps \subseteq {"cut short"} =>
    /\ \A p, q \in Procs : pc[p] \in Starting /\ pc[q] \in Starting => p = q
    /\ \A j, k \in used : j = k
    /\ file \in Keys => used \subseteq {file}
    /\ file \notin Keys => used = {}
    /\ \A p \in Procs : /\ pc[p] = "generate" => file = Absent
                        /\ pc[p] = "write" => file = Torn

(* If nothing has gone wrong, only a start can be in the middle of something. *)
NothingPending ==
  mishaps = {} =>
    /\ \A p \in Procs : pc[p] # "fatal"
    /\ dirty <=> \E p \in Procs : pc[p] \in {"run", "mark"}
    /\ ~dirty => version = schema
    /\ \A p \in Procs : /\ pc[p] \in {"migrate", "run"} => ver[p] = schema
                        /\ pc[p] = "mark" => ver[p] + 1 = schema
    /\ file = Torn => \E p \in Procs : pc[p] = "write"

-----------------------------------------------------------------------------
(***************************************************************************)
(* Types.                                                                  *)
(***************************************************************************)

LEMMA NextVersion ==
  ASSUME NEW v \in 0..Latest, NEW w \in 0..Latest, v < Latest \/ v < w
  PROVE  v + 1 \in 0..Latest
  BY DEF Latest

LEMMA InitType == Init => TypeOK
<1> SUFFICES ASSUME Init PROVE TypeOK
  OBVIOUS
<1>1. DbType
  <2>1. version \in 0..(Latest - 1) /\ dirty = FALSE /\ schema = version
    BY Zenon DEF Init, DbInit
  <2>2. rows \in SUBSET Row
    BY Zenon DEF Init, DbInit
  <2>3. version \in 0..Latest
    BY <2>1 DEF Latest
  <2> QED
    BY <2>1, <2>2, <2>3 DEF DbType
<1>2. KeyType /\ used \in SUBSET Keys
  BY KeysAssumption DEF Init, KeyInit, KeyType
<1> QED
  BY <1>1, <1>2 DEF Init, TypeOK, Latest, Down, Mishaps

LEMMA DatabaseTypes ==
  ASSUME DbType, NEW v \in 0..Latest,
         \/ MarkDirty(v) \/ MarkClean(v) \/ RunMigration(v)
         \/ \E m \in Messages : SaveMessage(m)
         \/ UNCHANGED dbVars
  PROVE  DbType'
<1>1. CASE MarkDirty(v) \/ MarkClean(v)
  BY <1>1 DEF DbType, MarkDirty, MarkClean
<1>2. CASE RunMigration(v)
  <2>1. schema' \in {schema, v} /\ UNCHANGED <<version, dirty>>
    BY <1>2 DEF RunMigration
  <2>2. \A r \in rows : [r EXCEPT !.inChat = TRUE] \in Row
    BY DEF DbType, Row
  <2>3. rows' \in SUBSET Row
    BY <1>2, <2>2 DEF DbType, RunMigration, Filled
  <2> QED
    BY <2>1, <2>3 DEF DbType
<1>3. CASE \E m \in Messages : SaveMessage(m)
  <2>1. PICK m \in Messages : SaveMessage(m)
    BY <1>3
  <2>2. [id |-> m, inChat |-> TRUE] \in Row
    BY DEF Row
  <2> QED
    BY <2>1, <2>2 DEF DbType, SaveMessage
<1>4. CASE UNCHANGED dbVars
  BY <1>4 DEF DbType, dbVars
<1> QED
  BY <1>1, <1>2, <1>3, <1>4

LEMMA KeyTypes ==
  ASSUME KeyType,
         \/ Truncate \/ \E k \in Keys : WriteKey(k)
         \/ file' = Absent /\ UNCHANGED made
         \/ UNCHANGED keyVars
  PROVE  KeyType'
  BY DEF KeyType, Truncate, WriteKey, keyVars

(* The rest of the type invariant. *)
ProcType ==
  /\ pc \in [Procs -> Down \cup Starting \cup Up]
  /\ ver \in [Procs -> 0..Latest]
  /\ id \in [Procs -> Keys \cup {Absent}]
  /\ svcId \in [Procs -> Keys \cup {Absent}]
  /\ used \in SUBSET Keys
  /\ mishaps \in SUBSET Mishaps

LEMMA StepType == MigrationInv /\ [Next]_vars => TypeOK'
<1> SUFFICES ASSUME MigrationInv, [Next]_vars PROVE TypeOK'
  OBVIOUS
<1>1. DbType /\ KeyType /\ ProcType
  BY DEF MigrationInv, TypeOK, ProcType
<1>2. ASSUME DbType', KeyType', ProcType' PROVE TypeOK'
  BY <1>2 DEF TypeOK, ProcType
<1>3. 0 \in 0..Latest
  BY DEF Latest
<1>4. ASSUME NEW p \in Procs, pc[p] \in {"migrate", "run", "mark"},
             pc[p] = "migrate" => ver[p] < Latest
      PROVE  ver[p] + 1 \in 0..Latest
  <2>1. ver[p] \in 0..Latest /\ schema \in 0..Latest
    BY <1>1 DEF ProcType, DbType
  <2>2. ver[p] < Latest \/ ver[p] < schema
    BY <1>4 DEF MigrationInv, MigratorsFollow
  <2> QED
    BY <2>1, <2>2, NextVersion
<1>5. ASSUME NEW p \in Procs, Begin(p) PROVE TypeOK'
  <2>1. DbType'
    BY <1>1, <1>4, <1>5, DatabaseTypes DEF Begin
  <2>2. KeyType' /\ ProcType'
    BY <1>1, <1>5 DEF Begin, ProcType, Goto, KeyType, keyVars, Starting, Migrating
  <2> QED
    BY <1>2, <2>1, <2>2
<1>6. ASSUME NEW p \in Procs, Migrate(p) PROVE TypeOK'
  <2>1. DbType'
    BY <1>1, <1>4, <1>6, DatabaseTypes DEF Migrate
  <2>2. KeyType' /\ ProcType'
    BY <1>1, <1>6
    DEF Migrate, ProcType, Goto, KeyType, keyVars, Starting, Migrating, Down
  <2> QED
    BY <1>2, <2>1, <2>2
<1>7. ASSUME NEW p \in Procs, Finish(p) PROVE TypeOK'
  <2>1. ver[p] + 1 \in 0..Latest
    BY <1>4, <1>7 DEF Finish
  <2>2. DbType'
    BY <1>1, <1>7, <2>1, DatabaseTypes DEF Finish
  <2>3. KeyType' /\ ProcType'
    BY <1>1, <1>7, <2>1
    DEF Finish, ProcType, Goto, KeyType, keyVars, Starting, Migrating
  <2> QED
    BY <1>2, <2>2, <2>3
<1>8. ASSUME NEW p \in Procs, Save(p) PROVE TypeOK'
  <2>1. DbType'
    BY <1>1, <1>3, <1>8, DatabaseTypes DEF Save
  <2>2. KeyType' /\ ProcType'
    BY <1>1, <1>8 DEF Save, ProcType, KeyType, keyVars, procVars
  <2> QED
    BY <1>2, <2>1, <2>2
<1>9. ASSUME NEW p \in Procs,
             \/ Launch(p) \/ ReadVersion(p) \/ AskForKey(p) \/ ShowWindow(p)
             \/ EnterMessenger(p) \/ Stop(p) \/ Load(p)
      PROVE  TypeOK'
  <2>1. UNCHANGED <<dbVars, keyVars>>
    BY <1>9 DEF Launch, ReadVersion, AskForKey, ShowWindow, EnterMessenger, Stop, Load
  <2>2. DbType' /\ KeyType'
    BY <1>1, <1>3, <2>1, DatabaseTypes, KeyTypes
  <2>3. CASE Launch(p) \/ Stop(p)
    BY <1>1, <1>2, <2>2, <2>3
    DEF Launch, Stop, ProcType, Goto, Starting, Migrating, Down, Mishaps
  <2>4. CASE ReadVersion(p)
    BY <1>1, <1>2, <2>2, <2>4
    DEF ReadVersion, ProcType, DbType, Goto, Starting, Migrating, Down
  <2>5. CASE AskForKey(p) \/ ShowWindow(p) \/ EnterMessenger(p)
    BY <1>1, <1>2, <2>2, <2>5
    DEF AskForKey, ShowWindow, EnterMessenger, ProcType, Goto, Starting, Up
  <2>6. CASE Load(p)
    BY <1>1, <1>2, <2>2, <2>6 DEF Load, BuildWith, ProcType, Goto, Starting, Down
  <2> QED
    BY <1>9, <2>3, <2>4, <2>5, <2>6
<1>10. ASSUME NEW p \in Procs,
              \/ OpenKeyFile(p) \/ ReopenKeyFile(p) \/ Generate(p)
              \/ GenerateNewIdentity(p)
       PROVE  TypeOK'
  <2>1. /\ UNCHANGED dbVars
        /\ Truncate \/ \E k \in Keys : WriteKey(k)
    BY <1>10 DEF OpenKeyFile, ReopenKeyFile, Generate, GenerateNewIdentity
  <2>2. DbType' /\ KeyType'
    BY <1>1, <1>3, <2>1, DatabaseTypes, KeyTypes
  <2>3. ProcType'
    BY <1>1, <1>10
    DEF OpenKeyFile, ReopenKeyFile, Generate, GenerateNewIdentity, BuildWith,
        ProcType, Goto, Starting, Up
  <2> QED
    BY <1>2, <2>2, <2>3
<1>11. CASE RemoveKey
  <2>1. DbType' /\ KeyType'
    BY <1>1, <1>3, <1>11, DatabaseTypes, KeyTypes DEF RemoveKey
  <2> QED
    BY <1>1, <1>2, <1>11, <2>1 DEF RemoveKey, ProcType, procVars, Mishaps
<1>12. CASE UNCHANGED vars
  BY <1>1, <1>2, <1>12
  DEF vars, dbVars, keyVars, procVars, DbType, KeyType, ProcType
<1> QED
  BY <1>5, <1>6, <1>7, <1>8, <1>9, <1>10, <1>11, <1>12 DEF Next, Start, Window

-----------------------------------------------------------------------------
(***************************************************************************)
(* Migrations.                                                             *)
(***************************************************************************)

(* The steps that leave the database as it is and begin no migration. *)
Aside(p) ==
  \/ Launch(p) \/ AskForKey(p) \/ Load(p) \/ OpenKeyFile(p) \/ Generate(p)
  \/ ShowWindow(p) \/ ReopenKeyFile(p) \/ GenerateNewIdentity(p)
  \/ EnterMessenger(p) \/ Stop(p)

LEMMA AsideStep ==
  ASSUME TypeOK, NEW p \in Procs, Aside(p)
  PROVE  /\ UNCHANGED <<dbVars, ver>>
         /\ \E where \in Down \cup Starting \cup Up :
              /\ pc' = [pc EXCEPT ![p] = where]
              /\ where \notin {"migrate", "run", "mark"}
              /\ \/ where \in Down \cup Migrating
                 \/ pc[p] \notin Down \cup Migrating
                 \/ pc[p] = "migrate" /\ ver[p] = Latest
  BY DEF Aside, Launch, AskForKey, Load, OpenKeyFile, Generate, ShowWindow,
         ReopenKeyFile, GenerateNewIdentity, EnterMessenger, Stop, BuildWith,
         Goto, Down, Starting, Migrating, Up

LEMMA StepMigration == MigrationInv /\ [Next]_vars => MigrationInv'
<1> SUFFICES ASSUME MigrationInv, [Next]_vars, TypeOK' PROVE MigrationInv'
  BY StepType
<1> USE DEF MigrationInv, CleanIsMigrated, MigratorsFollow, RowsInChat,
            RunningIsMigrated, TypeOK, DbType, Latest
<1>1. ASSUME NEW p \in Procs, Aside(p) PROVE MigrationInv'
  <2>1. UNCHANGED dbVars /\ ver' = ver
    BY <1>1, AsideStep
  <2>2. PICK where \in Down \cup Starting \cup Up :
          /\ pc' = [pc EXCEPT ![p] = where]
          /\ where \notin {"migrate", "run", "mark"}
          /\ \/ where \in Down \cup Migrating
             \/ pc[p] \notin Down \cup Migrating
             \/ pc[p] = "migrate" /\ ver[p] = Latest
    BY <1>1, AsideStep
  <2>3. MigratorsFollow' /\ CleanIsMigrated' /\ RowsInChat'
    BY <2>1, <2>2 DEF dbVars
  <2>4. pc[p] = "migrate" /\ ver[p] = Latest => schema = Latest
    OBVIOUS
  <2>5. RunningIsMigrated'
    BY <2>1, <2>2, <2>4 DEF dbVars
  <2> QED
    BY <2>3, <2>5
<1>2. ASSUME NEW p \in Procs, ReadVersion(p) PROVE MigrationInv'
  BY <1>2 DEF ReadVersion, dbVars, Goto, Down, Migrating
<1>3. ASSUME NEW p \in Procs, Begin(p) PROVE MigrationInv'
  BY <1>3 DEF Begin, MarkDirty, Goto, Down, Migrating
<1>4. ASSUME NEW p \in Procs, Migrate(p) PROVE MigrationInv'
  <2>1. CASE RunMigration(ver[p] + 1) /\ Goto(p, "mark")
    <3>1. ver[p] <= schema /\ ver[p] < Latest /\ ver' = ver
      BY <1>4 DEF Migrate
    <3>2. /\ schema' \in 0..Latest /\ schema <= schema' /\ ver[p] < schema'
          /\ version' = version /\ dirty' = dirty
      BY <2>1, <3>1 DEF RunMigration
    <3>3. RowsInChat'
      <4>1. ASSUME schema' >= 2, NEW r \in rows' PROVE r.inChat
        <5>1. CASE ver[p] + 1 \in {2, 3}
          BY <2>1, <4>1, <5>1 DEF RunMigration, Filled, Row
        <5>2. CASE ver[p] + 1 \notin {2, 3}
          BY <2>1, <3>1, <4>1, <5>2 DEF RunMigration, Filled, Applies
        <5> QED
          BY <5>1, <5>2
      <4> QED
        BY <4>1
    <3>4. MigratorsFollow' /\ CleanIsMigrated'
      BY <1>4, <2>1, <3>1, <3>2 DEF Migrate, Goto
    <3>5. RunningIsMigrated'
      BY <1>4, <2>1, <3>2, <3>3 DEF Migrate, Goto, Down, Migrating
    <3> QED
      BY <3>3, <3>4, <3>5
  <2>2. CASE Goto(p, "fatal") /\ UNCHANGED dbVars
    BY <1>4, <2>2 DEF Migrate, Goto, dbVars, Down, Migrating
  <2> QED
    BY <1>4, <2>1, <2>2 DEF Migrate
<1>5. ASSUME NEW p \in Procs, Finish(p) PROVE MigrationInv'
  BY <1>5 DEF Finish, MarkClean, Goto, Down, Migrating
<1>6. ASSUME NEW p \in Procs, Save(p) PROVE MigrationInv'
  BY <1>6 DEF Save, SaveMessage, procVars, Down, Migrating
<1>7. CASE RemoveKey
  BY <1>7 DEF RemoveKey, dbVars, procVars
<1>8. CASE UNCHANGED vars
  BY <1>8 DEF vars, dbVars, procVars
<1> QED
  BY <1>1, <1>2, <1>3, <1>4, <1>5, <1>6, <1>7, <1>8 DEF Next, Start, Window, Aside

LEMMA InitMigration == Init => MigrationInv
<1> SUFFICES ASSUME Init, TypeOK PROVE MigrationInv
  BY InitType
<1>1. CleanIsMigrated
  BY DEF Init, DbInit, CleanIsMigrated, TypeOK, DbType
<1>2. RowsInChat
  BY DEF Init, DbInit, RowsInChat
<1> QED
  BY <1>1, <1>2 DEF Init, MigrationInv, MigratorsFollow, RunningIsMigrated, Down

LEMMA MigrationHolds == Spec => []MigrationInv
  BY InitMigration, StepMigration, PTL DEF Spec

(* Every reachable state is well typed. *)
THEOREM TypeCorrect == Spec => []TypeOK
<1>1. MigrationInv => TypeOK
  BY DEF MigrationInv
<1> QED
  BY <1>1, MigrationHolds, PTL

(* A version that is not dirty is not ahead of the schema. *)
THEOREM CleanMeansMigrated == Spec => []CleanIsMigrated
<1>1. MigrationInv => CleanIsMigrated
  BY DEF MigrationInv
<1> QED
  BY <1>1, MigrationHolds, PTL

(* No process gets past RunMigrations with a schema that is not the latest. *)
THEOREM RunsOnLatestSchema == Spec => []RunningIsMigrated
<1>1. MigrationInv => RunningIsMigrated
  BY DEF MigrationInv
<1> QED
  BY <1>1, MigrationHolds, PTL

-----------------------------------------------------------------------------
(***************************************************************************)
(* The identity.                                                           *)
(***************************************************************************)

LEMMA InitKeyStays == Init => KeyStays
  BY DEF Init, KeyStays

LEMMA StepKeyStays == TypeOK /\ KeyStays /\ [Next]_vars => KeyStays'
<1> SUFFICES ASSUME TypeOK, KeyStays, [Next]_vars, "key removed" \notin mishaps'
             PROVE  \A p \in Procs :
                      /\ pc'[p] \in {"load", "write", "screen"} => file' # Absent
                      /\ pc'[p] \notin {"identity", "renew"}
                      /\ id'[p] = svcId'[p]
  BY DEF KeyStays
<1>1. pc \in [Procs -> Down \cup Starting \cup Up]
      /\ id \in [Procs -> Keys \cup {Absent}]
      /\ svcId \in [Procs -> Keys \cup {Absent}]
  BY DEF TypeOK
<1>2. "key removed" \notin mishaps
  BY DEF Next, Start, Window, Launch, ReadVersion, Begin, Migrate, Finish,
         AskForKey, Load, OpenKeyFile, Generate, ShowWindow, ReopenKeyFile,
         GenerateNewIdentity, EnterMessenger, Save, Stop, RemoveKey, vars
<1>3. \A p \in Procs :
        /\ pc[p] \in {"load", "write", "screen"} => file # Absent
        /\ pc[p] \notin {"identity", "renew"}
        /\ id[p] = svcId[p]
  BY <1>2 DEF KeyStays
<1>4. ASSUME NEW p \in Procs,
             \/ Launch(p) \/ ReadVersion(p) \/ Begin(p) \/ Migrate(p) \/ Finish(p)
             \/ AskForKey(p) \/ ShowWindow(p) \/ EnterMessenger(p)
      PROVE  \A q \in Procs :
               /\ pc'[q] \in {"load", "write", "screen"} => file' # Absent
               /\ pc'[q] \notin {"identity", "renew"}
               /\ id'[q] = svcId'[q]
  BY <1>1, <1>3, <1>4
  DEF Launch, ReadVersion, Begin, Migrate, Finish, AskForKey, ShowWindow,
      EnterMessenger, Goto, HasKey, keyVars
<1>5. ASSUME NEW p \in Procs, Load(p) \/ Stop(p)
      PROVE  \A q \in Procs :
               /\ pc'[q] \in {"load", "write", "screen"} => file' # Absent
               /\ pc'[q] \notin {"identity", "renew"}
               /\ id'[q] = svcId'[q]
  BY <1>1, <1>3, <1>5 DEF Load, Stop, BuildWith, Goto, keyVars
<1>6. ASSUME NEW p \in Procs, OpenKeyFile(p) \/ Generate(p) \/ Save(p)
      PROVE  \A q \in Procs :
               /\ pc'[q] \in {"load", "write", "screen"} => file' # Absent
               /\ pc'[q] \notin {"identity", "renew"}
               /\ id'[q] = svcId'[q]
  BY <1>1, <1>3, <1>6, KeysAssumption
  DEF OpenKeyFile, Generate, Save, Truncate, WriteKey, BuildWith, Goto, keyVars,
      procVars
<1>7. ASSUME NEW p \in Procs, ReopenKeyFile(p) \/ GenerateNewIdentity(p)
      PROVE  FALSE
  BY <1>3, <1>7 DEF ReopenKeyFile, GenerateNewIdentity
<1>8. ~RemoveKey
  BY DEF RemoveKey
<1>9. CASE UNCHANGED vars
  BY <1>3, <1>9 DEF vars, keyVars, procVars
<1> QED
  BY <1>4, <1>5, <1>6, <1>7, <1>8, <1>9 DEF Next, Start, Window

(* Processor, host and node service have the same identity as long as the key
   file is not deleted. *)
THEOREM PartsHaveOneIdentity == Spec => []PartsAgree
<1>1. TypeOK /\ KeyStays => PartsAgree
  BY DEF KeyStays, PartsAgree
<1>2. TypeOK /\ TypeOK' /\ KeyStays /\ [Next]_vars => KeyStays'
  BY StepKeyStays
<1> QED
  BY <1>1, <1>2, InitKeyStays, TypeCorrect, PTL DEF Spec

LEMMA InitOneStart == Init => OneStart
  BY KeysAssumption DEF Init, KeyInit, OneStart, Starting, Migrating

LEMMA StepOneStart == TypeOK /\ KeyStays /\ OneStart /\ [Next]_vars => OneStart'
<1> SUFFICES ASSUME TypeOK, KeyStays, OneStart, [Next]_vars,
                    mishaps' \subseteq {"cut short"}
             PROVE  OneStart'
  BY DEF OneStart
<1>1. /\ pc \in [Procs -> Down \cup Starting \cup Up]
      /\ file \in Keys \cup {Absent, Torn} /\ used \in SUBSET Keys
  BY DEF TypeOK, KeyType
<1>2. mishaps \subseteq {"cut short"}
  BY DEF Next, Start, Window, Launch, ReadVersion, Begin, Migrate, Finish,
         AskForKey, Load, OpenKeyFile, Generate, ShowWindow, ReopenKeyFile,
         GenerateNewIdentity, EnterMessenger, Save, Stop, RemoveKey, vars
<1>3. \A p, q \in Procs : pc[p] \in Starting /\ pc[q] \in Starting => p = q
  BY <1>2 DEF OneStart
<1>4. /\ \A j, k \in used : j = k
      /\ file \in Keys => used \subseteq {file}
      /\ file \notin Keys => used = {}
      /\ \A p \in Procs : /\ pc[p] = "generate" => file = Absent
                          /\ pc[p] = "write" => file = Torn
  BY <1>2 DEF OneStart
<1>5. ASSUME NEW p \in Procs, Launch(p) PROVE OneStart'
  <2>1. \A q \in Procs : pc[q] \notin Starting
    BY <1>5 DEF Launch
  <2> QED
    BY <1>1, <1>4, <1>5, <2>1 DEF OneStart, Launch, Goto, keyVars, Starting
<1>6. ASSUME NEW p \in Procs,
             \/ ReadVersion(p) \/ Begin(p) \/ Migrate(p) \/ Finish(p)
             \/ AskForKey(p) \/ ShowWindow(p) \/ EnterMessenger(p) \/ Stop(p)
      PROVE  OneStart'
  <2>1. UNCHANGED <<keyVars, used>>
    BY <1>6 DEF ReadVersion, Begin, Migrate, Finish, AskForKey, ShowWindow,
                EnterMessenger, Stop
  <2>2. PICK where \in Down \cup Starting \cup Up :
          /\ pc' = [pc EXCEPT ![p] = where]
          /\ where \in Starting => pc[p] \in Starting
          /\ where = "generate" => file = Absent
          /\ where # "write"
    BY <1>6 DEF ReadVersion, Begin, Migrate, Finish, AskForKey, ShowWindow,
                EnterMessenger, Stop, Goto, HasKey, Down, Starting, Migrating, Up
  <2>3. \A q, r \in Procs : pc'[q] \in Starting /\ pc'[r] \in Starting => q = r
    BY <1>1, <1>3, <2>2
  <2> QED
    BY <1>1, <1>4, <2>1, <2>2, <2>3 DEF OneStart, keyVars
<1>7. ASSUME NEW p \in Procs, Load(p) PROVE OneStart'
  <2>1. \A q \in Procs : pc'[q] \in Starting => pc[q] \in Starting
    BY <1>1, <1>7 DEF Load, BuildWith, Goto, Starting, Migrating
  <2>2. \A q \in Procs : pc'[q] \in {"generate", "write"} => pc'[q] = pc[q]
    BY <1>1, <1>7 DEF Load, BuildWith, Goto
  <2>3. file' = file /\ (used' = used \/ (file \in Keys /\ used' = used \cup {file}))
    BY <1>7 DEF Load, Loads, BuildWith, keyVars
  <2> QED
    BY <1>3, <1>4, <2>1, <2>2, <2>3 DEF OneStart
<1>8. ASSUME NEW p \in Procs, OpenKeyFile(p) PROVE OneStart'
  <2>1. used' = {} /\ file' = Torn /\ Torn \notin Keys
    BY <1>4, <1>8, KeysAssumption DEF OpenKeyFile, Truncate
  <2>2. pc[p] \in Starting /\ pc' = [pc EXCEPT ![p] = "write"]
    BY <1>8 DEF OpenKeyFile, Goto, Starting
  <2>3. \A q \in Procs : pc'[q] # "generate"
    BY <1>1, <1>3, <2>2 DEF Starting
  <2> QED
    BY <1>1, <1>3, <2>1, <2>2, <2>3 DEF OneStart
<1>9. ASSUME NEW p \in Procs, Generate(p) PROVE OneStart'
  <2>1. pc[p] \in Starting /\ pc' = [pc EXCEPT ![p] = "screen"]
    BY <1>9 DEF Generate, BuildWith, Goto, Starting
  <2>2. \A q \in Procs : pc'[q] \notin {"generate", "write"}
    BY <1>1, <1>3, <2>1 DEF Starting
  <2>3. PICK k \in Keys : file' = k /\ used' = used \cup {k}
    BY <1>9 DEF Generate, WriteKey, BuildWith
  <2>4. used = {}
    BY <1>4, <1>9, KeysAssumption DEF Generate
  <2>5. \A q, r \in Procs : pc'[q] \in Starting /\ pc'[r] \in Starting => q = r
    BY <1>1, <1>3, <2>1
  <2> QED
    BY <2>2, <2>3, <2>4, <2>5 DEF OneStart
<1>10. ASSUME NEW p \in Procs, ReopenKeyFile(p) \/ GenerateNewIdentity(p)
       PROVE  FALSE
  BY <1>2, <1>10 DEF KeyStays, ReopenKeyFile, GenerateNewIdentity
<1>11. ASSUME NEW p \in Procs, Save(p) PROVE OneStart'
  BY <1>3, <1>4, <1>11 DEF Save, OneStart, keyVars, procVars
<1>12. ~RemoveKey
  BY DEF RemoveKey
<1>13. CASE UNCHANGED vars
  BY <1>3, <1>4, <1>13 DEF OneStart, vars, keyVars, procVars
<1> QED
  BY <1>5, <1>6, <1>7, <1>8, <1>9, <1>10, <1>11, <1>12, <1>13 DEF Next, Start, Window

(* All hosts ever made have one identity, unless two starts overlapped or the
   key file was deleted. *)
THEOREM OneIdentity == Spec => []IdentityKept
<1>1. OneStart => IdentityKept
  BY DEF OneStart, IdentityKept
<1>2. Init => KeyStays /\ OneStart
  BY InitKeyStays, InitOneStart
<1>3. TypeOK /\ KeyStays /\ OneStart /\ [Next]_vars => KeyStays' /\ OneStart'
  BY StepKeyStays, StepOneStart
<1> QED
  BY <1>1, <1>2, <1>3, TypeCorrect, PTL DEF Spec

-----------------------------------------------------------------------------
(***************************************************************************)
(* Starts that succeed.                                                    *)
(***************************************************************************)

StartupInv == MigrationInv /\ KeyStays /\ OneStart /\ NothingPending

LEMMA InitNothingPending == Init => NothingPending
  BY KeysAssumption DEF Init, DbInit, KeyInit, NothingPending

LEMMA StepNothingPending == StartupInv /\ [Next]_vars => NothingPending'
<1> SUFFICES ASSUME StartupInv, [Next]_vars, mishaps' = {} PROVE NothingPending'
  BY DEF NothingPending
<1>1. /\ pc \in [Procs -> Down \cup Starting \cup Up]
      /\ ver \in [Procs -> 0..Latest]
      /\ version \in 0..Latest /\ schema \in 0..Latest /\ dirty \in BOOLEAN
  BY DEF StartupInv, MigrationInv, TypeOK, DbType
<1>2. mishaps = {}
  BY DEF Next, Start, Window, Launch, ReadVersion, Begin, Migrate, Finish,
         AskForKey, Load, OpenKeyFile, Generate, ShowWindow, ReopenKeyFile,
         GenerateNewIdentity, EnterMessenger, Save, Stop, RemoveKey, vars
<1>3. /\ \A p \in Procs : pc[p] # "fatal"
      /\ dirty <=> \E p \in Procs : pc[p] \in {"run", "mark"}
      /\ ~dirty => version = schema
      /\ \A p \in Procs : /\ pc[p] \in {"migrate", "run"} => ver[p] = schema
                          /\ pc[p] = "mark" => ver[p] + 1 = schema
      /\ file = Torn => \E p \in Procs : pc[p] = "write"
  BY <1>2 DEF StartupInv, NothingPending
<1>4. \A p, q \in Procs : pc[p] \in Starting /\ pc[q] \in Starting => p = q
  BY <1>2 DEF StartupInv, OneStart
<1>5. \A p, q \in Procs :
        /\ pc[p] \in {"open", "migrate", "run", "mark", "load", "generate", "write"}
        /\ pc[q] \in {"migrate", "run", "mark", "write"}
        => p = q
  BY <1>4 DEF Starting, Migrating
<1>6. ASSUME NEW p \in Procs, Launch(p) PROVE NothingPending'
  BY <1>1, <1>3, <1>6 DEF Launch, Goto, dbVars, keyVars, Down, NothingPending
<1>7. ASSUME NEW p \in Procs, ReadVersion(p) PROVE NothingPending'
  <2>1. ~dirty
    BY <1>3, <1>5, <1>7 DEF ReadVersion
  <2> QED
    BY <1>1, <1>3, <1>7, <2>1
    DEF ReadVersion, Goto, dbVars, keyVars, NothingPending
<1>8. ASSUME NEW p \in Procs, Begin(p) PROVE NothingPending'
  BY <1>1, <1>3, <1>8 DEF Begin, MarkDirty, Goto, keyVars, NothingPending
<1>9. ASSUME NEW p \in Procs, Migrate(p) PROVE NothingPending'
  <2>1. ver[p] = schema /\ ver[p] < Latest
    BY <1>3, <1>9 DEF Migrate, StartupInv, MigrationInv, MigratorsFollow
  <2>2. Applies(ver[p] + 1)
    BY <1>1, <2>1 DEF Applies
  <2>3. /\ schema' = ver[p] + 1 /\ dirty' = dirty /\ version' = version
        /\ pc' = [pc EXCEPT ![p] = "mark"] /\ file' = file /\ ver' = ver
    BY <1>1, <1>9, <2>1, <2>2 DEF Migrate, RunMigration, Goto, keyVars
  <2>4. \A q \in Procs : q # p => pc'[q] \notin {"migrate", "run", "mark"}
    BY <1>1, <1>5, <1>9, <2>3 DEF Migrate
  <2>5. dirty
    BY <1>3, <1>9 DEF Migrate
  <2> QED
    BY <1>1, <1>3, <1>9, <2>3, <2>4, <2>5 DEF Migrate, NothingPending
<1>10. ASSUME NEW p \in Procs, Finish(p) PROVE NothingPending'
  <2>1. \A q \in Procs : q # p => pc[q] \notin {"migrate", "run", "mark"}
    BY <1>5, <1>10 DEF Finish
  <2> QED
    BY <1>1, <1>3, <1>10, <2>1 DEF Finish, MarkClean, Goto, keyVars, NothingPending
<1>11. ASSUME NEW p \in Procs, AskForKey(p) \/ ShowWindow(p) \/ EnterMessenger(p)
       PROVE  NothingPending'
  BY <1>1, <1>3, <1>11
  DEF AskForKey, ShowWindow, EnterMessenger, Goto, dbVars, keyVars, NothingPending
<1>12. ASSUME NEW p \in Procs, Load(p) PROVE NothingPending'
  <2>1. file # Torn /\ file # Absent
    BY <1>2, <1>3, <1>5, <1>12 DEF Load, StartupInv, KeyStays
  <2>2. ~LoadFails
    BY <2>1 DEF LoadFails, StartupInv, MigrationInv, TypeOK, KeyType
  <2> QED
    BY <1>1, <1>3, <1>12, <2>1, <2>2
    DEF Load, BuildWith, Goto, dbVars, keyVars, NothingPending
<1>13. ASSUME NEW p \in Procs, OpenKeyFile(p) PROVE NothingPending'
  BY <1>1, <1>3, <1>13 DEF OpenKeyFile, Truncate, Goto, dbVars, NothingPending
<1>14. ASSUME NEW p \in Procs, Generate(p) PROVE NothingPending'
  BY <1>1, <1>3, <1>14, KeysAssumption
  DEF Generate, WriteKey, BuildWith, Goto, dbVars, NothingPending
<1>15. ASSUME NEW p \in Procs, ReopenKeyFile(p) \/ GenerateNewIdentity(p)
       PROVE  FALSE
  BY <1>2, <1>15 DEF StartupInv, KeyStays, ReopenKeyFile, GenerateNewIdentity
<1>16. ASSUME NEW p \in Procs, Save(p) PROVE NothingPending'
  BY <1>1, <1>3, <1>16 DEF Save, SaveMessage, keyVars, procVars, NothingPending
<1>17. ASSUME NEW p \in Procs, Stop(p) PROVE NothingPending'
  <2>1. pc' = [pc EXCEPT ![p] = "off"] /\ pc[p] \notin {"run", "mark", "write"}
    BY <1>1, <1>17 DEF Stop, Goto
  <2> QED
    BY <1>1, <1>3, <1>17, <2>1 DEF Stop, dbVars, keyVars, NothingPending
<1>18. ~RemoveKey
  BY DEF RemoveKey
<1>19. CASE UNCHANGED vars
  BY <1>3, <1>19 DEF vars, dbVars, keyVars, procVars, NothingPending
<1> QED
  BY <1>6, <1>7, <1>8, <1>9, <1>10, <1>11, <1>12, <1>13, <1>14, <1>15, <1>16,
     <1>17, <1>18, <1>19 DEF Next, Start, Window

(* A start fails only after another was cut short, two overlapped or the key
   file was deleted. *)
THEOREM StartsSucceed == Spec => []FailsOnlyAfterMishap
<1>1. StartupInv => FailsOnlyAfterMishap
  BY DEF StartupInv, NothingPending, FailsOnlyAfterMishap
<1>2. Init => StartupInv
  BY InitMigration, InitKeyStays, InitOneStart, InitNothingPending DEF StartupInv
<1>3. StartupInv /\ [Next]_vars => StartupInv'
  <2>1. StartupInv => TypeOK /\ KeyStays /\ OneStart /\ MigrationInv
    BY DEF StartupInv, MigrationInv
  <2> QED
    BY <2>1, StepMigration, StepKeyStays, StepOneStart, StepNothingPending
    DEF StartupInv
<1> QED
  BY <1>1, <1>2, <1>3, PTL DEF Spec
=============================================================================
