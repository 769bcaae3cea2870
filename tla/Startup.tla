------------------------------ MODULE Startup -------------------------------
(***************************************************************************)
(* Starts of the application (cmd/aether/main.go) over one data directory: *)
(* each process migrates the database, loads or generates the identity,    *)
(* builds its host, its message processor and its node service with it,    *)
(* and shows a window.  Nothing keeps two processes out of the same        *)
(* directory, and a process may end between any two of its steps.          *)
(***************************************************************************)
EXTENDS Migrations, IdentityKeystore

CONSTANT Procs

VARIABLES
  pc,       \* pc[p]: where main is in process p
  ver,      \* ver[p]: the version its migrator has come to
  id,       \* id[p]: the identity of its host and its processor
  svcId,    \* svcId[p]: the identity of its node service
  used,     \* history: the identities hosts were made with
  mishaps   \* history: what has gone wrong around the program

procVars == <<pc, ver, id, svcId, used>>
vars == <<dbVars, keyVars, procVars, mishaps>>

Mishaps == {"cut short", "two at once", "key removed"}

Down == {"off", "fatal"}
Migrating == {"open", "migrate", "run", "mark"}
Starting == Migrating \cup {"has key", "load", "generate", "write", "screen"}
Up == {"chat", "identity", "renew"}

Init ==
  /\ DbInit /\ KeyInit
  /\ pc = [p \in Procs |-> "off"]
  /\ ver = [p \in Procs |-> 0]
  /\ id = [p \in Procs |-> Absent] /\ svcId = [p \in Procs |-> Absent]
  /\ used = made
  /\ mishaps = {}

Goto(p, where) == pc' = [pc EXCEPT ![p] = where]

(* The user starts the application, maybe while it is starting already. *)
Launch(p) ==
  /\ pc[p] \in Down
  /\ Goto(p, "open")
  /\ mishaps' = mishaps \cup
       (IF \E q \in Procs : pc[q] \in Starting THEN {"two at once"} ELSE {})
  /\ UNCHANGED <<dbVars, keyVars, ver, id, svcId, used>>

-----------------------------------------------------------------------------
(***************************************************************************)
(* RunMigrations.                                                          *)
(***************************************************************************)

(* Slip: the dirty flag is not looked at. *)
ReadVersionOnly(p) ==
  /\ pc[p] = "open"
  /\ ver' = [ver EXCEPT ![p] = version]
  /\ Goto(p, "migrate")
  /\ UNCHANGED <<dbVars, keyVars, id, svcId, used, mishaps>>

(* Slip: migrate.ErrNoChange is taken for an error. *)
ReadVersionStrictly(p) ==
  /\ pc[p] = "open"
  /\ ver' = [ver EXCEPT ![p] = version]
  /\ IF dirty \/ version = Latest THEN Goto(p, "fatal") ELSE Goto(p, "migrate")
  /\ UNCHANGED <<dbVars, keyVars, id, svcId, used, mishaps>>

(* Up reads the version once; a dirty one is an error. *)
ReadVersion(p) ==
  /\ pc[p] = "open"
  /\ ver' = [ver EXCEPT ![p] = version]
  /\ IF dirty THEN Goto(p, "fatal") ELSE Goto(p, "migrate")
  /\ UNCHANGED <<dbVars, keyVars, id, svcId, used, mishaps>>

(* Slip: one migration too many. *)
BeginPastLast(p) ==
  /\ pc[p] = "migrate" /\ ver[p] <= Latest
  /\ MarkDirty(ver[p] + 1)
  /\ Goto(p, "run")
  /\ UNCHANGED <<keyVars, ver, id, svcId, used, mishaps>>

Begin(p) ==
  /\ pc[p] = "migrate" /\ ver[p] < Latest
  /\ MarkDirty(ver[p] + 1)
  /\ Goto(p, "run")
  /\ UNCHANGED <<keyVars, ver, id, svcId, used, mishaps>>

Migrate(p) ==
  /\ pc[p] = "run"
  /\ \/ RunMigration(ver[p] + 1) /\ Goto(p, "mark")
     \/ ~Applies(ver[p] + 1) /\ Goto(p, "fatal") /\ UNCHANGED dbVars
  /\ UNCHANGED <<keyVars, ver, id, svcId, used, mishaps>>

Finish(p) ==
  /\ pc[p] = "mark"
  /\ MarkClean(ver[p] + 1)
  /\ ver' = [ver EXCEPT ![p] = @ + 1]
  /\ Goto(p, "migrate")
  /\ UNCHANGED <<keyVars, id, svcId, used, mishaps>>

-----------------------------------------------------------------------------
(***************************************************************************)
(* The identity, and what is built with it.                                *)
(***************************************************************************)

(* Migrations are done; main asks HasKey. *)
AskForKey(p) ==
  /\ pc[p] = "migrate" /\ ver[p] = Latest
  /\ IF HasKey THEN Goto(p, "load") ELSE Goto(p, "generate")
  /\ UNCHANGED <<dbVars, keyVars, ver, id, svcId, used, mishaps>>

(* Processor, host and node service all get the identity. *)
BuildWith(p, k) ==
  /\ id' = [id EXCEPT ![p] = k]
  /\ svcId' = [svcId EXCEPT ![p] = k]
  /\ used' = used \cup {k}
  /\ Goto(p, "screen")

Load(p) ==
  /\ pc[p] = "load"
  /\ \/ \E k \in Keys : Loads(k) /\ BuildWith(p, k)
     \/ LoadFails /\ Goto(p, "fatal") /\ UNCHANGED <<id, svcId, used>>
  /\ UNCHANGED <<dbVars, keyVars, ver, mishaps>>

(* Generate begins to write the file. *)
OpenKeyFile(p) ==
  /\ pc[p] = "generate"
  /\ Truncate
  /\ Goto(p, "write")
  /\ UNCHANGED <<dbVars, ver, id, svcId, used, mishaps>>

(* Slip: the key is not saved. *)
GenerateUnsaved(p) ==
  /\ pc[p] = "write"
  /\ \E k \in Keys \ made : made' = made \cup {k} /\ BuildWith(p, k)
  /\ file' = Absent
  /\ UNCHANGED <<dbVars, ver, mishaps>>

Generate(p) ==
  /\ pc[p] = "write"
  /\ \E k \in Keys : WriteKey(k) /\ BuildWith(p, k)
  /\ UNCHANGED <<dbVars, ver, mishaps>>

(* main asks HasKey again: the chat list, or the identity screen. *)
ShowWindow(p) ==
  /\ pc[p] = "screen"
  /\ IF HasKey THEN Goto(p, "chat") ELSE Goto(p, "identity")
  /\ UNCHANGED <<dbVars, keyVars, ver, id, svcId, used, mishaps>>

(* "Generate New Identity", on the identity screen. *)
ReopenKeyFile(p) ==
  /\ pc[p] = "identity"
  /\ Truncate
  /\ Goto(p, "renew")
  /\ UNCHANGED <<dbVars, ver, id, svcId, used, mishaps>>

(* GenerateNewIdentity gives the node service a new identity, and nothing
   else. *)
GenerateNewIdentity(p) ==
  /\ pc[p] = "renew"
  /\ \E k \in Keys : WriteKey(k) /\ svcId' = [svcId EXCEPT ![p] = k]
  /\ Goto(p, "identity")
  /\ UNCHANGED <<dbVars, ver, id, used, mishaps>>

(* "Enter Messenger". *)
EnterMessenger(p) ==
  /\ pc[p] = "identity"
  /\ Goto(p, "chat")
  /\ UNCHANGED <<dbVars, keyVars, ver, id, svcId, used, mishaps>>

-----------------------------------------------------------------------------
(* A message is sent or received. *)
Save(p) ==
  /\ pc[p] = "chat"
  /\ \E m \in Messages : SaveMessage(m)
  /\ UNCHANGED <<keyVars, procVars, mishaps>>

(* The process is ended, or a step of its start fails: SQLITE_BUSY, a full
   disk.  What that leaves half done is a mishap. *)
Stop(p) ==
  /\ pc[p] \notin Down
  /\ \/ Goto(p, "off")
     \/ pc[p] \in Starting /\ Goto(p, "fatal")
  /\ mishaps' = mishaps \cup
       (IF pc'[p] = "fatal" \/ pc[p] \in {"run", "mark", "write", "renew"}
          THEN {"cut short"} ELSE {})
  /\ id' = [id EXCEPT ![p] = Absent] /\ svcId' = [svcId EXCEPT ![p] = Absent]
  /\ UNCHANGED <<dbVars, keyVars, ver, used>>

(* Somebody deletes the key file. *)
RemoveKey ==
  /\ HasKey /\ "key removed" \notin mishaps
  /\ file' = Absent
  /\ mishaps' = mishaps \cup {"key removed"}
  /\ UNCHANGED <<dbVars, made, procVars>>

Start(p) ==
  \/ ReadVersion(p) \/ Begin(p) \/ Migrate(p) \/ Finish(p) \/ AskForKey(p)
  \/ Load(p) \/ OpenKeyFile(p) \/ Generate(p) \/ ShowWindow(p)

Window(p) ==
  \/ ReopenKeyFile(p) \/ GenerateNewIdentity(p) \/ EnterMessenger(p) \/ Save(p)

Next ==
  \/ \E p \in Procs : Launch(p) \/ Start(p) \/ Window(p) \/ Stop(p)
  \/ RemoveKey

Spec == Init /\ [][Next]_vars

(* main goes on as long as it can. *)
FairSpec == Spec /\ \A p \in Procs : WF_vars(Start(p))

-----------------------------------------------------------------------------
(***************************************************************************)
(* Properties.                                                             *)
(***************************************************************************)

(* The type invariant: every variable holds a value the code could hold. *)
TypeOK ==
  /\ DbType /\ KeyType
  /\ pc \in [Procs -> Down \cup Starting \cup Up]
  /\ ver \in [Procs -> 0..Latest]
  /\ id \in [Procs -> Keys \cup {Absent}]
  /\ svcId \in [Procs -> Keys \cup {Absent}]
  /\ used \in SUBSET Keys
  /\ mishaps \in SUBSET Mishaps

(* A process that is past RunMigrations works on the latest schema, and every
   message is in its chat, whatever other processes do to the database and
   wherever earlier ones were cut short. *)
RunningIsMigrated ==
  \A p \in Procs : pc[p] \notin Down \cup Migrating =>
    schema = Latest /\ \A r \in rows : r.inChat

(* The program itself never makes the device somebody else: all hosts ever
   made had one identity, "a restart loads the same key", unless two first
   starts overlapped or the file was deleted. *)
IdentityKept ==
  mishaps \subseteq {"cut short"} => \A j, k \in used : j = k

(* The processor and host of a process have the identity its node service
   shows, as long as nobody deletes the key file: GenerateNewIdentity, which
   changes one of them only, is not reached. *)
PartsAgree ==
  "key removed" \notin mishaps => \A p \in Procs : id[p] = svcId[p]

(* Starting, running and stopping never spoil the directory for the next
   start: one that fails does so after a start was cut short, two
   overlapped, or the key was deleted. *)
FailsOnlyAfterMishap ==
  mishaps = {} => \A p \in Procs : pc[p] # "fatal"

(* A start that is not interfered with ends in front of the chat list. *)
EventuallyRuns ==
  \A p \in Procs :
    (pc[p] = "open" /\ mishaps = {})
      ~> (pc[p] \in {"chat", "off"} \/ mishaps # {})

-----------------------------------------------------------------------------
(* Not so in the code (see README.md): HasKey "returns true if a key pair
   exists in the keystore". *)
HasKeyTells == HasKey /\ (\A p \in Procs : pc[p] \notin {"write", "renew"})
                 => file \in Keys

(* Not so in the code: a start after a start that was cut short succeeds. *)
RecoversFromCut ==
  mishaps \subseteq {"cut short"} =>
    \A p \in Procs : pc[p] = "open" => ~dirty /\ file # Torn
=============================================================================
