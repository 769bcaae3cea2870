------------------------------ MODULE Database ------------------------------
(***************************************************************************)
(* DB.WriteTransaction (internal/storage/db.go) under the goroutines that  *)
(* write through it: the sync engine saves a batch, records its progress   *)
(* and acknowledges it, the chat service's goroutines each save a message. *)
(* Queries take connections from the same pool, and another process may    *)
(* write to the same file.                                                 *)
(*                                                                         *)
(* The tables are the transactions committed to the write-ahead log, in    *)
(* order.  With synchronous = NORMAL a commit need not be on the disk when *)
(* it returns: a loss of power takes away what was committed after some    *)
(* point, not less than what has been synchronised.                        *)
(*                                                                         *)
(* Bounds: one batch of Batch rows, one message for each of Senders; Conns *)
(* stands for the pool's 16 connections; MaxMishaps kinds of mishap happen,  *)
(* each once.                                                              *)
(***************************************************************************)
EXTENDS Naturals, Sequences, FiniteSets

CONSTANTS
  Senders,  \* goroutines of the chat service that save a message
  Queries,  \* goroutines that read: how many there are
  Batch,    \* rows of the engine's batch
  Conns,    \* SetMaxOpenConns
  MaxMishaps

Engine == "engine"
Writers == Senders \cup {Engine}
Nobody == "nobody"
OtherProcess == "other process"

ASSUME DatabaseAssumption ==
  /\ Senders \cap {Engine, Nobody, OtherProcess} = {}
  /\ Queries \in Nat /\ Batch \in Nat /\ Conns \in Nat /\ MaxMishaps \in Nat

Mishaps == {"statement", "commit", "other process", "crash", "power"}

VARIABLES
  pc,       \* pc[w]: where writer w is
  nr,       \* nr[w]: its transaction, counted from 1
  stmt,     \* stmt[w]: the statements its transaction has executed
  err,      \* err[w]: whether its last transaction returned an error
  writeMu,  \* the writer that holds the mutex, or Nobody
  conns,    \* the writers that hold a connection of the pool
  reading,  \* the queries that hold one
  locked,   \* external: who holds SQLite's write lock
  log,      \* external: the committed transactions
  synced,   \* external: how many of them are on the disk for sure
  acked,    \* history: whether the batch was acknowledged to the node
  mishaps   \* history: what has gone wrong around the program

pool == <<conns, reading>>
goVars == <<pc, nr, stmt, err, writeMu, pool>>
fileVars == <<locked, log, synced>>
vars == <<goVars, fileVars, acked, mishaps>>

Init ==
  /\ pc = [w \in Writers |-> "idle"]
  /\ nr = [w \in Writers |-> 1] /\ stmt = [w \in Writers |-> 0]
  /\ err = [w \in Writers |-> FALSE]
  /\ writeMu = Nobody /\ conns = {} /\ reading = 0
  /\ locked = Nobody /\ log = <<>> /\ synced = 0
  /\ acked = FALSE /\ mishaps = {}

InUse == Cardinality(conns) + reading

Goto(w, where) == pc' = [pc EXCEPT ![w] = where]

Happens(kind) ==
  /\ kind \notin mishaps /\ Cardinality(mishaps) < MaxMishaps
  /\ mishaps' = mishaps \cup {kind}

(* The engine's last transaction is UpdateLastSeq, with an insert into
   devices and one into device_sync_state; all the others have one insert. *)
Statements(w, n) == IF w = Engine /\ n = Batch + 1 THEN 2 ELSE 1

-----------------------------------------------------------------------------
(***************************************************************************)
(* WriteTransaction.                                                       *)
(***************************************************************************)

(* Slip: there is no mutex. *)
LockNothing(w) ==
  /\ pc[w] = "idle"
  /\ Goto(w, "begin")
  /\ UNCHANGED <<nr, stmt, err, writeMu, pool, fileVars, acked, mishaps>>

Lock(w) ==
  /\ pc[w] = "idle" /\ writeMu = Nobody
  /\ writeMu' = w
  /\ Goto(w, "begin")
  /\ UNCHANGED <<nr, stmt, err, pool, fileVars, acked, mishaps>>

(* Slip: the pool has no limit. *)
BeginUnlimited(w) ==
  /\ pc[w] = "begin"
  /\ conns' = conns \cup {w}
  /\ Goto(w, "exec")
  /\ UNCHANGED <<nr, stmt, err, writeMu, reading, fileVars, acked, mishaps>>

(* BEGIN takes a connection, once there is one, but not yet SQLite's lock. *)
Begin(w) ==
  /\ pc[w] = "begin" /\ InUse < Conns
  /\ conns' = conns \cup {w}
  /\ Goto(w, "exec")
  /\ UNCHANGED <<nr, stmt, err, writeMu, reading, fileVars, acked, mishaps>>

BeginFails(w) ==
  /\ pc[w] = "begin" /\ Happens("statement")
  /\ err' = [err EXCEPT ![w] = TRUE]
  /\ Goto(w, "unlock")
  /\ UNCHANGED <<nr, stmt, writeMu, pool, fileVars, acked>>

(* The first statement takes SQLite's write lock. *)
Exec(w) ==
  /\ pc[w] = "exec" /\ locked \in {Nobody, w}
  /\ locked' = w
  /\ stmt' = [stmt EXCEPT ![w] = @ + 1]
  /\ Goto(w, IF stmt'[w] = Statements(w, nr[w]) THEN "commit" ELSE "exec")
  /\ UNCHANGED <<nr, err, writeMu, pool, log, synced, acked, mishaps>>

(* Slip: fn's error is not looked at. *)
ExecFailsUnnoticed(w) ==
  /\ pc[w] = "exec"
  /\ \/ Happens("statement")
     \/ locked \notin {Nobody, w} /\ UNCHANGED mishaps
  /\ Goto(w, "commit")
  /\ UNCHANGED <<nr, stmt, err, writeMu, pool, fileVars, acked>>

(* A statement fails, or waits for the lock for longer than busy_timeout. *)
ExecFails(w) ==
  /\ pc[w] = "exec"
  /\ \/ Happens("statement")
     \/ locked \notin {Nobody, w} /\ UNCHANGED mishaps
  /\ Goto(w, "rollback")
  /\ UNCHANGED <<nr, stmt, err, writeMu, pool, fileVars, acked>>

(* The transaction is over. *)
Release(w) ==
  /\ stmt' = [stmt EXCEPT ![w] = 0]
  /\ conns' = conns \ {w}
  /\ locked' = IF locked = w THEN Nobody ELSE locked

Rollback(w) ==
  /\ pc[w] = "rollback"
  /\ Release(w)
  /\ err' = [err EXCEPT ![w] = TRUE]
  /\ Goto(w, "unlock")
  /\ UNCHANGED <<nr, writeMu, reading, log, synced, acked, mishaps>>

(* Which connection it is decides whether the log is synchronised: the
   PRAGMA was executed on one of them. *)
Commit(w) ==
  /\ pc[w] = "commit"
  /\ Release(w)
  /\ \/ /\ log' = Append(log, [by |-> w, nr |-> nr[w], stmts |-> stmt[w]])
        /\ synced' \in {synced, Len(log')}
        /\ err' = [err EXCEPT ![w] = FALSE]
        /\ UNCHANGED mishaps
     \/ /\ Happens("commit")
        /\ err' = [err EXCEPT ![w] = TRUE]
        /\ UNCHANGED <<log, synced>>
  /\ Goto(w, "unlock")
  /\ UNCHANGED <<nr, writeMu, reading, acked>>

(* Slip: the mutex is only released after a commit. *)
UnlockIfCommitted(w) ==
  /\ pc[w] = "unlock"
  /\ writeMu' = IF err[w] THEN writeMu ELSE Nobody
  /\ Goto(w, "return")
  /\ UNCHANGED <<nr, stmt, err, pool, fileVars, acked, mishaps>>

(* The deferred Unlock. *)
Unlock(w) ==
  /\ pc[w] = "unlock"
  /\ writeMu' = Nobody
  /\ Goto(w, "return")
  /\ UNCHANGED <<nr, stmt, err, pool, fileVars, acked, mishaps>>

-----------------------------------------------------------------------------
(***************************************************************************)
(* The writers.                                                            *)
(***************************************************************************)

(* SendMessage or ProcessIncoming: Save, once. *)
SenderReturns(w) ==
  /\ pc[w] = "return" /\ w \in Senders
  /\ Goto(w, "done")
  /\ UNCHANGED <<nr, stmt, err, writeMu, pool, fileVars, acked, mishaps>>

(* Slip: the batch goes on after a row that was not saved. *)
BatchGoesOn ==
  /\ pc[Engine] = "return"
  /\ IF nr[Engine] <= Batch
       THEN /\ nr' = [nr EXCEPT ![Engine] = @ + 1]
            /\ Goto(Engine, "idle")
            /\ UNCHANGED acked
       ELSE /\ acked' = TRUE
            /\ Goto(Engine, "done")
            /\ UNCHANGED nr
  /\ UNCHANGED <<stmt, err, writeMu, pool, fileVars, mishaps>>

(* saveBatch: a row that is not saved ends the cycle, and the next one begins
   with the first row; the error of UpdateLastSeq is dropped.  Then FetchLoop
   acknowledges the batch. *)
BatchReturns ==
  /\ pc[Engine] = "return"
  /\ \/ /\ nr[Engine] <= Batch
        /\ nr' = [nr EXCEPT ![Engine] = IF err[Engine] THEN 1 ELSE @ + 1]
        /\ Goto(Engine, "idle")
        /\ UNCHANGED acked
     \/ /\ nr[Engine] = Batch + 1
        /\ acked' = TRUE
        /\ Goto(Engine, "done")
        /\ UNCHANGED nr
  /\ UNCHANGED <<stmt, err, writeMu, pool, fileVars, mishaps>>

Writer(w) ==
  \/ Lock(w) \/ Begin(w) \/ BeginFails(w) \/ Exec(w) \/ ExecFails(w)
  \/ Rollback(w) \/ Commit(w) \/ Unlock(w) \/ SenderReturns(w)
  \/ w = Engine /\ BatchReturns

-----------------------------------------------------------------------------
(***************************************************************************)
(* Around the program.                                                     *)
(***************************************************************************)

(* QueryContext takes a connection and rows.Close gives it back. *)
Query ==
  /\ reading < Queries /\ InUse < Conns
  /\ reading' = reading + 1
  /\ UNCHANGED <<pc, nr, stmt, err, writeMu, conns, fileVars, acked, mishaps>>

CloseRows ==
  /\ reading > 0
  /\ reading' = reading - 1
  /\ UNCHANGED <<pc, nr, stmt, err, writeMu, conns, fileVars, acked, mishaps>>

OtherWrites ==
  /\ \/ locked = Nobody /\ locked' = OtherProcess /\ Happens("other process")
     \/ locked = OtherProcess /\ locked' = Nobody /\ UNCHANGED mishaps
  /\ UNCHANGED <<goVars, log, synced, acked>>

(* The process ends and is started again: goroutines, locks and open
   transactions are gone, and the engine begins anew. *)
Restart ==
  /\ pc' = [w \in Writers |-> IF w = Engine THEN "idle"
                              ELSE IF pc[w] = "done" THEN "done" ELSE "gone"]
  /\ nr' = [w \in Writers |-> 1]
  /\ stmt' = [w \in Writers |-> 0]
  /\ UNCHANGED err
  /\ writeMu' = Nobody /\ conns' = {} /\ reading' = 0
  /\ locked' = IF locked = OtherProcess THEN OtherProcess ELSE Nobody

Crash == Happens("crash") /\ Restart /\ UNCHANGED <<log, synced, acked>>

PowerLoss ==
  /\ Happens("power")
  /\ Restart
  /\ \E n \in synced..Len(log) : log' = SubSeq(log, 1, n) /\ synced' = n
  /\ UNCHANGED acked

Next ==
  \/ \E w \in Writers : Writer(w)
  \/ Query \/ CloseRows \/ OtherWrites \/ Crash \/ PowerLoss

Spec == Init /\ [][Next]_vars

(* The goroutines go on when they can.  A sync.Mutex goes to a goroutine that
   has waited for long, and database/sql hands a connection that is returned
   to one that waits for it; a query closes its rows.  The other process need
   not end: then busy_timeout does. *)
FairSpec ==
  /\ Spec
  /\ \A w \in Writers :
       WF_vars(Writer(w)) /\ SF_vars(Lock(w)) /\ SF_vars(Begin(w))
  /\ WF_vars(CloseRows)

-----------------------------------------------------------------------------
(***************************************************************************)
(* Properties.                                                             *)
(***************************************************************************)

(* The type invariant: every variable holds a value the code could hold. *)
TypeOK ==
  /\ pc \in [Writers -> {"idle", "begin", "exec", "rollback", "commit",
                         "unlock", "return", "done", "gone"}]
  /\ nr \in [Writers -> 1..Batch + 1] /\ stmt \in [Writers -> 0..2]
  /\ err \in [Writers -> BOOLEAN]
  /\ writeMu \in Writers \cup {Nobody}
  /\ conns \subseteq Writers /\ reading \in 0..Queries /\ InUse <= Conns
  /\ locked \in Writers \cup {Nobody, OtherProcess}
  /\ log \in Seq([by : Writers, nr : 1..Batch + 1, stmts : 0..2])
  /\ synced \in 0..Len(log)
  /\ acked \in BOOLEAN /\ mishaps \subseteq Mishaps

Committed(w, n, before) == \E i \in 1..before : log[i].by = w /\ log[i].nr = n

(* A transaction is in the tables with all its statements or not at all: one
   that returned an error has left nothing of it behind, also if another
   process was in its way. *)
AllOrNothing ==
  /\ \A i \in 1..Len(log) : log[i].stmts = Statements(log[i].by, log[i].nr)
  /\ \A w \in Senders :
       pc[w] \in {"return", "done"} /\ err[w] => ~Committed(w, 1, Len(log))

(* Writers of one process do not fail because of each other: that is what
   writeMu is for.  An error has a cause outside. *)
ErrorsComeFromOutside == (\E w \in Writers : err[w]) => mishaps # {}

(* What has been reported as saved, to the user by the event after Save or to
   the node by the acknowledgement, outlives a crash; a loss of power may take
   it. *)
ReportedSurvives ==
  "power" \in mishaps \/
    /\ \A w \in Senders :
         pc[w] = "done" /\ ~err[w] => Committed(w, 1, Len(log))
    /\ acked => \A n \in 1..Batch : Committed(Engine, n, Len(log))

(* The recorded progress is never ahead of the rows, not even after a loss of
   power between the transactions: they are lost from the last on. *)
ProgressIsSaved ==
  \A i \in 1..Len(log) : log[i].by = Engine /\ log[i].nr = Batch + 1 =>
    \A n \in 1..Batch : Committed(Engine, n, i)

(* What the engine, the chat service and the user see of it. *)
SavedRows == {n \in 1..Batch : Committed(Engine, n, Len(log))}
Recorded == Committed(Engine, Batch + 1, Len(log))
SavedMessages == {w \in Senders : Committed(w, 1, Len(log))}
Reported == {w \in Senders : pc[w] = "done" /\ ~err[w]}

(* WriteTransaction keeps the promise of WritePromise: with the mutex, the
   pool, other processes and crashes, what is seen of it is rows that are
   saved in order, each in one step, and an acknowledgement after all. *)
Promise == INSTANCE WritePromise WITH
  rows <- SavedRows, recorded <- Recorded,
  messages <- SavedMessages, reported <- Reported
PromiseKept == Promise!Spec

(* Every transaction comes to an end, whatever fails in another, whoever
   reads, and although writers wait for the pool while they hold the mutex. *)
WritesEnd ==
  \A w \in Writers : (pc[w] = "idle") ~> (pc[w] \in {"return", "gone"})

(* Not so in the code, which sets synchronous = NORMAL (see README.md): what
   was acknowledged to the node is still there after any failure. *)
AckedSurvivesPowerLoss ==
  acked => \A n \in 1..Batch : Committed(Engine, n, Len(log))
=============================================================================
