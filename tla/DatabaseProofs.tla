--------------------------- MODULE DatabaseProofs ---------------------------
(***************************************************************************)
(* What TLAPS proves of Database, for any writers, batch, pool and number  *)
(* of mishaps.                                                             *)
(***************************************************************************)
EXTENDS Database, FiniteSetTheorems, TLAPS

InTransaction == {"exec", "rollback", "commit"}
Inside == InTransaction \cup {"begin", "unlock"}

(* writeMu is a mutex, so that one writer at most has a connection or
   SQLite's lock. *)
MutexInv ==
  /\ \A w \in Writers : pc[w] \in Inside => writeMu = w
  /\ \A w \in conns : pc[w] \in InTransaction
  /\ locked \in Writers => pc[locked] \in InTransaction

(* If nothing has gone wrong, nothing fails. *)
QuietInv ==
  mishaps = {} =>
    /\ locked # OtherProcess
    /\ \A w \in Writers : ~err[w] /\ pc[w] # "rollback"

(* A transaction that commits has executed all its statements. *)
StatementsInv ==
  \A w \in Writers :
    /\ w \in Senders => nr[w] = 1
    /\ pc[w] = "exec" => stmt[w] < Statements(w, nr[w])
    /\ pc[w] = "commit" => stmt[w] = Statements(w, nr[w])
    /\ pc[w] \notin InTransaction => stmt[w] = 0

WholeLog ==
  \A i \in 1..Len(log) : log[i].stmts = Statements(log[i].by, log[i].nr)

(* A sender's message is in the log only after its transaction, which then
   has not failed, and it is there unless power was lost. *)
SendersInv ==
  \A w \in Senders :
    /\ Committed(w, 1, Len(log)) =>
         /\ pc[w] \in {"unlock", "return", "done", "gone"}
         /\ pc[w] # "gone" => ~err[w]
    /\ "power" \notin mishaps =>
         (pc[w] \in {"unlock", "return", "done"} /\ ~err[w]
            => Committed(w, 1, Len(log)))

(* The rows the engine has gone past are in the log. *)
EngineInv ==
  /\ \A n \in 1..Batch : n < nr[Engine] => Committed(Engine, n, Len(log))
  /\ pc[Engine] \in {"unlock", "return"} /\ ~err[Engine]
       => Committed(Engine, nr[Engine], Len(log))
  /\ acked /\ "power" \notin mishaps =>
       \A n \in 1..Batch : Committed(Engine, n, Len(log))

DatabaseInv ==
  /\ TypeOK /\ MutexInv /\ QuietInv /\ StatementsInv
  /\ WholeLog /\ SendersInv /\ EngineInv /\ ProgressIsSaved

-----------------------------------------------------------------------------
(***************************************************************************)
(* Types, and the mutex.                                                   *)
(***************************************************************************)

Record == [by : Writers, nr : 1..Batch + 1, stmts : 0..2]

LEMMA Distinct ==
  /\ Engine \in Writers /\ Senders \subseteq Writers /\ Engine \notin Senders
  /\ Nobody \notin Writers /\ OtherProcess \notin Writers /\ Nobody # OtherProcess
  BY DatabaseAssumption DEF Writers, Engine, Nobody, OtherProcess

LEMMA AtMostOne ==
  ASSUME NEW S, NEW x, S \subseteq {x}
  PROVE  Cardinality(S) \in 0..1
<1>1. CASE S = {}
  BY <1>1, FS_EmptySet
<1>2. CASE S = {x}
  <2>1. Cardinality({x}) = 1
    BY FS_Singleton
  <2> QED
    BY <1>2, <2>1
<1> QED
  BY <1>1, <1>2

LEMMA InitInv == Init => DatabaseInv
<1> SUFFICES ASSUME Init PROVE DatabaseInv
  OBVIOUS
<1> USE Distinct, DatabaseAssumption DEF Init
<1>1. TypeOK
  <2>1. InUse = 0
    BY FS_EmptySet DEF InUse
  <2>2. log \in Seq([by : Writers, nr : 1..Batch + 1, stmts : 0..2])
        /\ synced \in 0..Len(log)
    OBVIOUS
  <2>3. nr \in [Writers -> 1..Batch + 1] /\ stmt \in [Writers -> 0..2]
    OBVIOUS
  <2>4. reading \in 0..Queries /\ InUse <= Conns
    BY <2>1
  <2> QED
    BY <2>2, <2>3, <2>4, Zenon DEF TypeOK
<1>2. MutexInv /\ QuietInv
  BY DEF MutexInv, QuietInv, Inside, InTransaction
<1>3. StatementsInv
  BY DEF StatementsInv, InTransaction
<1>4. WholeLog /\ SendersInv /\ EngineInv /\ ProgressIsSaved
  BY DEF WholeLog, SendersInv, EngineInv, ProgressIsSaved, Committed
<1> QED
  BY <1>1, <1>2, <1>3, <1>4 DEF DatabaseInv

LEMMA StepMutex ==
  ASSUME TypeOK, MutexInv, [Next]_vars
  PROVE  MutexInv'
<1> USE Distinct DEF TypeOK, MutexInv, Inside, InTransaction, Goto
<1>1. ASSUME NEW w \in Writers, Lock(w) PROVE MutexInv'
  BY <1>1 DEF Lock, pool, fileVars
<1>2. ASSUME NEW w \in Writers, Begin(w) \/ BeginFails(w) PROVE MutexInv'
  BY <1>2 DEF Begin, BeginFails, pool, fileVars
<1>3. ASSUME NEW w \in Writers, Exec(w) \/ ExecFails(w) PROVE MutexInv'
  BY <1>3 DEF Exec, ExecFails, pool, fileVars
<1>4. ASSUME NEW w \in Writers, Rollback(w) \/ Commit(w) PROVE MutexInv'
  BY <1>4 DEF Rollback, Commit, Release
<1>5. ASSUME NEW w \in Writers, Unlock(w) PROVE MutexInv'
  BY <1>5 DEF Unlock, pool, fileVars
<1>6. ASSUME NEW w \in Writers, SenderReturns(w) \/ (w = Engine /\ BatchReturns)
      PROVE  MutexInv'
  BY <1>6 DEF SenderReturns, BatchReturns, pool, fileVars
<1>7. CASE Query \/ CloseRows \/ OtherWrites
  BY <1>7 DEF Query, CloseRows, OtherWrites, goVars, pool, fileVars
<1>8. CASE Crash \/ PowerLoss
  BY <1>8 DEF Crash, PowerLoss, Restart
<1>9. CASE UNCHANGED vars
  BY <1>9 DEF vars, goVars, pool, fileVars
<1> QED
  BY <1>1, <1>2, <1>3, <1>4, <1>5, <1>6, <1>7, <1>8, <1>9 DEF Next, Writer

LEMMA StepQuiet ==
  ASSUME TypeOK, MutexInv, QuietInv, [Next]_vars
  PROVE  QuietInv'
<1> SUFFICES ASSUME mishaps' = {}
             PROVE  /\ locked' # OtherProcess
                    /\ \A w \in Writers : ~err'[w] /\ pc'[w] # "rollback"
  BY DEF QuietInv
<1>1. mishaps = {}
  BY DEF Next, Writer, Lock, Begin, BeginFails, Exec, ExecFails, Rollback, Commit,
         Unlock, SenderReturns, BatchReturns, Query, CloseRows, OtherWrites,
         Crash, PowerLoss, Happens, vars
<1>2. /\ locked # OtherProcess
      /\ \A w \in Writers : ~err[w] /\ pc[w] # "rollback"
  BY <1>1 DEF QuietInv
<1>3. ~Happens("statement") /\ ~Happens("commit") /\ ~Happens("other process")
      /\ ~Happens("crash") /\ ~Happens("power")
  BY DEF Happens
<1> USE Distinct DEF TypeOK, Goto
<1>4. ASSUME NEW w \in Writers, Lock(w) \/ Begin(w) \/ Unlock(w) \/ SenderReturns(w)
      PROVE  /\ locked' # OtherProcess
             /\ \A v \in Writers : ~err'[v] /\ pc'[v] # "rollback"
  BY <1>2, <1>4 DEF Lock, Begin, Unlock, SenderReturns, pool, fileVars
<1>5. ASSUME NEW w \in Writers, Exec(w)
      PROVE  /\ locked' # OtherProcess
             /\ \A v \in Writers : ~err'[v] /\ pc'[v] # "rollback"
  BY <1>2, <1>5 DEF Exec, pool
<1>6. ASSUME NEW w \in Writers, ExecFails(w) PROVE FALSE
  <2>1. locked \notin {Nobody, w} /\ locked \in Writers
    BY <1>2, <1>3, <1>6 DEF ExecFails
  <2>2. writeMu = w /\ writeMu = locked
    BY <1>6, <2>1 DEF ExecFails, MutexInv, Inside, InTransaction
  <2> QED
    BY <2>1, <2>2
<1>7. ASSUME NEW w \in Writers, Commit(w)
      PROVE  /\ locked' # OtherProcess
             /\ \A v \in Writers : ~err'[v] /\ pc'[v] # "rollback"
  BY <1>2, <1>3, <1>7 DEF Commit, Release
<1>8. CASE BatchReturns
  BY <1>2, <1>8 DEF BatchReturns, pool, fileVars
<1>9. CASE Query \/ CloseRows \/ OtherWrites
  BY <1>2, <1>3, <1>9 DEF Query, CloseRows, OtherWrites, goVars, pool, fileVars
<1>10. CASE UNCHANGED vars
  BY <1>2, <1>10 DEF vars, goVars, pool, fileVars
<1> QED
  BY <1>2, <1>3, <1>4, <1>5, <1>6, <1>7, <1>8, <1>9, <1>10
  DEF Next, Writer, BeginFails, Rollback, Crash, PowerLoss

LEMMA StepStatements ==
  ASSUME TypeOK, StatementsInv, [Next]_vars
  PROVE  StatementsInv'
<1>0. /\ pc \in [Writers -> {"idle", "begin", "exec", "rollback", "commit",
                            "unlock", "return", "done", "gone"}]
      /\ nr \in [Writers -> 1..Batch + 1] /\ stmt \in [Writers -> 0..2]
  BY DEF TypeOK
<1> USE <1>0, Distinct DEF StatementsInv, InTransaction, Goto
<1>1. ASSUME NEW w \in Writers,
             \/ Lock(w) \/ Begin(w) \/ BeginFails(w) \/ ExecFails(w)
             \/ Unlock(w) \/ SenderReturns(w)
      PROVE  StatementsInv'
  <2>1. UNCHANGED <<nr, stmt>>
    BY <1>1 DEF Lock, Begin, BeginFails, ExecFails, Unlock, SenderReturns
  <2>2. PICK where \in {"begin", "exec", "rollback", "unlock", "return", "done"} :
          /\ pc' = [pc EXCEPT ![w] = where]
          /\ where # "rollback" => pc[w] \notin InTransaction
    BY <1>1 DEF Lock, Begin, BeginFails, ExecFails, Unlock, SenderReturns
  <2>3. \A v \in Writers : 0 < Statements(v, nr[v])
    BY DEF Statements
  <2> QED
    BY <2>1, <2>2, <2>3
<1>2. ASSUME NEW w \in Writers, Exec(w) PROVE StatementsInv'
  <2>1. /\ stmt[w] \in 0..2 /\ Statements(w, nr[w]) \in 1..2
        /\ stmt[w] < Statements(w, nr[w])
    BY <1>2 DEF Exec, Statements
  <2>2. /\ stmt' = [stmt EXCEPT ![w] = stmt[w] + 1] /\ nr' = nr
        /\ pc' = [pc EXCEPT ![w] = IF stmt[w] + 1 = Statements(w, nr[w])
                                    THEN "commit" ELSE "exec"]
    BY <1>2 DEF Exec
  <2>3. ASSUME NEW v \in Writers, v # w
        PROVE  pc'[v] = pc[v] /\ stmt'[v] = stmt[v] /\ Statements(v, nr'[v]) =
                 Statements(v, nr[v])
    BY <2>2, <2>3
  <2>4. /\ stmt'[w] = stmt[w] + 1
        /\ pc'[w] = IF stmt[w] + 1 = Statements(w, nr[w]) THEN "commit" ELSE "exec"
    BY <2>2
  <2>5. pc'[w] = "exec" => stmt'[w] < Statements(w, nr[w])
    BY <2>1, <2>4
  <2> QED
    BY <2>2, <2>3, <2>4, <2>5
<1>3. ASSUME NEW w \in Writers, Rollback(w) \/ Commit(w) PROVE StatementsInv'
  BY <1>3 DEF Rollback, Commit, Release
<1>4. CASE BatchReturns
  <2>1. /\ stmt' = stmt /\ \A v \in Writers \ {Engine} : nr'[v] = nr[v] /\ pc'[v] = pc[v]
        /\ stmt[Engine] = 0 /\ pc'[Engine] \in {"idle", "done"}
    BY <1>4 DEF BatchReturns
  <2> QED
    BY <2>1
<1>5. CASE Query \/ CloseRows \/ OtherWrites \/ UNCHANGED vars
  <2>1. UNCHANGED <<pc, nr, stmt>>
    BY <1>5 DEF Query, CloseRows, OtherWrites, goVars, vars
  <2> QED
    BY <2>1
<1>6. CASE Crash \/ PowerLoss
  BY <1>6 DEF Crash, PowerLoss, Restart
<1> QED
  BY <1>1, <1>2, <1>3, <1>4, <1>5, <1>6 DEF Next, Writer

(* The pool has room: one writer at most is in it. *)
LEMMA StepPool ==
  ASSUME TypeOK, MutexInv, MutexInv', [Next]_vars
  PROVE  conns' \subseteq Writers /\ reading' \in 0..Queries /\ InUse' <= Conns
<1>1. /\ conns \subseteq Writers /\ reading \in 0..Queries /\ InUse <= Conns
      /\ Queries \in Nat /\ Conns \in Nat
  BY DatabaseAssumption DEF TypeOK
<1>2. Cardinality(conns) \in 0..1 /\ Cardinality(conns') \in 0..1
  <2>1. conns \subseteq {writeMu}
    BY <1>1 DEF MutexInv, Inside
  <2>2. conns' \subseteq Writers
    BY <1>1 DEF Next, Writer, Lock, Begin, BeginFails, Exec, ExecFails, Rollback,
      Commit, Release, Unlock, SenderReturns, BatchReturns, Query, CloseRows,
      OtherWrites, Crash, PowerLoss, Restart, vars, goVars, pool
  <2>3. conns' \subseteq {writeMu'}
    BY <2>2 DEF MutexInv, Inside
  <2> QED
    BY <2>1, <2>3, AtMostOne
<1>3. ASSUME NEW w \in Writers, Begin(w)
      PROVE  conns' \subseteq Writers /\ reading' \in 0..Queries /\ InUse' <= Conns
  <2>1. conns = {}
    BY <1>1, <1>3 DEF Begin, MutexInv, Inside, InTransaction
  <2>2. Cardinality(conns) = 0
    BY <2>1, FS_EmptySet
  <2>3. conns' \subseteq Writers /\ reading' = reading
    BY <1>1, <1>3 DEF Begin
  <2>4. Cardinality(conns) + reading < Conns
    BY <1>3 DEF Begin, InUse
  <2>5. Cardinality(conns') + reading' <= Conns
    BY <1>1, <1>2, <2>2, <2>3, <2>4
  <2> QED
    BY <1>1, <2>3, <2>5 DEF InUse
<1>4. ASSUME NEW w \in Writers, Rollback(w) \/ Commit(w)
      PROVE  conns' \subseteq Writers /\ reading' \in 0..Queries /\ InUse' <= Conns
  <2>1. conns' = conns \ {w} /\ reading' = reading
    BY <1>4 DEF Rollback, Commit, Release
  <2>2. w \notin conns => conns' = conns
    BY <2>1
  <2>3. w \in conns => conns = {w} /\ conns' = {}
    BY <1>1, <2>1 DEF MutexInv, Inside, InTransaction
  <2>4. Cardinality(conns') <= Cardinality(conns)
    BY <1>2, <2>2, <2>3, FS_EmptySet
  <2> QED
    BY <1>1, <1>2, <2>1, <2>4 DEF InUse
<1>5. CASE Query
  BY <1>1, <1>2, <1>5 DEF Query, InUse
<1>6. CASE CloseRows
  BY <1>1, <1>2, <1>6 DEF CloseRows, InUse
<1>7. CASE Crash \/ PowerLoss
  <2>1. conns' = {} /\ reading' = 0
    BY <1>7 DEF Crash, PowerLoss, Restart
  <2> QED
    BY <1>1, <1>2, <2>1, FS_EmptySet DEF InUse
<1>8. CASE UNCHANGED pool
  BY <1>1, <1>8 DEF pool, InUse
<1> QED
  BY <1>3, <1>4, <1>5, <1>6, <1>7, <1>8
  DEF Next, Writer, Lock, BeginFails, Exec, ExecFails, Unlock, SenderReturns,
      BatchReturns, OtherWrites, vars, goVars

(* What a step does to the log. *)
LEMMA StepLog ==
  ASSUME TypeOK, [Next]_vars
  PROVE  \/ UNCHANGED <<log, synced>>
         \/ \E w \in Writers :
              /\ Commit(w)
              /\ log' = Append(log, [by |-> w, nr |-> nr[w], stmts |-> stmt[w]])
              /\ synced' \in {synced, Len(log')}
              /\ err'[w] = FALSE
         \/ /\ PowerLoss
            /\ \E n \in synced..Len(log) : log' = SubSeq(log, 1, n) /\ synced' = n
  BY DEF TypeOK, Next, Writer, Lock, Begin, BeginFails, Exec, ExecFails, Rollback,
         Commit, Unlock, SenderReturns, BatchReturns, Query, CloseRows,
         OtherWrites, Crash, PowerLoss, vars, fileVars

LEMMA StepLogType ==
  ASSUME TypeOK, [Next]_vars
  PROVE  log' \in Seq(Record) /\ synced' \in 0..Len(log')
<1>1. log \in Seq(Record) /\ synced \in 0..Len(log)
  BY DEF TypeOK, Record
<1>2. ASSUME NEW w \in Writers,
             log' = Append(log, [by |-> w, nr |-> nr[w], stmts |-> stmt[w]]),
             synced' \in {synced, Len(log')}
      PROVE  log' \in Seq(Record) /\ synced' \in 0..Len(log')
  <2>1. [by |-> w, nr |-> nr[w], stmts |-> stmt[w]] \in Record
    BY DEF TypeOK, Record
  <2>2. log' \in Seq(Record) /\ Len(log') = Len(log) + 1
    BY <1>1, <1>2, <2>1
  <2> QED
    BY <1>1, <1>2, <2>2
<1>3. ASSUME NEW n \in synced..Len(log), log' = SubSeq(log, 1, n), synced' = n
      PROVE  log' \in Seq(Record) /\ synced' \in 0..Len(log')
  <2>1. n \in Nat /\ n <= Len(log)
    BY <1>1, <1>3
  <2>2. log' \in Seq(Record) /\ Len(log') = n
    BY <1>1, <1>3, <2>1
  <2> QED
    BY <1>3, <2>1, <2>2
<1> QED
  BY <1>1, <1>2, <1>3, StepLog

LEMMA StepType ==
  ASSUME TypeOK, MutexInv, StatementsInv, MutexInv', [Next]_vars
  PROVE  TypeOK'
<1>1. conns' \subseteq Writers /\ reading' \in 0..Queries /\ InUse' <= Conns
  BY StepPool
<1>2. log' \in Seq(Record) /\ synced' \in 0..Len(log')
  BY StepLogType
<1>3. /\ pc' \in [Writers -> {"idle", "begin", "exec", "rollback", "commit",
                             "unlock", "return", "done", "gone"}]
      /\ err' \in [Writers -> BOOLEAN]
      /\ writeMu' \in Writers \cup {Nobody}
      /\ locked' \in Writers \cup {Nobody, OtherProcess}
  BY Distinct
  DEF TypeOK, Next, Writer, Lock, Begin, BeginFails, Exec, ExecFails, Rollback, Commit,
      Release, Unlock, SenderReturns, BatchReturns, Query, CloseRows, OtherWrites,
      Crash, PowerLoss, Restart, Goto, vars, goVars, fileVars, pool
<1>4. acked' \in BOOLEAN /\ mishaps' \subseteq Mishaps
  BY DEF TypeOK, Next, Writer, Lock, Begin, BeginFails, Exec, ExecFails, Rollback,
      Commit, Unlock, SenderReturns, BatchReturns, Query, CloseRows, OtherWrites,
      Crash, PowerLoss, Happens, Mishaps, vars
<1>5. nr' \in [Writers -> 1..Batch + 1]
  <2>1. nr \in [Writers -> 1..Batch + 1] /\ Batch \in Nat
    BY DatabaseAssumption DEF TypeOK
  <2>2. CASE BatchReturns
    BY <2>1, <2>2 DEF BatchReturns
  <2>3. CASE Crash \/ PowerLoss
    BY <2>1, <2>3 DEF Crash, PowerLoss, Restart
  <2>4. CASE UNCHANGED nr
    BY <2>1, <2>4
  <2> QED
    BY <2>2, <2>3, <2>4
    DEF Next, Writer, Lock, Begin, BeginFails, Exec, ExecFails, Rollback, Commit,
        Unlock, SenderReturns, Query, CloseRows, OtherWrites, vars, goVars
<1>6. stmt' \in [Writers -> 0..2]
  <2>1. stmt \in [Writers -> 0..2]
    BY DEF TypeOK
  <2>2. ASSUME NEW w \in Writers, Exec(w) PROVE stmt' \in [Writers -> 0..2]
    <3>1. stmt[w] + 1 \in 0..2
      BY <2>1, <2>2 DEF Exec, StatementsInv, Statements
    <3> QED
      BY <2>1, <2>2, <3>1 DEF Exec
  <2>3. ASSUME NEW w \in Writers, Rollback(w) \/ Commit(w)
        PROVE  stmt' \in [Writers -> 0..2]
    BY <2>1, <2>3 DEF Rollback, Commit, Release
  <2>4. CASE Crash \/ PowerLoss
    BY <2>1, <2>4 DEF Crash, PowerLoss, Restart
  <2>5. CASE UNCHANGED stmt
    BY <2>1, <2>5
  <2> QED
    BY <2>2, <2>3, <2>4, <2>5
    DEF Next, Writer, Lock, Begin, BeginFails, ExecFails, Unlock, SenderReturns,
        BatchReturns, Query, CloseRows, OtherWrites, vars, goVars
<1> QED
  BY <1>1, <1>2, <1>3, <1>4, <1>5, <1>6 DEF TypeOK, Record

-----------------------------------------------------------------------------
(***************************************************************************)
(* The log.                                                                *)
(***************************************************************************)

(* A commit adds one transaction to the log. *)
LEMMA Appended ==
  ASSUME TypeOK, NEW w \in Writers,
         log' = Append(log, [by |-> w, nr |-> nr[w], stmts |-> stmt[w]])
  PROVE  /\ Len(log') = Len(log) + 1 /\ Len(log) \in Nat
         /\ \A i \in 1..Len(log) : log'[i] = log[i]
         /\ log'[Len(log')] = [by |-> w, nr |-> nr[w], stmts |-> stmt[w]]
         /\ \A v, n : Committed(v, n, Len(log))' <=>
                       Committed(v, n, Len(log)) \/ (v = w /\ n = nr[w])
<1> DEFINE e == [by |-> w, nr |-> nr[w], stmts |-> stmt[w]]
<1>1. log \in Seq(Record) /\ e \in Record /\ log' = Append(log, e)
  BY DEF TypeOK, Record
<1>2. /\ Len(log') = Len(log) + 1 /\ Len(log) \in Nat
      /\ \A i \in 1..Len(log) : log'[i] = log[i]
      /\ log'[Len(log) + 1] = e
  <2> HIDE DEF e
  <2> QED
    BY <1>1
<1>3. e.by = w /\ e.nr = nr[w]
  OBVIOUS
<1> HIDE DEF e
<1>4. ASSUME NEW v, NEW n
      PROVE  Committed(v, n, Len(log))' <=>
               Committed(v, n, Len(log)) \/ (v = w /\ n = nr[w])
  <2>1. Committed(v, n, Len(log)) => Committed(v, n, Len(log))'
    BY <1>2 DEF Committed
  <2>2. v = w /\ n = nr[w] => Committed(v, n, Len(log))'
    BY <1>2, <1>3 DEF Committed
  <2>3. ASSUME NEW i \in 1..Len(log'), log'[i].by = v, log'[i].nr = n
        PROVE  Committed(v, n, Len(log)) \/ (v = w /\ n = nr[w])
    <3>1. CASE i \in 1..Len(log)
      BY <1>2, <2>3, <3>1 DEF Committed
    <3>2. CASE i = Len(log) + 1
      BY <1>2, <1>3, <2>3, <3>2
    <3> QED
      BY <1>2, <3>1, <3>2
  <2> QED
    BY <2>1, <2>2, <2>3 DEF Committed
<1> QED
  BY <1>2, <1>4 DEF e

(* A loss of power takes away its end. *)
LEMMA CutOff ==
  ASSUME TypeOK, NEW m \in synced..Len(log), log' = SubSeq(log, 1, m)
  PROVE  /\ Len(log') \in Nat /\ Len(log') <= Len(log)
         /\ \A i \in 1..Len(log') : log'[i] = log[i]
         /\ \A v, n : Committed(v, n, Len(log))' => Committed(v, n, Len(log))
  BY DEF TypeOK, Committed

LEMMA StepWholeLog ==
  ASSUME TypeOK, StatementsInv, WholeLog, [Next]_vars
  PROVE  WholeLog'
<1>1. ASSUME NEW w \in Writers, Commit(w),
             log' = Append(log, [by |-> w, nr |-> nr[w], stmts |-> stmt[w]])
      PROVE  WholeLog'
  <2>1. stmt[w] = Statements(w, nr[w])
    BY <1>1 DEF Commit, StatementsInv
  <2> QED
    BY <1>1, <2>1, Appended DEF WholeLog
<1>2. ASSUME NEW m \in synced..Len(log), log' = SubSeq(log, 1, m)
      PROVE  WholeLog'
  BY <1>2, CutOff DEF WholeLog
<1>3. CASE log' = log
  BY <1>3 DEF WholeLog
<1> QED
  BY <1>1, <1>2, <1>3, StepLog

LEMMA StepProgress ==
  ASSUME TypeOK, EngineInv, ProgressIsSaved, [Next]_vars
  PROVE  ProgressIsSaved'
<1>1. ASSUME NEW w \in Writers, Commit(w),
             log' = Append(log, [by |-> w, nr |-> nr[w], stmts |-> stmt[w]])
      PROVE  ProgressIsSaved'
  <2> SUFFICES ASSUME NEW i \in 1..Len(log'), log'[i].by = Engine,
                      log'[i].nr = Batch + 1, NEW n \in 1..Batch
               PROVE  Committed(Engine, n, i)'
    BY DEF ProgressIsSaved
  <2>1. CASE i \in 1..Len(log)
    <3>1. Committed(Engine, n, i)
      BY <1>1, <2>1, Appended DEF ProgressIsSaved
    <3> QED
      BY <1>1, <2>1, <3>1, Appended DEF Committed
  <2>2. CASE i = Len(log')
    <3>1. w = Engine /\ nr[Engine] = Batch + 1
      BY <1>1, <2>2, Appended
    <3>2. Committed(Engine, n, Len(log))
      BY <3>1, DatabaseAssumption DEF EngineInv
    <3> QED
      BY <1>1, <2>2, <3>2, Appended
  <2> QED
    BY <1>1, <2>1, <2>2, Appended
<1>2. ASSUME NEW m \in synced..Len(log), log' = SubSeq(log, 1, m)
      PROVE  ProgressIsSaved'
  BY <1>2, CutOff DEF ProgressIsSaved, Committed
<1>3. CASE log' = log
  BY <1>3 DEF ProgressIsSaved, Committed
<1> QED
  BY <1>1, <1>2, <1>3, StepLog

LEMMA MishapsStay == ASSUME [Next]_vars PROVE mishaps \subseteq mishaps'
  BY DEF Next, Writer, Lock, Begin, BeginFails, Exec, ExecFails, Rollback, Commit,
         Unlock, SenderReturns, BatchReturns, Query, CloseRows, OtherWrites,
         Crash, PowerLoss, Happens, vars

(* What SendersInv says of one sender. *)
SenderInv(w) ==
  /\ Committed(w, 1, Len(log)) =>
       /\ pc[w] \in {"unlock", "return", "done", "gone"}
       /\ pc[w] # "gone" => ~err[w]
  /\ "power" \notin mishaps =>
       (pc[w] \in {"unlock", "return", "done"} /\ ~err[w]
          => Committed(w, 1, Len(log)))

LEMMA StepSenders ==
  ASSUME TypeOK, StatementsInv, SendersInv, [Next]_vars
  PROVE  SendersInv'
<1> SUFFICES ASSUME NEW w \in Senders PROVE SenderInv(w)'
  BY DEF SendersInv, SenderInv
<1>1. /\ SenderInv(w) /\ w \in Writers /\ w # Engine /\ nr[w] = 1
      /\ pc \in [Writers -> {"idle", "begin", "exec", "rollback", "commit",
                            "unlock", "return", "done", "gone"}]
      /\ err \in [Writers -> BOOLEAN]
  BY Distinct DEF SendersInv, SenderInv, StatementsInv, TypeOK
<1>2. "power" \notin mishaps' => "power" \notin mishaps
  BY MishapsStay
<1>3. CASE log' = log /\ pc'[w] = pc[w] /\ err'[w] = err[w]
  BY <1>1, <1>2, <1>3 DEF SenderInv, Committed
<1>4. CASE Lock(w) \/ Begin(w) \/ Exec(w) \/ ExecFails(w)
  <2>1. /\ log' = log /\ pc[w] \in {"idle", "begin", "exec"}
        /\ pc'[w] \in {"begin", "exec", "commit", "rollback"}
    BY <1>1, <1>4 DEF Lock, Begin, Exec, ExecFails, Goto, fileVars
  <2> QED
    BY <1>1, <2>1 DEF SenderInv, Committed
<1>5. CASE BeginFails(w) \/ Rollback(w)
  <2>1. /\ log' = log /\ pc[w] \in {"begin", "rollback"}
        /\ pc'[w] = "unlock" /\ err'[w] = TRUE
    BY <1>1, <1>5 DEF BeginFails, Rollback, Goto, fileVars
  <2> QED
    BY <1>1, <2>1 DEF SenderInv, Committed
<1>6. CASE Unlock(w) \/ SenderReturns(w)
  <2>1. /\ log' = log /\ pc[w] \in {"unlock", "return"} /\ err' = err
        /\ pc'[w] \in {"return", "done"}
    BY <1>1, <1>6 DEF Unlock, SenderReturns, Goto, fileVars
  <2> QED
    BY <1>1, <1>2, <2>1 DEF SenderInv, Committed
<1>7. ASSUME NEW v \in Writers, Commit(v) PROVE SenderInv(w)'
  <2>1. /\ pc' = [pc EXCEPT ![v] = "unlock"] /\ pc[v] = "commit"
        /\ \/ /\ log' = Append(log, [by |-> v, nr |-> nr[v], stmts |-> stmt[v]])
              /\ err' = [err EXCEPT ![v] = FALSE]
           \/ log' = log /\ err' = [err EXCEPT ![v] = TRUE]
    BY <1>7 DEF Commit, Goto
  <2>2. CASE log' = log /\ err' = [err EXCEPT ![v] = TRUE]
    BY <1>1, <1>2, <2>1, <2>2 DEF SenderInv, Committed
  <2>3. CASE /\ log' = Append(log, [by |-> v, nr |-> nr[v], stmts |-> stmt[v]])
             /\ err' = [err EXCEPT ![v] = FALSE]
    <3>1. Committed(w, 1, Len(log))' <=> Committed(w, 1, Len(log)) \/ w = v
      BY <1>1, <2>3, Appended
    <3> QED
      BY <1>1, <1>2, <2>1, <2>3, <3>1 DEF SenderInv
  <2> QED
    BY <2>1, <2>2, <2>3
<1>8. CASE Crash \/ PowerLoss
  <2>1. /\ err' = err
        /\ pc'[w] = IF pc[w] = "done" THEN "done" ELSE "gone"
    BY <1>1, <1>8 DEF Crash, PowerLoss, Restart
  <2>2. CASE Crash
    BY <1>1, <1>2, <2>1, <2>2 DEF Crash, SenderInv, Committed
  <2>3. CASE PowerLoss
    <3>1. "power" \in mishaps'
      BY <2>3 DEF PowerLoss, Happens
    <3>2. Committed(w, 1, Len(log))' => Committed(w, 1, Len(log))
      BY <2>3, CutOff DEF PowerLoss
    <3> QED
      BY <1>1, <2>1, <3>1, <3>2 DEF SenderInv
  <2> QED
    BY <1>8, <2>2, <2>3
<1>9. ASSUME NEW v \in Writers, v # w, Writer(v), ~Commit(v)
      PROVE  log' = log /\ pc'[w] = pc[w] /\ err'[w] = err[w]
  BY <1>1, <1>9
  DEF Writer, Lock, Begin, BeginFails, Exec, ExecFails, Rollback, Unlock,
      SenderReturns, BatchReturns, Goto, fileVars
<1>10. CASE Query \/ CloseRows \/ OtherWrites \/ UNCHANGED vars
  BY <1>3, <1>10 DEF Query, CloseRows, OtherWrites, vars, goVars, fileVars
<1>11. CASE \E v \in Writers : Writer(v)
  <2>1. PICK v \in Writers : Writer(v)
    BY <1>11
  <2>2. CASE v = w
    BY <1>1, <1>4, <1>5, <1>6, <1>7, <2>1, <2>2 DEF Writer
  <2>3. CASE v # w
    BY <1>3, <1>7, <1>9, <2>1, <2>3
  <2> QED
    BY <2>2, <2>3
<1> QED
  BY <1>8, <1>10, <1>11 DEF Next

LEMMA StepEngine ==
  ASSUME TypeOK, EngineInv, [Next]_vars
  PROVE  EngineInv'
<1>1. /\ Engine \in Writers /\ Batch \in Nat
      /\ pc \in [Writers -> {"idle", "begin", "exec", "rollback", "commit",
                            "unlock", "return", "done", "gone"}]
      /\ err \in [Writers -> BOOLEAN] /\ nr \in [Writers -> 1..Batch + 1]
  BY Distinct, DatabaseAssumption DEF TypeOK
<1>2. "power" \notin mishaps' => "power" \notin mishaps
  BY MishapsStay
<1>3. /\ \A n \in 1..Batch : n < nr[Engine] => Committed(Engine, n, Len(log))
      /\ pc[Engine] \in {"unlock", "return"} /\ ~err[Engine]
           => Committed(Engine, nr[Engine], Len(log))
      /\ acked /\ "power" \notin mishaps =>
           \A n \in 1..Batch : Committed(Engine, n, Len(log))
  BY DEF EngineInv
<1>4. ASSUME log' = log, nr' = nr, acked' = acked,
             pc'[Engine] \in {"unlock", "return"} /\ ~err'[Engine] =>
               pc[Engine] \in {"unlock", "return"} /\ ~err[Engine]
      PROVE  EngineInv'
  BY <1>2, <1>3, <1>4 DEF EngineInv, Committed
<1>5. ASSUME NEW w \in Writers, Writer(w), ~Commit(w), ~BatchReturns
      PROVE  /\ log' = log /\ nr' = nr /\ acked' = acked
             /\ pc'[Engine] \in {"unlock", "return"} /\ ~err'[Engine] =>
                  pc[Engine] \in {"unlock", "return"} /\ ~err[Engine]
  BY <1>1, <1>5
  DEF Writer, Lock, Begin, BeginFails, Exec, ExecFails, Rollback, Unlock,
      SenderReturns, Goto, fileVars
<1>6. ASSUME NEW w \in Writers, Commit(w) PROVE EngineInv'
  <2>1. /\ pc' = [pc EXCEPT ![w] = "unlock"] /\ nr' = nr /\ acked' = acked
        /\ \/ /\ log' = Append(log, [by |-> w, nr |-> nr[w], stmts |-> stmt[w]])
              /\ err' = [err EXCEPT ![w] = FALSE]
           \/ log' = log /\ err' = [err EXCEPT ![w] = TRUE]
    BY <1>6 DEF Commit, Goto
  <2>2. CASE log' = log /\ err' = [err EXCEPT ![w] = TRUE]
    BY <1>1, <1>4, <2>1, <2>2
  <2>3. CASE /\ log' = Append(log, [by |-> w, nr |-> nr[w], stmts |-> stmt[w]])
             /\ err' = [err EXCEPT ![w] = FALSE]
    <3>1. \A n : Committed(Engine, n, Len(log))' <=>
            Committed(Engine, n, Len(log)) \/ (Engine = w /\ n = nr[w])
      BY <2>3, Appended
    <3> QED
      BY <1>1, <1>2, <1>3, <2>1, <2>3, <3>1 DEF EngineInv
  <2> QED
    BY <2>1, <2>2, <2>3
<1>7. CASE BatchReturns
  <2>1. /\ log' = log /\ err' = err /\ pc[Engine] = "return"
        /\ pc'[Engine] \in {"idle", "done"}
    BY <1>1, <1>7 DEF BatchReturns, Goto, fileVars
  <2>2. ASSUME NEW n \in 1..Batch, n < nr'[Engine]
        PROVE  Committed(Engine, n, Len(log))
    <3>1. CASE n < nr[Engine]
      BY <1>3, <3>1
    <3>2. CASE ~(n < nr[Engine])
      <4>1. n = nr[Engine] /\ ~err[Engine]
        BY <1>1, <1>7, <2>2, <3>2 DEF BatchReturns
      <4> QED
        BY <1>3, <2>1, <4>1
    <3> QED
      BY <3>1, <3>2
  <2>3. acked' => acked \/ nr[Engine] = Batch + 1
    BY <1>7 DEF BatchReturns
  <2>4. acked' /\ "power" \notin mishaps' =>
          \A n \in 1..Batch : Committed(Engine, n, Len(log))
    BY <1>1, <1>2, <1>3, <2>3
  <2> QED
    BY <2>1, <2>2, <2>4 DEF EngineInv, Committed
<1>8. CASE Crash \/ PowerLoss
  <2>1. nr'[Engine] = 1 /\ pc'[Engine] = "idle" /\ acked' = acked
    BY <1>1, <1>8 DEF Crash, PowerLoss, Restart
  <2>2. log' = log \/ "power" \in mishaps'
    BY <1>8 DEF Crash, PowerLoss, Happens
  <2> QED
    BY <1>1, <1>2, <1>3, <2>1, <2>2 DEF EngineInv, Committed
<1>9. CASE Query \/ CloseRows \/ OtherWrites \/ UNCHANGED vars
  BY <1>4, <1>9 DEF Query, CloseRows, OtherWrites, vars, goVars, fileVars
<1> QED
  BY <1>4, <1>5, <1>6, <1>7, <1>8, <1>9 DEF Next

-----------------------------------------------------------------------------
(***************************************************************************)
(* The theorems.                                                           *)
(***************************************************************************)

LEMMA StepInv == DatabaseInv /\ [Next]_vars => DatabaseInv'
<1> SUFFICES ASSUME DatabaseInv, [Next]_vars PROVE DatabaseInv'
  OBVIOUS
<1>1. /\ TypeOK /\ MutexInv /\ QuietInv /\ StatementsInv
      /\ WholeLog /\ SendersInv /\ EngineInv /\ ProgressIsSaved
  BY DEF DatabaseInv
<1>2. MutexInv' /\ QuietInv' /\ StatementsInv'
  BY <1>1, StepMutex, StepQuiet, StepStatements
<1>3. TypeOK'
  BY <1>1, <1>2, StepType
<1>4. WholeLog' /\ SendersInv' /\ EngineInv' /\ ProgressIsSaved'
  BY <1>1, StepWholeLog, StepSenders, StepEngine, StepProgress
<1> QED
  BY <1>2, <1>3, <1>4 DEF DatabaseInv

LEMMA InvHolds == Spec => []DatabaseInv
  BY InitInv, StepInv, PTL DEF Spec

(* Every reachable state is well typed: the pool is never overdrawn. *)
THEOREM TypeCorrect == Spec => []TypeOK
<1>1. DatabaseInv => TypeOK
  BY DEF DatabaseInv
<1> QED
  BY <1>1, InvHolds, PTL

(* Writers of one process do not fail because of each other. *)
THEOREM WritersDoNotCollide == Spec => []ErrorsComeFromOutside
<1>1. DatabaseInv => ErrorsComeFromOutside
  BY DEF DatabaseInv, QuietInv, ErrorsComeFromOutside
<1> QED
  BY <1>1, InvHolds, PTL

(* A transaction is in the tables with all its statements or not at all. *)
THEOREM TransactionsAreAtomic == Spec => []AllOrNothing
<1>1. DatabaseInv => AllOrNothing
  BY DEF DatabaseInv, WholeLog, SendersInv, AllOrNothing
<1> QED
  BY <1>1, InvHolds, PTL

(* What was reported as saved outlives a crash. *)
THEOREM ReportsAreTrue == Spec => []ReportedSurvives
<1>1. DatabaseInv => ReportedSurvives
  BY DEF DatabaseInv, SendersInv, EngineInv, ReportedSurvives
<1> QED
  BY <1>1, InvHolds, PTL

(* The recorded progress is never ahead of the rows. *)
THEOREM ProgressFollowsRows == Spec => []ProgressIsSaved
<1>1. DatabaseInv => ProgressIsSaved
  BY DEF DatabaseInv
<1> QED
  BY <1>1, InvHolds, PTL

-----------------------------------------------------------------------------
(***************************************************************************)
(* Database implements WritePromise.                                       *)
(***************************************************************************)

(* The engine's rows are in the log in their order, each time they are. *)
InOrder ==
  \A i \in 1..Len(log) : log[i].by = Engine =>
    \A n \in 1..Batch : n < log[i].nr => Committed(Engine, n, i)

(* A loss of power spares no goroutine. *)
NobodyReturns ==
  "power" \in mishaps => \A w \in Senders : pc[w] \in {"done", "gone"}

LEMMA StepInOrder ==
  ASSUME TypeOK, EngineInv, InOrder, [Next]_vars
  PROVE  InOrder'
<1>1. ASSUME NEW w \in Writers, Commit(w),
             log' = Append(log, [by |-> w, nr |-> nr[w], stmts |-> stmt[w]])
      PROVE  InOrder'
  <2> SUFFICES ASSUME NEW i \in 1..Len(log'), log'[i].by = Engine,
                      NEW n \in 1..Batch, n < log'[i].nr
               PROVE  Committed(Engine, n, i)'
    BY DEF InOrder
  <2>1. CASE i \in 1..Len(log)
    <3>1. Committed(Engine, n, i)
      BY <1>1, <2>1, Appended DEF InOrder
    <3> QED
      BY <1>1, <2>1, <3>1, Appended DEF Committed
  <2>2. CASE i = Len(log')
    <3>1. w = Engine /\ n < nr[Engine]
      BY <1>1, <2>2, Appended
    <3>2. Committed(Engine, n, Len(log))
      BY <3>1 DEF EngineInv
    <3> QED
      BY <1>1, <2>2, <3>2, Appended
  <2> QED
    BY <1>1, <2>1, <2>2, Appended
<1>2. ASSUME NEW m \in synced..Len(log), log' = SubSeq(log, 1, m)
      PROVE  InOrder'
  BY <1>2, CutOff DEF InOrder, Committed
<1>3. CASE log' = log
  BY <1>3 DEF InOrder, Committed
<1> QED
  BY <1>1, <1>2, <1>3, StepLog

LEMMA StepReturns ==
  ASSUME TypeOK, NobodyReturns, [Next]_vars
  PROVE  NobodyReturns'
<1> USE Distinct DEF NobodyReturns
<1>1. CASE Crash \/ PowerLoss
  BY <1>1 DEF Crash, PowerLoss, Restart, Happens, TypeOK
<1>2. ASSUME NEW w \in Writers, Writer(w) PROVE NobodyReturns'
  <2>1. "power" \in mishaps' <=> "power" \in mishaps
    BY <1>2 DEF Writer, Lock, Begin, BeginFails, Exec, ExecFails, Rollback,
                Commit, Unlock, SenderReturns, BatchReturns, Happens
  <2>2. /\ pc[w] \notin {"done", "gone"}
        /\ \A v \in Writers : v # w => pc'[v] = pc[v]
    BY <1>2 DEF Writer, Lock, Begin, BeginFails, Exec, ExecFails, Rollback,
                Commit, Unlock, SenderReturns, BatchReturns, Goto, TypeOK
  <2> QED
    BY <2>1, <2>2
<1>3. CASE Query \/ CloseRows \/ OtherWrites \/ UNCHANGED vars
  <2>1. pc' = pc /\ ("power" \in mishaps' <=> "power" \in mishaps)
    BY <1>3 DEF Query, CloseRows, OtherWrites, Happens, vars, goVars
  <2> QED
    BY <2>1
<1> QED
  BY <1>1, <1>2, <1>3 DEF Next

WriteInv == DatabaseInv /\ InOrder /\ NobodyReturns

LEMMA PromiseInit == Init => Promise!Init
<1>1. Init => /\ SavedRows = {} /\ SavedMessages = {} /\ ~Recorded
              /\ Reported = {} /\ acked = FALSE
  BY Distinct DEF Init, SavedRows, SavedMessages, Recorded, Reported, Committed
<1> QED
  BY <1>1 DEF Promise!Init, Recorded, Committed

(* A step that leaves the log alone shows nothing of the tables. *)
LEMMA SameTables ==
  ASSUME log' = log
  PROVE  /\ SavedRows' = SavedRows /\ SavedMessages' = SavedMessages
         /\ Recorded' = Recorded
  BY DEF SavedRows, SavedMessages, Recorded, Committed

(* A step that does not end a sender's Save reports nothing. *)
LEMMA SameReports ==
  ASSUME TypeOK, [Next]_vars, \A w \in Senders : ~SenderReturns(w)
  PROVE  Reported' = Reported
<1> USE Distinct
<1>1. ASSUME NEW w \in Writers, Writer(w) PROVE Reported' = Reported
  <2>1. pc[w] # "done" /\ (w \in Senders => pc'[w] # "done")
    BY <1>1 DEF Writer, Lock, Begin, BeginFails, Exec, ExecFails, Rollback,
                Commit, Unlock, SenderReturns, BatchReturns, Goto, TypeOK
  <2>2. \A v \in Writers : v # w => pc'[v] = pc[v] /\ err'[v] = err[v]
    BY <1>1 DEF Writer, Lock, Begin, BeginFails, Exec, ExecFails, Rollback,
                Commit, Unlock, SenderReturns, BatchReturns, Goto, TypeOK
  <2> QED
    BY <2>1, <2>2 DEF Reported
<1>2. CASE Crash \/ PowerLoss
  <2>1. /\ \A w \in Senders : pc'[w] = "done" <=> pc[w] = "done"
        /\ err' = err
    BY <1>2 DEF Crash, PowerLoss, Restart
  <2> QED
    BY <2>1 DEF Reported
<1>3. CASE Query \/ CloseRows \/ OtherWrites \/ UNCHANGED vars
  BY <1>3 DEF Query, CloseRows, OtherWrites, vars, goVars, Reported
<1> QED
  BY <1>1, <1>2, <1>3 DEF Next

(* A transaction that commits saves a row, the progress or a message. *)
LEMMA CommitPromise ==
  ASSUME WriteInv, [Next]_vars, NEW w \in Writers, Commit(w),
         log' = Append(log, [by |-> w, nr |-> nr[w], stmts |-> stmt[w]])
  PROVE  Promise!Next
<1>0. TypeOK /\ EngineInv /\ StatementsInv /\ Batch \in Nat
      /\ nr \in [Writers -> 1..Batch + 1]
  BY DatabaseAssumption DEF WriteInv, DatabaseInv, TypeOK
<1>1. \A v, n : Committed(v, n, Len(log))' <=>
               Committed(v, n, Len(log)) \/ (v = w /\ n = nr[w])
  BY <1>0, Appended
<1>b. Recorded \in BOOLEAN /\ Recorded' \in BOOLEAN
  BY DEF Recorded, Committed
<1>2. Reported' = Reported /\ acked' = acked
  <2>1. \A v \in Senders : ~SenderReturns(v)
    <3>1. \A v \in Senders : pc'[v] = "done" => pc[v] = "done"
      BY <1>0 DEF Commit, Goto, TypeOK
    <3> QED
      BY <1>0, <3>1, Distinct DEF SenderReturns, Goto, TypeOK
  <2> QED
    BY <1>0, <2>1, SameReports DEF Commit
<1>3. CASE w = Engine /\ nr[w] \in 1..Batch
  <2>1. \A v \in Senders : v # w
    BY <1>3, Distinct
  <2>2. SavedMessages' = SavedMessages
    BY <1>1, <2>1 DEF SavedMessages
  <2>3. SavedRows' = SavedRows \cup {nr[w]}
    BY <1>1, <1>3 DEF SavedRows
  <2>4. nr[w] # Batch + 1
    BY <1>0, <1>3
  <2>5. Recorded' = Recorded
    <3>1. Recorded' <=> Recorded
      BY <1>1, <2>4 DEF Recorded
    <3> QED
      BY <1>b, <3>1
  <2>6. \A m \in 1..Batch : m < nr[w] => m \in SavedRows
    BY <1>0, <1>3 DEF EngineInv, SavedRows
  <2>7. Promise!SaveRow(nr[w])
    BY <1>2, <2>2, <2>3, <2>5, <2>6 DEF Promise!SaveRow, Promise!All
  <2> QED
    BY <1>3, <2>7 DEF Promise!Next, Promise!All
<1>4. CASE w = Engine /\ nr[w] = Batch + 1
  <2>1. \A v \in Senders : v # w
    BY <1>4, Distinct
  <2>2. SavedMessages' = SavedMessages
    BY <1>1, <2>1 DEF SavedMessages
  <2>3. \A n \in 1..Batch : n # nr[w] /\ n < nr[w]
    BY <1>0, <1>4
  <2>4. SavedRows' = SavedRows
    BY <1>1, <2>3 DEF SavedRows
  <2>5. SavedRows = 1..Batch
    BY <1>0, <1>4, <2>3 DEF EngineInv, SavedRows
  <2>6. Recorded' = TRUE
    BY <1>1, <1>4 DEF Recorded
  <2>7. Promise!Record
    BY <1>2, <2>2, <2>4, <2>5, <2>6 DEF Promise!Record, Promise!All
  <2> QED
    BY <2>7 DEF Promise!Next
<1>5. CASE w \in Senders
  <2>1. nr[w] = 1 /\ w # Engine
    BY <1>0, <1>5, Distinct DEF StatementsInv
  <2>2. SavedMessages' = SavedMessages \cup {w}
    BY <1>1, <1>5, <2>1 DEF SavedMessages
  <2>3. SavedRows' = SavedRows
    BY <1>1, <2>1 DEF SavedRows
  <2>4. Recorded' = Recorded
    <3>1. Recorded' <=> Recorded
      BY <1>1, <2>1 DEF Recorded
    <3> QED
      BY <1>b, <3>1
  <2>5. Promise!SaveMessage(w)
    BY <1>2, <2>2, <2>3, <2>4 DEF Promise!SaveMessage
  <2> QED
    BY <1>5, <2>5 DEF Promise!Next
<1> QED
  BY <1>0, <1>3, <1>4, <1>5 DEF Writers

(* A loss of power takes rows and messages from the end of the log. *)
LEMMA PowerPromise ==
  ASSUME WriteInv, [Next]_vars, InOrder', PowerLoss
  PROVE  Promise!Next
<1>0. TypeOK /\ Batch \in Nat
  BY DatabaseAssumption DEF WriteInv, DatabaseInv
<1>1. \A v, n : Committed(v, n, Len(log))' => Committed(v, n, Len(log))
  BY <1>0, CutOff DEF PowerLoss
<1>2. \A n \in 1..Batch + 1 : \A m \in 1..Batch :
        m < n /\ Committed(Engine, n, Len(log))' => Committed(Engine, m, Len(log))'
  <2> SUFFICES ASSUME NEW n \in 1..Batch + 1, NEW m \in 1..Batch, m < n,
                      NEW i \in 1..Len(log'), log'[i].by = Engine, log'[i].nr = n
               PROVE  \E j \in 1..Len(log') : log'[j].by = Engine /\ log'[j].nr = m
    BY DEF Committed
  <2>1. \E j \in 1..i : log'[j].by = Engine /\ log'[j].nr = m
    BY DEF InOrder, Committed
  <2>2. Len(log') \in Nat
    BY <1>0, CutOff DEF PowerLoss
  <2> QED
    BY <2>1, <2>2
<1>3. Reported' = Reported /\ acked' = acked
  <2>1. \A v \in Senders : ~SenderReturns(v)
    BY <1>0, Distinct DEF PowerLoss, Restart, Happens, SenderReturns, TypeOK
  <2> QED
    BY <1>0, <2>1, SameReports DEF PowerLoss
<1>4. SavedRows' \subseteq SavedRows /\ SavedMessages' \subseteq SavedMessages
  BY <1>1 DEF SavedRows, SavedMessages
<1>5. \A n \in SavedRows' : \A m \in 1..Batch : m < n => m \in SavedRows'
  BY <1>0, <1>2 DEF SavedRows
<1>6. Recorded' => Recorded /\ SavedRows' = 1..Batch
  <2>1. Batch + 1 \in 1..Batch + 1 /\ \A m \in 1..Batch : m < Batch + 1
    BY <1>0
  <2> QED
    BY <1>1, <1>2, <2>1 DEF Recorded, SavedRows
<1>7. Promise!LosePower
  BY <1>3, <1>4, <1>5, <1>6 DEF Promise!LosePower, Promise!All
<1> QED
  BY <1>7 DEF Promise!Next

(* Of the other steps the acknowledgement and the return of a sender show. *)
LEMMA PromiseStep ==
  ASSUME WriteInv, [Next]_vars, InOrder'
  PROVE  [Promise!Next]_(Promise!vars)
<1>0. /\ TypeOK /\ EngineInv /\ SendersInv /\ Batch \in Nat
      /\ nr \in [Writers -> 1..Batch + 1]
  BY DatabaseAssumption DEF WriteInv, DatabaseInv, TypeOK
<1>1. CASE ~ (log' = log)
  BY <1>0, <1>1, StepLog, CommitPromise, PowerPromise
<1>2. CASE log' = log /\ BatchReturns
  <2>1. /\ SavedRows' = SavedRows /\ SavedMessages' = SavedMessages
        /\ Recorded' = Recorded
    BY <1>2, SameTables
  <2>2. Reported' = Reported
    <3>1. \A v \in Senders : ~SenderReturns(v)
      BY <1>0, <1>2, Distinct DEF BatchReturns, SenderReturns, Goto, TypeOK
    <3> QED
      BY <1>0, <3>1, SameReports
  <2>3. CASE acked' = acked
    BY <2>1, <2>2, <2>3 DEF Promise!vars
  <2>4. CASE nr[Engine] = Batch + 1 /\ acked' = TRUE
    <3>1. \A n \in 1..Batch : Committed(Engine, n, Len(log))
      BY <1>0, <2>4 DEF EngineInv
    <3>2. SavedRows = 1..Batch
      BY <3>1 DEF SavedRows
    <3>3. Promise!Acknowledge
      BY <2>1, <2>2, <2>4, <3>2 DEF Promise!Acknowledge, Promise!All
    <3> QED
      BY <3>3 DEF Promise!Next
  <2> QED
    BY <1>2, <2>3, <2>4 DEF BatchReturns
<1>3. ASSUME log' = log, NEW w \in Senders, SenderReturns(w)
      PROVE  [Promise!Next]_(Promise!vars)
  <2>1. /\ SavedRows' = SavedRows /\ SavedMessages' = SavedMessages
        /\ Recorded' = Recorded
    BY <1>3, SameTables
  <2>2. /\ pc' = [pc EXCEPT ![w] = "done"] /\ pc[w] = "return"
        /\ err' = err /\ acked' = acked
    BY <1>3 DEF SenderReturns, Goto
  <2>3. CASE err[w]
    <3>1. Reported' = Reported
      BY <1>0, <2>2, <2>3, Distinct DEF Reported, TypeOK
    <3> QED
      BY <2>1, <2>2, <3>1 DEF Promise!vars
  <2>4. CASE ~err[w]
    <3>1. Reported' = Reported \cup {w}
      BY <1>0, <2>2, <2>4, Distinct DEF Reported, TypeOK
    <3>2. "power" \notin mishaps
      BY <2>2 DEF WriteInv, NobodyReturns
    <3>3. w \in SavedMessages
      BY <1>0, <2>2, <2>4, <3>2 DEF SendersInv, SavedMessages
    <3>4. Promise!Report(w)
      BY <2>1, <2>2, <3>1, <3>3 DEF Promise!Report
    <3> QED
      BY <3>4 DEF Promise!Next
  <2> QED
    BY <2>3, <2>4
<1>4. CASE log' = log /\ ~BatchReturns /\ \A w \in Senders : ~SenderReturns(w)
  <2>1. acked' = acked
    <3>1. ASSUME NEW w \in Writers, Writer(w) PROVE acked' = acked
      BY <1>4, <3>1 DEF Writer, Lock, Begin, BeginFails, Exec, ExecFails,
                        Rollback, Commit, Unlock, SenderReturns
    <3>2. CASE Query \/ CloseRows \/ OtherWrites \/ UNCHANGED vars
      BY <3>2 DEF Query, CloseRows, OtherWrites, vars
    <3> QED
      BY <3>1, <3>2 DEF Next, Crash, PowerLoss
  <2>2. Reported' = Reported
    BY <1>0, <1>4, SameReports
  <2>3. /\ SavedRows' = SavedRows /\ SavedMessages' = SavedMessages
        /\ Recorded' = Recorded
    BY <1>4, SameTables
  <2> QED
    BY <2>1, <2>2, <2>3 DEF Promise!vars
<1> QED
  BY <1>1, <1>2, <1>3, <1>4

(* For any senders, batch, pool and mishaps, saving through WriteTransaction
   is to the engine and the chat service as if each row were saved in one
   step, in order, and lost only with the power. *)
THEOREM WritesKeepPromise == Spec => PromiseKept
<1>1. Init => WriteInv
  BY InitInv DEF Init, WriteInv, InOrder, NobodyReturns
<1>2. WriteInv /\ [Next]_vars => WriteInv'
  BY StepInv, StepInOrder, StepReturns DEF WriteInv, DatabaseInv
<1>3. WriteInv /\ WriteInv' /\ [Next]_vars => [Promise!Next]_(Promise!vars)
  BY PromiseStep DEF WriteInv
<1> QED
  BY <1>1, <1>2, <1>3, PromiseInit, PTL DEF Spec, PromiseKept, Promise!Spec

-----------------------------------------------------------------------------
(***************************************************************************)
(* Who waits for whom.                                                     *)
(***************************************************************************)

(* The mutex has a holder, and he is in WriteTransaction. *)
HolderInside == writeMu # Nobody => pc[writeMu] \in Inside

LEMMA StepHolder ==
  ASSUME TypeOK, MutexInv, HolderInside, [Next]_vars
  PROVE  HolderInside'
<1> USE Distinct DEF TypeOK, HolderInside, Inside, InTransaction, Goto
<1>1. ASSUME NEW w \in Writers, Lock(w) \/ Unlock(w) PROVE HolderInside'
  BY <1>1 DEF Lock, Unlock
<1>2. ASSUME NEW w \in Writers,
             \/ Begin(w) \/ BeginFails(w) \/ Exec(w) \/ ExecFails(w)
             \/ Rollback(w) \/ Commit(w)
      PROVE  HolderInside'
  <2>1. writeMu' = writeMu /\ pc'[w] \in Inside
    BY <1>2 DEF Begin, BeginFails, Exec, ExecFails, Rollback, Commit
  <2>2. \A v \in Writers : v # w => pc'[v] = pc[v]
    BY <1>2 DEF Begin, BeginFails, Exec, ExecFails, Rollback, Commit
  <2> QED
    BY <2>1, <2>2
<1>3. ASSUME NEW w \in Writers, SenderReturns(w) \/ (w = Engine /\ BatchReturns)
      PROVE  HolderInside'
  BY <1>3 DEF SenderReturns, BatchReturns
<1>4. CASE Query \/ CloseRows \/ OtherWrites \/ UNCHANGED vars
  BY <1>4 DEF Query, CloseRows, OtherWrites, vars, goVars
<1>5. CASE Crash \/ PowerLoss
  BY <1>5 DEF Crash, PowerLoss, Restart
<1> QED
  BY <1>1, <1>2, <1>3, <1>4, <1>5 DEF Next, Writer

(* What a goroutine waits for belongs to one that can go on: the mutex to a
   writer in its transaction, a full pool to queries alone, since writers
   that would need a second connection wait for the mutex, and SQLite's lock
   to the other process. *)
NoCircle ==
  \A w \in Writers :
    /\ pc[w] = "idle" /\ writeMu # Nobody => writeMu # w /\ pc[writeMu] \in Inside
    /\ pc[w] = "begin" /\ ~(InUse < Conns) => conns = {} /\ reading = Conns
    /\ pc[w] = "exec" /\ locked \notin {w, Nobody} => locked = OtherProcess

(* WriteTransaction does not deadlock with itself or with the queries,
   however small the pool: nobody waits in a circle. *)
THEOREM NobodyWaitsInACircle == Spec => []NoCircle
<1>1. Init => DatabaseInv /\ HolderInside
  BY InitInv DEF Init, HolderInside
<1>2. DatabaseInv /\ HolderInside /\ [Next]_vars => DatabaseInv' /\ HolderInside'
  BY StepInv, StepHolder DEF DatabaseInv
<1>3. DatabaseInv /\ HolderInside => NoCircle
  <2> SUFFICES ASSUME TypeOK, MutexInv, HolderInside, NEW w \in Writers
               PROVE
      /\ pc[w] = "idle" /\ writeMu # Nobody => writeMu # w /\ pc[writeMu] \in Inside
      /\ pc[w] = "begin" /\ ~(InUse < Conns) => conns = {} /\ reading = Conns
      /\ pc[w] = "exec" /\ locked \notin {w, Nobody} => locked = OtherProcess
    BY DEF DatabaseInv, NoCircle
  <2>1. ASSUME pc[w] = "begin", ~(InUse < Conns) PROVE conns = {} /\ reading = Conns
    <3>1. conns = {}
      BY <2>1 DEF MutexInv, Inside, InTransaction, TypeOK
    <3>2. Cardinality({}) = 0
      BY FS_EmptySet
    <3> QED
      BY <2>1, <3>1, <3>2, DatabaseAssumption DEF InUse, TypeOK
  <2>2. ASSUME pc[w] = "exec", locked \notin {w, Nobody} PROVE locked = OtherProcess
    BY <2>2 DEF MutexInv, Inside, InTransaction, TypeOK
  <2>3. writeMu # Nobody => pc[writeMu] \in Inside
    BY DEF HolderInside
  <2>4. "idle" \notin Inside
    BY DEF Inside, InTransaction
  <2> QED
    BY <2>1, <2>2, <2>3, <2>4
<1> QED
  BY <1>1, <1>2, <1>3, PTL DEF Spec
=============================================================================
