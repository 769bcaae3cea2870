------------------------- MODULE FetchSessionProofs -------------------------
(***************************************************************************)
(* FetchSession for every value of its constants: types, where the         *)
(* device's rows come from and that a device that reads is answered        *)
(* without hypotheses; AckedRowsSaved when the nodes' numbering agrees;    *)
(* CompletedMeansCaughtUp and the refinement of SyncPromise when moreover  *)
(* nothing is pushed; LastSyncedSaved when there is one source of rows and *)
(* nothing is pushed.                                                      *)
(***************************************************************************)
EXTENDS FetchInvariant, MessageStoreProofs, SequenceTheorems

USE DEF ClientStates, ServerStates

(* Every frame the code writes is a frame. *)
LEMMA FrameType ==
  ASSUME NEW a \in Nat, NEW b \in Nat, NEW c \in BOOLEAN,
         NEW M \in SUBSET AllRows
  PROVE  /\ AuthChallenge(a) \in Frame(AllRows)
         /\ AuthResponse(a) \in Frame(AllRows)
         /\ AuthResult(c) \in Frame(AllRows)
         /\ FetchRequest(a, b) \in Frame(AllRows)
         /\ AckRequest(a) \in Frame(AllRows)
         /\ FetchResponse(M, a, c) \in Frame(AllRows)
         /\ NoFrame \in Frame(AllRows)
         /\ \A r \in AllRows : PushEnvelope(r) \in Frame(AllRows)
  BY DEF Frame, AuthChallenge, AuthResponse, AuthResult, FetchRequest,
         AckRequest, FetchResponse, PushEnvelope, NoFrame, Varints, Flag

(* The frames of a queue when one is appended and when one is taken. *)
LEMMA QueueFacts ==
  ASSUME NEW S, NEW q \in Seq(S), NEW e \in S
  PROVE  /\ Range(Append(q, e)) = Range(q) \cup {e}
         /\ Len(Append(q, e)) = Len(q) + 1
         /\ Len(q) \in Nat
         /\ q # <<>> => /\ Head(q) \in Range(q)
                        /\ Range(Tail(q)) \subseteq Range(q)
                        /\ Len(Tail(q)) = Len(q) - 1
         /\ Len(q) = 0 => q = <<>>
<1>1. Range(Append(q, e)) = Range(q) \cup {e}
  <2>1. /\ DOMAIN q = 1..Len(q) /\ Len(q) \in Nat
        /\ DOMAIN Append(q, e) = 1..(Len(q) + 1)
        /\ \A i \in 1..Len(q) : Append(q, e)[i] = q[i]
        /\ Append(q, e)[Len(q) + 1] = e
    OBVIOUS
  <2> QED
    BY <2>1 DEF Range
<1>2. ASSUME q # <<>>
      PROVE  /\ Head(q) \in Range(q)
             /\ Range(Tail(q)) \subseteq Range(q)
             /\ Len(Tail(q)) = Len(q) - 1
  <2>1. /\ DOMAIN q = 1..Len(q) /\ Len(q) \in Nat \ {0}
        /\ Head(q) = q[1]
        /\ DOMAIN Tail(q) = 1..(Len(q) - 1)
        /\ Len(Tail(q)) = Len(q) - 1
        /\ \A i \in 1..(Len(q) - 1) : Tail(q)[i] = q[i + 1]
    BY <1>2
  <2> QED
    BY <2>1 DEF Range
<1> QED
  BY <1>1, <1>2

LEMMA NoFrames == Range(<<>>) = {}
  BY DEF Range

(* The response to a request frame: it is made of rows of the table, its
   max_seq is no less than the sequence asked for and leaves out no row in
   between, and without has_more it leaves out no row at all. *)
LEMMA PageFacts ==
  ASSUME NEW db \in SUBSET AllRows, IsFiniteSet(db),
         \A r \in db : r.seq \in 1..MaxGlobalSeq,
         \A x, y \in db : Conflict(x, y) => x = y,
         NEW f \in Frame(AllRows)
  PROVE  LET req == AsFetchRequest(f)
             resp == PageResponse(db, req)
         IN /\ resp \in Frame(AllRows)
            /\ resp.rows \subseteq db
            /\ resp.v2 >= f.v1
            /\ resp.v2 = f.v1 \/ \E r \in resp.rows : resp.v2 = r.seq
            /\ \A r \in db : f.v1 < r.seq /\ r.seq <= resp.v2 => r \in resp.rows
            /\ resp.v3 = 0 => \A r \in db : f.v1 < r.seq => r \in resp.rows
<1> DEFINE req == AsFetchRequest(f)
           l == EffectiveLimit(req.limit)
           P == GetSince(db, f.v1, l)
           resp == PageResponse(db, req)
<1>1. f.v1 \in Nat /\ f.v2 \in Nat /\ req.afterSeq = f.v1 /\ req.limit = f.v2
  BY DEF Frame, AsFetchRequest
<1>2. l \in Nat /\ l > 0
  BY <1>1, BoundsAssumption DEF EffectiveLimit
<1>3. MaxGlobalSeq \in Nat
  BY RowsAssumption
<1>4. /\ \A r \in db : r.seq \in Nat /\ r.seq \in 0..MaxGlobalSeq
      /\ \A x, y \in db : x.seq = y.seq => x = y
  BY <1>3 DEF Conflict
<1>5. P \subseteq After(db, f.v1) /\ After(db, f.v1) \subseteq db
  BY DEF GetSince, After
<1>6. P = Page(db, req)
  BY <1>1 DEF Page
<1>7. /\ resp.rows = P
      /\ resp.v2 = MaxSeq(f.v1, P)
      /\ resp.v3 = Flag(Cardinality(P) = l)
      /\ resp = FetchResponse(P, MaxSeq(f.v1, P), Cardinality(P) = l)
  BY <1>1, <1>6 DEF PageResponse, FetchResponse
<1> HIDE DEF P, l
<1>8. /\ MaxSeq(f.v1, P) \in Nat
      /\ MaxSeq(f.v1, P) >= f.v1
      /\ MaxSeq(f.v1, P) = f.v1 \/ \E r \in P : MaxSeq(f.v1, P) = r.seq
  <2>1. \A r \in P : r.seq \in 0..MaxGlobalSeq
    BY <1>4, <1>5
  <2> QED
    BY <1>1, <1>3, <2>1, MaxSeqBounds
<1>9. ASSUME NEW r \in db, f.v1 < r.seq, r.seq <= MaxSeq(f.v1, P)
      PROVE  r \in P
  <2>1. PICK x \in P : MaxSeq(f.v1, P) = x.seq
    BY <1>1, <1>4, <1>8, <1>9
  <2>2. CASE r.seq = x.seq
    BY <1>4, <1>5, <2>1, <2>2
  <2>3. CASE r.seq < x.seq
    BY <1>1, <1>2, <1>4, <1>9, <2>1, <2>3, PageIsPrefix DEF P
  <2> QED
    BY <1>4, <1>5, <1>9, <2>1, <2>2, <2>3
<1>10. ASSUME Cardinality(P) # l, NEW r \in db, f.v1 < r.seq
       PROVE  r \in P
  <2>1. P = After(db, f.v1)
    BY <1>1, <1>2, <1>4, <1>10, ShortPageIsLast DEF P
  <2> QED
    BY <1>1, <1>4, <1>10, <2>1 DEF After
<1>11. resp \in Frame(AllRows)
  BY <1>5, <1>7, <1>8 DEF FetchResponse, Frame, Flag
<1>12. resp.v3 = 0 => Cardinality(P) # l
  BY <1>7 DEF Flag
<1> QED
  BY <1>5, <1>7, <1>8, <1>9, <1>10, <1>11, <1>12

-----------------------------------------------------------------------------
(* Types. *)

USE NodesAssumption

(* The rows a node holds, for the lemma above. *)
LEMMA TableFacts ==
  ASSUME TypeOK, NEW n \in Nodes
  PROVE  /\ pnDB[n] \in SUBSET AllRows /\ pnDB[n] \subseteq Rows[n]
         /\ \A r \in pnDB[n] : r.seq \in 1..MaxGlobalSeq
         /\ \A x, y \in pnDB[n] : Conflict(x, y) => x = y
         /\ MaxGlobalSeq \in Nat
  BY RowsAssumption DEF TypeOK

TypeInv == TypeOK /\ FiniteTables

LEMMA TypeInit == Init => TypeInv
<1> SUFFICES ASSUME Init PROVE TypeInv
  OBVIOUS
<1>1. NoFrame \in Frame(AllRows)
  BY DEF NoFrame, Varints, Frame
<1>2. TypeOK
  BY <1>1, BoundsAssumption DEF Init, TypeOK
<1>3. FiniteTables
  BY FS_EmptySet DEF Init, FiniteTables
<1> QED
  BY <1>2, <1>3 DEF TypeInv

(* The frames of the handshake and of the fetch loop. *)
LEMMA FramesWritten ==
  /\ AuthChallenge(ExpiresAt) \in Frame(AllRows)
  /\ AuthResponse(Now) \in Frame(AllRows)
  /\ AuthResult(TRUE) \in Frame(AllRows) /\ AuthResult(FALSE) \in Frame(AllRows)
  /\ FetchRequest(0, PageLimit) \in Frame(AllRows)
  /\ NoFrame \in Frame(AllRows)
  /\ \A r \in AllRows : PushEnvelope(r) \in Frame(AllRows)
<1>1. /\ 0 \in Nat /\ 1 \in Nat /\ 2 \in Nat /\ PageLimit \in Nat
      /\ {} \in SUBSET AllRows
  BY BoundsAssumption
<1> QED
  BY <1>1, FrameType DEF ExpiresAt, Now

LEMMA QueueTypes ==
  ASSUME TypeOK
  PROVE  /\ \A e \in Frame(AllRows) :
              /\ Append(up, e) \in Seq(Frame(AllRows))
              /\ Append(down, e) \in Seq(Frame(AllRows))
         /\ up # <<>> => /\ Head(up) \in Frame(AllRows)
                         /\ Tail(up) \in Seq(Frame(AllRows))
         /\ down # <<>> => /\ Head(down) \in Frame(AllRows)
                           /\ Tail(down) \in Seq(Frame(AllRows))
         /\ <<>> \in Seq(Frame(AllRows))
<1> DEFINE F == Frame(AllRows)
<1>1. up \in Seq(F) /\ down \in Seq(F)
  BY DEF TypeOK
<1> HIDE DEF F
<1>2. \A e \in F : Append(up, e) \in Seq(F) /\ Append(down, e) \in Seq(F)
  BY <1>1
<1>3. up # <<>> => Head(up) \in F /\ Tail(up) \in Seq(F)
  BY <1>1
<1>4. down # <<>> => Head(down) \in F /\ Tail(down) \in Seq(F)
  BY <1>1
<1>5. <<>> \in Seq(F)
  OBVIOUS
<1> QED
  BY <1>2, <1>3, <1>4, <1>5 DEF F

LEMMA FaultType == TypeOK /\ Fault => faults' \in 0..MaxFaults
<1> SUFFICES ASSUME TypeOK, Fault PROVE faults' \in 0..MaxFaults
  OBVIOUS
<1>1. faults \in 0..MaxFaults /\ MaxFaults \in Nat
  BY BoundsAssumption DEF TypeOK
<1> QED
  BY <1>1 DEF Fault

LEMMA SeqNumbers ==
  /\ MaxGlobalSeq \in Nat
  /\ \A r \in AllRows : r.seq \in Nat /\ r.seq \in 1..MaxGlobalSeq
  BY RowsAssumption DEF AllRows

(* Hanging up leaves no stream, no frame and no batch. *)
LEMMA HangUpTypes ==
  HangUp => /\ cpc' = "idle" /\ spc' = "off" /\ peer' = NoNode
            /\ up' \in Seq(Frame(AllRows)) /\ down' \in Seq(Frame(AllRows))
            /\ out' \in Frame(AllRows) /\ reply' \in Frame(AllRows)
            /\ todo' \in SUBSET AllRows
  BY FramesWritten DEF HangUp

(* A step that hangs up, leaves the tables alone and sets the other
   variables to values of their types. *)
LEMMA HangUpStep ==
  TypeOK /\ HangUp /\ UNCHANGED tables
    /\ node' \in Nodes \cup {NoNode} /\ faults' \in 0..MaxFaults
    /\ status' \in {"none", "started", "completed", "failed"}
    /\ err' \in {"none", "challenge expired", "auth rejected", "stream",
                 "save batch"}
    /\ UNCHANGED atStart
  => TypeOK'
  BY HangUpTypes DEF TypeOK, tables

LEMMA TypeOKStep == TypeInv /\ [Next]_vars => TypeOK'
<1> SUFFICES ASSUME TypeOK, FiniteTables, [Next]_vars PROVE TypeOK'
  BY DEF TypeInv
<1>1. CASE Connect
  BY <1>1 DEF Connect, TypeOK, tables
<1>2. CASE ReadChallenge
  <2>1. CASE GiveUp("challenge expired") /\ (UNCHANGED faults \/ Fault)
    BY <1>2, <2>1, HangUpStep, FaultType DEF ReadChallenge, GiveUp, TypeOK
  <2>2. CASE /\ down' = Tail(down)
             /\ up' = Append(up, AuthResponse(Now))
             /\ cpc' = "result"
             /\ UNCHANGED <<peer, spc, out, reply, todo, status, err, atStart,
                            faults>>
    BY <1>2, <2>2, FramesWritten, QueueTypes DEF ReadChallenge, TypeOK, tables
  <2> QED
    BY <1>2, <2>1, <2>2 DEF ReadChallenge
<1>3. CASE ReadResult
  <2>1. CASE GiveUp("auth rejected")
    BY <1>3, <2>1, HangUpStep DEF ReadResult, GiveUp, TypeOK
  <2>2. CASE /\ down' = Tail(down)
             /\ cpc' = "fetch"
             /\ status' = "started"
             /\ atStart' = pnDB[peer]
             /\ UNCHANGED <<peer, spc, up, out, reply, todo, err>>
    <3>1. atStart' \in SUBSET AllRows
      BY <1>3, <2>2 DEF ReadResult, TypeOK
    <3> QED
      BY <1>3, <2>2, <3>1, QueueTypes DEF ReadResult, TypeOK, tables
  <2> QED
    BY <1>3, <2>1, <2>2 DEF ReadResult
<1>4. CASE SendFetch
  BY <1>4, FramesWritten, QueueTypes DEF SendFetch, TypeOK, tables
<1>5. CASE ReadResponse
  <2>1. Head(down) \in Frame(AllRows) /\ Tail(down) \in Seq(Frame(AllRows))
    BY <1>5, QueueTypes DEF ReadResponse
  <2>2. AsFetchResponse(Head(down)).messages \in SUBSET AllRows
    BY <2>1 DEF Frame, AsFetchResponse
  <2>3. CASE Finish("completed", err)
    BY <1>5, <2>3, HangUpStep DEF ReadResponse, Finish, TypeOK
  <2>4. CASE /\ cpc' = "fetch"
             /\ down' = Tail(down)
             /\ UNCHANGED <<peer, spc, up, out, reply, todo, status, err,
                            atStart>>
    BY <1>5, <2>1, <2>4 DEF ReadResponse, TypeOK, tables
  <2>5. CASE /\ cpc' = "save"
             /\ reply' = Head(down)
             /\ todo' = AsFetchResponse(Head(down)).messages
             /\ down' = Tail(down)
             /\ UNCHANGED <<peer, spc, up, out, status, err, atStart>>
    BY <1>5, <2>1, <2>2, <2>5 DEF ReadResponse, TypeOK, tables
  <2> QED
    BY <1>5, <2>3, <2>4, <2>5 DEF ReadResponse
<1>6. CASE SaveNext
  <2>1. devDB' \in SUBSET AllRows
    BY <1>6 DEF SaveNext, InsertOrIgnore, TypeOK
  <2> QED
    BY <1>6, <2>1 DEF SaveNext, TypeOK
<1>7. CASE SaveFails
  BY <1>7, HangUpStep, FaultType DEF SaveFails, Finish, TypeOK
<1>8. CASE RecordProgress
  <2>1. \A r \in reply.rows : r.seq \in Nat
    <3>1. reply.rows \subseteq AllRows
      BY DEF TypeOK, Frame
    <3> QED
      BY <3>1, SeqNumbers
  <2>2. lastSynced' \in Nat /\ faults' \in 0..MaxFaults
    BY <1>8, <2>1, FaultType DEF RecordProgress, TypeOK
  <2> QED
    BY <1>8, <2>2 DEF RecordProgress, TypeOK
<1>9. CASE SendAck
  <2>1. CASE Finish("completed", err)
    BY <1>9, <2>1, HangUpStep DEF SendAck, Finish, TypeOK
  <2>2. CASE /\ up' = Append(up, AckFor(reply))
             /\ cpc' = "fetch"
             /\ UNCHANGED <<peer, spc, down, out, reply, todo, status, err,
                            atStart>>
    <3>1. AckFor(reply) \in Frame(AllRows)
      BY DEF TypeOK, Frame, AckFor, AckRequest, AsFetchResponse, Varints
    <3> QED
      BY <1>9, <2>2, <3>1, QueueTypes DEF SendAck, TypeOK, tables
  <2> QED
    BY <1>9, <2>1, <2>2 DEF SendAck
<1>10. CASE StreamEnds
  BY <1>10, HangUpStep DEF StreamEnds, GiveUp, Finish, TypeOK
<1>11. CASE Greet
  BY <1>11, FramesWritten, QueueTypes DEF Greet, Return, TypeOK, tables, client
<1>12. CASE Verify
  <2>1. faults' \in 0..MaxFaults
    BY <1>12, FaultType DEF Verify, TypeOK
  <2> QED
    BY <1>12, <2>1, FramesWritten, QueueTypes
       DEF Verify, Return, TypeOK, tables, client
<1>13. CASE Register
  BY <1>13 DEF Register, TypeOK, tables, client
<1>14. CASE Serve
  <2>1. Head(up) \in Frame(AllRows) /\ Tail(up) \in Seq(Frame(AllRows))
    BY <1>14, QueueTypes DEF Serve
  <2>2. peer \in Nodes
    BY <1>14 DEF Serve, TypeOK
  <2>3. PageResponse(pnDB[peer], AsFetchRequest(Head(up))) \in Frame(AllRows)
    BY <2>1, <2>2, TableFacts, PageFacts DEF FiniteTables
  <2>4. out' \in Frame(AllRows) /\ faults' \in 0..MaxFaults
        /\ spc' \in {"off", "write"}
    BY <1>14, <2>3, FramesWritten, FaultType DEF Serve, Return, TypeOK
  <2> QED
    BY <1>14, <2>1, <2>2, <2>4 DEF Serve, TypeOK, tables, client
<1>15. CASE Respond
  BY <1>15, FramesWritten, QueueTypes DEF Respond, TypeOK, tables, client
<1>16. ASSUME NEW n \in Nodes, SetPersonalNode(n) PROVE TypeOK'
  BY <1>16 DEF SetPersonalNode, TypeOK, tables, client
<1>17. ASSUME NEW n \in Nodes, NEW r \in Rows[n], Store(n, r) PROVE TypeOK'
  <2>1. r \in AllRows
    BY DEF AllRows
  <2>2. /\ pnDB' \in [Nodes -> SUBSET AllRows]
        /\ unpushed' \in [Nodes -> SUBSET AllRows]
    BY <1>17, <2>1 DEF Store, InsertOrIgnore, TypeOK
  <2>3. r \in InsertOrIgnore(pnDB[n], r)
    <3>1. \A x \in pnDB[n] : Conflict(x, r) => x = r
      BY RowsAssumption DEF TypeOK
    <3> QED
      BY <3>1 DEF InsertOrIgnore
  <2>4. \A m \in Nodes : pnDB'[m] \subseteq Rows[m]
                         /\ unpushed'[m] \subseteq pnDB'[m]
    BY <1>17, <2>3 DEF Store, InsertOrIgnore, TypeOK
  <2> QED
    BY <1>17, <2>2, <2>4 DEF Store, TypeOK, client
<1>18. ASSUME NEW n \in Nodes, NEW r \in unpushed[n], PushNewMessage(n, r)
       PROVE  TypeOK'
  <2>1. r \in AllRows
    BY DEF TypeOK
  <2>2. down' \in Seq(Frame(AllRows))
    BY <1>18, <2>1, FramesWritten, QueueTypes DEF PushNewMessage, TypeOK
  <2>3. unpushed' \in [Nodes -> SUBSET AllRows]
        /\ \A m \in Nodes : unpushed'[m] \subseteq pnDB[m]
    BY <1>18 DEF PushNewMessage, TypeOK
  <2> QED
    BY <1>18, <2>2, <2>3 DEF PushNewMessage, TypeOK, client
<1>19. CASE Reset
  BY <1>19, FramesWritten, QueueTypes, FaultType
     DEF Reset, Return, TypeOK, tables, client
<1>20. CASE Crash
  BY <1>20, HangUpStep, FaultType DEF Crash, TypeOK
<1>21. CASE UNCHANGED vars
  BY <1>21 DEF vars, TypeOK
<1> QED
  BY <1>1, <1>2, <1>3, <1>4, <1>5, <1>6, <1>7, <1>8, <1>9, <1>10, <1>11,
     <1>12, <1>13, <1>14, <1>15, <1>16, <1>17, <1>18, <1>19, <1>20, <1>21
     DEF Next, ClientStep, ServerStep

(* Only Store changes a node's table, and by one row at most. *)
LEMMA TableChange ==
  [Next]_vars => \/ UNCHANGED pnDB
                 \/ \E n \in Nodes : \E r \in Rows[n] : Store(n, r)
  BY DEF Next, vars, tables, ClientStep, ServerStep, Connect, ReadChallenge,
         ReadResult, SendFetch, ReadResponse, SaveNext, SaveFails,
         RecordProgress, SendAck, StreamEnds, Greet, Verify, Register, Serve,
         Respond, SetPersonalNode, PushNewMessage, Reset, Crash

LEMMA FiniteStep == TypeInv /\ [Next]_vars => FiniteTables'
<1> SUFFICES ASSUME TypeOK, FiniteTables, [Next]_vars PROVE FiniteTables'
  BY DEF TypeInv
<1>1. CASE UNCHANGED pnDB
  BY <1>1 DEF FiniteTables
<1>2. ASSUME NEW n \in Nodes, NEW r \in Rows[n], Store(n, r)
      PROVE  FiniteTables'
  <2> SUFFICES ASSUME NEW m \in Nodes PROVE IsFiniteSet(pnDB'[m])
    BY DEF FiniteTables
  <2>1. IsFiniteSet(pnDB[m]) /\ IsFiniteSet(pnDB[m] \cup {r})
    BY FS_AddElement DEF FiniteTables
  <2>2. pnDB'[m] = pnDB[m] \/ pnDB'[m] = pnDB[m] \cup {r}
    BY <1>2 DEF Store, InsertOrIgnore, TypeOK
  <2> QED
    BY <2>1, <2>2
<1> QED
  BY <1>1, <1>2, TableChange

LEMMA TypeStep == TypeInv /\ [Next]_vars => TypeInv'
  BY TypeOKStep, FiniteStep DEF TypeInv

(* Every reachable state of the sync session is well typed: whatever frame
   is decoded as whatever message, and wherever the session breaks off. *)
THEOREM TypeCorrect == Spec => []TypeOK
<1>1. TypeInv => TypeOK
  BY DEF TypeInv
<1> QED
  BY <1>1, TypeInit, TypeStep, PTL DEF Spec
-----------------------------------------------------------------------------
(* Acknowledgements. *)

LEMMA CoveredMore ==
  ASSUME NEW held, NEW saved, NEW more, NEW s, NEW E, NEW F,
         Covered(held, saved, s, E), saved \subseteq more,
         E \subseteq more \cup F
  PROVE  Covered(held, more, s, F)
  BY DEF Covered

LEMMA CoveredGrows ==
  ASSUME NEW held, NEW saved, NEW s \in Nat, NEW E, NEW r, r.seq \in Nat,
         r.seq > 0, \A x \in held : x.seq \in Nat /\ x.seq < r.seq,
         Covered(held, saved, s, E)
  PROVE  Covered(held \cup {r}, saved, s, E)
<1>1. s < r.seq
  BY DEF Covered
<1> QED
  BY <1>1 DEF Covered

LEMMA CoveredZero ==
  ASSUME NEW held, NEW saved, NEW E, \A x \in held : x.seq \in Nat /\ x.seq > 0
  PROVE  Covered(held, saved, 0, E)
  BY DEF Covered

(* A response covers its max_seq when the request's after_seq is covered. *)
LEMMA ResponseCovered ==
  ASSUME TypeOK, FiniteTables, peer \in Nodes, NEW f \in Frame(AllRows),
         Covered(pnDB[peer], devDB, f.v1, {})
  PROVE  PageCovered(PageResponse(pnDB[peer], AsFetchRequest(f)))
<1> DEFINE held == pnDB[peer]
           resp == PageResponse(held, AsFetchRequest(f))
<1>1. /\ resp \in Frame(AllRows)
      /\ resp.rows \subseteq held
      /\ resp.v2 = f.v1 \/ \E r \in resp.rows : resp.v2 = r.seq
      /\ \A r \in held : f.v1 < r.seq /\ r.seq <= resp.v2 => r \in resp.rows
  BY TableFacts, PageFacts DEF FiniteTables
<1>2. \A r \in held : r.seq \in Nat
  BY TableFacts
<1>3. f.v1 \in Nat /\ resp.v2 \in Nat
  BY <1>1 DEF Frame
<1> HIDE DEF resp
<1>4. resp.v2 = 0 \/ \E r \in held : resp.v2 <= r.seq
  BY <1>1, <1>2, <1>3 DEF Covered
<1>5. ASSUME NEW r \in held, r.seq <= resp.v2 PROVE r \in devDB \cup resp.rows
  BY <1>1, <1>2, <1>3, <1>5 DEF Covered
<1> QED
  BY <1>4, <1>5 DEF PageCovered, Covered, resp

LEMMA HandshakeStep == TypeOK /\ Handshake /\ [Next]_vars => Handshake'
<1> SUFFICES ASSUME TypeOK, Handshake, [Next]_vars PROVE Handshake'
  OBVIOUS
<1>0. HangUp => Handshake'
  BY DEF HangUp, Handshake
<1>1. CASE Connect
  <2>1. up' = <<>> /\ down' = <<>> /\ Len(<<>>) = 0
    BY <1>1 DEF Connect, Handshake
  <2> QED
    BY <1>1, <2>1 DEF Connect, Handshake
<1>2. CASE ReadChallenge
  BY <1>0, <1>2 DEF ReadChallenge, GiveUp, Handshake
<1>3. CASE ReadResult
  BY <1>0, <1>3 DEF ReadResult, GiveUp, Handshake
<1>4. CASE SendFetch
  BY <1>4 DEF SendFetch, Handshake
<1>5. CASE ReadResponse
  BY <1>0, <1>5 DEF ReadResponse, Finish, Handshake
<1>6. CASE SaveNext \/ SaveFails \/ RecordProgress
  BY <1>0, <1>6 DEF SaveNext, SaveFails, RecordProgress, Finish, Handshake
<1>7. CASE SendAck
  BY <1>0, <1>7 DEF SendAck, Finish, Handshake
<1>8. CASE StreamEnds \/ Crash
  BY <1>0, <1>8 DEF StreamEnds, Crash, GiveUp, Finish
<1>9. CASE Greet
  <2>1. down = <<>> /\ cpc = "challenge" /\ up = <<>>
    BY <1>9 DEF Greet, Handshake
  <2>2. Len(down') = 1 /\ up' = <<>> /\ cpc' = cpc
    <3>1. \A e : Len(Append(<<>>, e)) = 1
      OBVIOUS
    <3> QED
      BY <1>9, <2>1, <3>1 DEF Greet, client
  <2>3. spc' \in {"verify", "off"}
    BY <1>9 DEF Greet, Return
  <2> QED
    BY <2>1, <2>2, <2>3 DEF Handshake
<1>10. CASE Verify \/ Register \/ Serve \/ Respond
  <2>1. cpc = "idle" => spc = "off"
    BY DEF TypeOK
  <2>2. cpc # "challenge" /\ cpc # "idle"
    BY <1>10, <2>1 DEF Verify, Register, Serve, Respond, Handshake
  <2> QED
    BY <1>10, <2>2
       DEF Verify, Register, Serve, Respond, Return, Handshake, client
<1>11. ASSUME NEW n \in Nodes,
              SetPersonalNode(n) \/ \E r \in Rows[n] : Store(n, r)
       PROVE  Handshake'
  BY <1>11 DEF SetPersonalNode, Store, Handshake, client
<1>12. ASSUME NEW n \in Nodes, NEW r \in unpushed[n], PushNewMessage(n, r)
       PROVE  Handshake'
  <2>1. cpc = "idle" => spc = "off"
    BY DEF TypeOK
  <2> QED
    BY <1>12, <2>1 DEF PushNewMessage, Registered, Handshake, client
<1>13. CASE Reset
  BY <1>13 DEF Reset, Return, Handshake, client
<1>14. CASE UNCHANGED vars
  BY <1>14 DEF vars, Handshake
<1> QED
  BY <1>1, <1>2, <1>3, <1>4, <1>5, <1>6, <1>7, <1>8, <1>9, <1>10, <1>11,
     <1>12, <1>13, <1>14 DEF Next, ClientStep, ServerStep

CoverInv == AcksCovered /\ PagesCovered /\ BatchCovered

LEMMA HangUpCovered == HangUp => CoverInv'
  BY NoFrames DEF HangUp, CoverInv, AcksCovered, PagesCovered, BatchCovered

(* A step with the same peer that stores nothing on it and takes nothing from
   the device keeps what was covered. *)
LEMMA CoverKept ==
  ASSUME UNCHANGED <<peer, pnDB>>, devDB \subseteq devDB', NEW s, NEW E, NEW F,
         Covered(pnDB[peer], devDB, s, E), E \subseteq F
  PROVE  Covered(pnDB'[peer'], devDB', s, F)
  BY CoveredMore

(* The frames in flight when both tables stay as they are: those that were
   there already need no new argument. *)
LEMMA FramesMoved ==
  ASSUME UNCHANGED <<peer, pnDB, devDB>>, CoverInv,
         \A f \in Range(up') : f \in Range(up)
                               \/ Covered(pnDB[peer], devDB, f.v1, {}),
         \A f \in Range(down') : f \in Range(down) \/ PageCovered(f),
         cpc' # "challenge" => cpc # "challenge" \/ down' = <<>>,
         spc' = "write" => PageCovered(out'),
         cpc' = "save" => Covered(pnDB[peer], devDB, reply'.v2, todo'),
         cpc' = "ack" => Covered(pnDB[peer], devDB, reply'.v2, {})
  PROVE  CoverInv'
<1>1. AcksCovered'
  BY DEF CoverInv, AcksCovered
<1>2. PagesCovered'
  BY NoFrames DEF CoverInv, PagesCovered, PageCovered
<1>3. BatchCovered'
  BY DEF BatchCovered
<1> QED
  BY <1>1, <1>2, <1>3 DEF CoverInv

(* The queues after a frame is appended and after one is taken. *)
LEMMA QueueSteps ==
  ASSUME TypeOK
  PROVE  /\ \A e \in Frame(AllRows) :
              /\ Range(Append(up, e)) = Range(up) \cup {e}
              /\ Range(Append(down, e)) = Range(down) \cup {e}
         /\ up # <<>> => /\ Head(up) \in Range(up) /\ Head(up) \in Frame(AllRows)
                         /\ Range(Tail(up)) \subseteq Range(up)
         /\ down # <<>> => /\ Head(down) \in Range(down)
                           /\ Head(down) \in Frame(AllRows)
                           /\ Range(Tail(down)) \subseteq Range(down)
                           /\ Len(Tail(down)) = Len(down) - 1
         /\ Len(down) \in Nat
<1> DEFINE F == Frame(AllRows)
<1>1. up \in Seq(F) /\ down \in Seq(F)
  BY DEF TypeOK
<1>2. NoFrame \in F
  BY FramesWritten
<1> HIDE DEF F
<1>3. \A e \in F : /\ Range(Append(up, e)) = Range(up) \cup {e}
                   /\ Range(Append(down, e)) = Range(down) \cup {e}
  BY <1>1, QueueFacts
<1>4. up # <<>> => /\ Head(up) \in Range(up) /\ Head(up) \in F
                   /\ Range(Tail(up)) \subseteq Range(up)
  BY <1>1, <1>2, QueueFacts
<1>5. down # <<>> => /\ Head(down) \in Range(down) /\ Head(down) \in F
                     /\ Range(Tail(down)) \subseteq Range(down)
                     /\ Len(Tail(down)) = Len(down) - 1
  BY <1>1, <1>2, QueueFacts
<1>6. Len(down) \in Nat
  BY <1>1
<1> QED
  BY <1>3, <1>4, <1>5, <1>6 DEF F

(* Frames that are no acknowledgement and no page cover nothing. *)
LEMMA ZeroFrames ==
  ASSUME TypeOK, peer \in Nodes
  PROVE  /\ \A E : Covered(pnDB[peer], devDB, 0, E)
         /\ AuthResponse(Now).v1 = 0
         /\ FetchRequest(0, PageLimit).v1 = 0
         /\ PageCovered(AuthResult(TRUE)) /\ PageCovered(AuthResult(FALSE))
         /\ \A r : PageCovered(PushEnvelope(r))
<1>1. \A E : Covered(pnDB[peer], devDB, 0, E)
  BY TableFacts, CoveredZero
<1> QED
  BY <1>1 DEF PageCovered, AuthResponse, FetchRequest, AuthResult, PushEnvelope,
              Varints

LEMMA ServerCovered ==
  ASSUME TypeOK, FiniteTables, Handshake, CoverInv, ServerStep
  PROVE  CoverInv'
<1>1. peer \in Nodes /\ cpc # "idle"
  BY DEF ServerStep, Greet, Verify, Register, Serve, Respond, TypeOK
<1>2. UNCHANGED <<peer, pnDB, devDB, cpc, reply, todo>>
  BY DEF ServerStep, Greet, Verify, Register, Serve, Respond, client, tables
<1>3. /\ cpc' # "challenge" => cpc # "challenge" \/ down' = <<>>
      /\ cpc' = "save" => Covered(pnDB[peer], devDB, reply'.v2, todo')
      /\ cpc' = "ack" => Covered(pnDB[peer], devDB, reply'.v2, {})
  BY <1>2 DEF CoverInv, BatchCovered
<1>4. CASE Greet
  <2>1. cpc' = "challenge" /\ up' = up /\ spc' # "write"
    BY <1>2, <1>4 DEF Greet, Return, Handshake, client
  <2> QED
    BY <1>2, <2>1 DEF CoverInv, AcksCovered, PagesCovered, BatchCovered
<1>5. CASE Verify
  <2>1. Range(up') \subseteq Range(up) /\ spc' # "write"
    BY <1>5, QueueSteps DEF Verify, Return
  <2>2. \A f \in Range(down') : f \in Range(down) \/ PageCovered(f)
    BY <1>1, <1>5, QueueSteps, FramesWritten, ZeroFrames DEF Verify
  <2> QED
    BY <1>2, <1>3, <2>1, <2>2, FramesMoved
<1>6. CASE Register
  <2>1. up' = up /\ down' = down /\ spc' # "write"
    BY <1>6 DEF Register
  <2> QED
    BY <1>2, <1>3, <2>1, FramesMoved
<1>7. CASE Serve
  <2>1. Range(up') \subseteq Range(up) /\ down' = down
    BY <1>7, QueueSteps DEF Serve
  <2>2. Head(up) \in Frame(AllRows)
        /\ Covered(pnDB[peer], devDB, Head(up).v1, {})
    BY <1>7, QueueSteps DEF Serve, CoverInv, AcksCovered
  <2>3. spc' = "write" => PageCovered(out')
    BY <1>1, <1>7, <2>2, ResponseCovered DEF Serve, Return
  <2> QED
    BY <1>2, <1>3, <2>1, <2>3, FramesMoved
<1>8. CASE Respond
  <2>1. up' = up /\ spc' # "write" /\ out \in Frame(AllRows)
    BY <1>8 DEF Respond, TypeOK
  <2>2. PageCovered(out)
    BY <1>8 DEF Respond, CoverInv, PagesCovered
  <2>3. Range(down') = Range(down) \cup {out}
    BY <1>8, <2>1, QueueSteps DEF Respond
  <2> QED
    BY <1>2, <1>3, <2>1, <2>2, <2>3, FramesMoved
<1> QED
  BY <1>4, <1>5, <1>6, <1>7, <1>8 DEF ServerStep

LEMMA ClientCovered ==
  ASSUME NumberingAgrees, TypeOK, Handshake, CoverInv, ClientStep
  PROVE  CoverInv'
<1>1. CASE Connect
  <2>1. up' = <<>> /\ down' = <<>> /\ cpc' = "challenge" /\ spc' = "greet"
    BY <1>1 DEF Connect, Handshake
  <2> QED
    BY <2>1, NoFrames DEF CoverInv, AcksCovered, PagesCovered, BatchCovered
<1>2. ASSUME cpc # "idle", UNCHANGED <<peer, pnDB, devDB>>,
             spc' = spc, out' = out,
             cpc' # "challenge" => cpc # "challenge" \/ down' = <<>>,
             \A f \in Range(up') : f \in Range(up)
                                   \/ Covered(pnDB[peer], devDB, f.v1, {}),
             \A f \in Range(down') : f \in Range(down),
             cpc' = "save" => Covered(pnDB[peer], devDB, reply'.v2, todo'),
             cpc' = "ack" => Covered(pnDB[peer], devDB, reply'.v2, {})
      PROVE  CoverInv'
  <2>1. spc' = "write" => PageCovered(out')
    BY <1>2 DEF CoverInv, PagesCovered
  <2> QED
    BY <1>2, <2>1, FramesMoved
<1>3. CASE ReadChallenge
  <2>1. CASE HangUp
    BY <2>1, HangUpCovered
  <2>2. CASE ~HangUp
    <3>1. /\ cpc = "challenge" /\ cpc' = "result" /\ down # <<>>
          /\ down' = Tail(down) /\ up' = Append(up, AuthResponse(Now))
          /\ UNCHANGED <<peer, spc, out, pnDB, devDB>>
      BY <1>3, <2>2 DEF ReadChallenge, GiveUp, tables
    <3>2. down' = <<>>
      <4>1. Len(down) <= 1 /\ Len(down) \in Nat /\ Len(Tail(down)) = Len(down) - 1
        BY <3>1, QueueSteps DEF Handshake
      <4>2. Tail(down) \in Seq(Frame(AllRows))
        BY <3>1, QueueTypes
      <4> QED
        BY <3>1, <4>1, <4>2, QueueFacts, FramesWritten
    <3>3. peer \in Nodes
      BY <3>1 DEF TypeOK
    <3>4. \A f \in Range(up') : f \in Range(up)
                                \/ Covered(pnDB[peer], devDB, f.v1, {})
      BY <3>1, <3>3, QueueSteps, FramesWritten, ZeroFrames
    <3> QED
      BY <1>2, <3>1, <3>2, <3>4, NoFrames
  <2> QED
    BY <2>1, <2>2
<1>4. CASE ReadResult
  <2>1. CASE HangUp
    BY <2>1, HangUpCovered
  <2>2. CASE ~HangUp
    BY <1>2, <1>4, <2>2, QueueSteps DEF ReadResult, GiveUp, tables
  <2> QED
    BY <2>1, <2>2
<1>5. CASE SendFetch
  <2>1. peer \in Nodes
    BY <1>5 DEF SendFetch, TypeOK
  <2>2. \A f \in Range(up') : f \in Range(up)
                              \/ Covered(pnDB[peer], devDB, f.v1, {})
    BY <1>5, <2>1, QueueSteps, FramesWritten, ZeroFrames DEF SendFetch
  <2> QED
    BY <1>2, <1>5, <2>2 DEF SendFetch, tables
<1>6. CASE ReadResponse
  <2>1. CASE HangUp
    BY <2>1, HangUpCovered
  <2>2. CASE ~HangUp
    <3>1. /\ cpc = "response" /\ down # <<>> /\ down' = Tail(down)
          /\ cpc' \in {"save", "fetch"}
          /\ cpc' = "save" => /\ reply' = Head(down)
                              /\ todo' = Head(down).rows
          /\ UNCHANGED <<peer, spc, up, out, pnDB, devDB>>
      BY <1>6, <2>2 DEF ReadResponse, Finish, tables, AsFetchResponse
    <3>2. cpc' = "save" => Covered(pnDB[peer], devDB, reply'.v2, todo')
      BY <3>1, QueueSteps DEF CoverInv, PagesCovered, PageCovered
    <3> QED
      BY <1>2, <3>1, <3>2, QueueSteps
  <2> QED
    BY <2>1, <2>2
<1>7. CASE SaveNext
  <2>1. PICK r \in todo : /\ devDB' = InsertOrIgnore(devDB, r)
                          /\ todo' = todo \ {r}
    BY <1>7 DEF SaveNext
  <2>2. \A x \in devDB : Conflict(x, r) => x = r
    <3>1. r \in AllRows /\ devDB \subseteq AllRows
      BY <2>1 DEF TypeOK
    <3>2. \A x, y \in AllRows : Conflict(x, y) => x = y
      BY DEF NumberingAgrees, AllRows
    <3> QED
      BY <3>1, <3>2
  <2>3. devDB \subseteq devDB' /\ r \in devDB'
    BY <2>1, <2>2 DEF InsertOrIgnore
  <2>4. UNCHANGED <<peer, cpc, spc, up, down, out, reply, pnDB>> /\ cpc = "save"
    BY <1>7 DEF SaveNext
  <2>5. AcksCovered'
    BY <2>3, <2>4, CoverKept DEF CoverInv, AcksCovered
  <2>6. PagesCovered'
    BY <2>3, <2>4, CoverKept DEF CoverInv, PagesCovered, PageCovered
  <2>7. BatchCovered'
    <3>1. Covered(pnDB[peer], devDB, reply.v2, todo)
      BY <2>4 DEF CoverInv, BatchCovered
    <3>2. Covered(pnDB[peer], devDB', reply.v2, todo')
      BY <2>1, <2>3, <3>1, CoveredMore
    <3> QED
      BY <2>4, <3>2 DEF BatchCovered
  <2> QED
    BY <2>5, <2>6, <2>7 DEF CoverInv
<1>8. CASE SaveFails \/ StreamEnds
  BY <1>8, HangUpCovered DEF SaveFails, StreamEnds, GiveUp, Finish
<1>9. CASE RecordProgress
  <2>1. Covered(pnDB[peer], devDB, reply.v2, {})
    BY <1>9 DEF RecordProgress, CoverInv, BatchCovered
  <2> QED
    BY <1>2, <1>9, <2>1 DEF RecordProgress
<1>10. CASE SendAck
  <2>1. CASE HangUp
    BY <2>1, HangUpCovered
  <2>2. CASE ~HangUp
    <3>1. /\ cpc = "ack" /\ cpc' = "fetch"
          /\ up' = Append(up, AckRequest(reply.v2))
          /\ UNCHANGED <<peer, spc, down, out, pnDB, devDB>>
      BY <1>10, <2>2 DEF SendAck, Finish, tables, AsFetchResponse, AckFor
    <3>2. Covered(pnDB[peer], devDB, reply.v2, {})
      BY <3>1 DEF CoverInv, BatchCovered
    <3>3. AckRequest(reply.v2) \in Frame(AllRows)
          /\ AckRequest(reply.v2).v1 = reply.v2
      BY DEF TypeOK, Frame, AckRequest, Varints
    <3>4. \A f \in Range(up') : f \in Range(up)
                                \/ Covered(pnDB[peer], devDB, f.v1, {})
      BY <3>1, <3>2, <3>3, QueueSteps
    <3> QED
      BY <1>2, <3>1, <3>4
  <2> QED
    BY <2>1, <2>2
<1> QED
  BY <1>1, <1>3, <1>4, <1>5, <1>6, <1>7, <1>8, <1>9, <1>10 DEF ClientStep

LEMMA StoreCovered ==
  ASSUME TypeOK, Handshake, CoverInv,
         NEW n \in Nodes, NEW r \in Rows[n], Store(n, r)
  PROVE  CoverInv'
<1>1. /\ UNCHANGED <<peer, cpc, spc, up, down, out, reply, todo, devDB>>
      /\ \A x \in pnDB[n] : x.seq < r.seq
      /\ pnDB' = [pnDB EXCEPT ![n] = InsertOrIgnore(@, r)]
  BY DEF Store, client
<1>2. CASE cpc = "idle"
  <2>1. spc = "off" /\ up = <<>> /\ down = <<>>
    BY <1>2 DEF Handshake, TypeOK
  <2> QED
    BY <1>1, <1>2, <2>1, NoFrames
       DEF CoverInv, AcksCovered, PagesCovered, BatchCovered
<1>3. CASE cpc # "idle"
  <2>1. peer \in Nodes
    BY <1>3 DEF TypeOK
  <2>2. \/ pnDB'[peer] = pnDB[peer]
        \/ peer = n /\ pnDB'[peer] = pnDB[peer] \cup {r}
    <3>1. \/ InsertOrIgnore(pnDB[n], r) = pnDB[n]
          \/ InsertOrIgnore(pnDB[n], r) = pnDB[n] \cup {r}
      BY InsertOrIgnoreCases
    <3>2. pnDB'[peer] = IF peer = n THEN InsertOrIgnore(pnDB[n], r)
                                    ELSE pnDB[peer]
      BY <1>1, <2>1 DEF TypeOK
    <3> QED
      BY <3>1, <3>2
  <2>3. r.seq \in Nat /\ r.seq > 0
        /\ \A x \in pnDB[peer] : x.seq \in Nat
    BY <2>1, RowsAssumption, TableFacts
  <2>4. \A s \in Nat : \A E :
          Covered(pnDB[peer], devDB, s, E) => Covered(pnDB'[peer], devDB, s, E)
    BY <1>1, <2>2, <2>3, CoveredGrows
  <2>5. /\ \A f \in Frame(AllRows) : f.v1 \in Nat /\ f.v2 \in Nat
        /\ \A f \in Range(up) : f \in Frame(AllRows)
        /\ \A f \in Range(down) : f \in Frame(AllRows)
        /\ out \in Frame(AllRows) /\ reply \in Frame(AllRows)
    <3>1. \A S : \A q \in Seq(S) : \A f \in Range(q) : f \in S
      BY DEF Range
    <3>2. \A f \in Frame(AllRows) : f.v1 \in Nat /\ f.v2 \in Nat
      BY DEF Frame
    <3> QED
      BY <3>1, <3>2 DEF TypeOK
  <2>6. AcksCovered'
    BY <1>1, <2>4, <2>5 DEF CoverInv, AcksCovered
  <2>7. PagesCovered'
    BY <1>1, <2>4, <2>5 DEF CoverInv, PagesCovered, PageCovered
  <2>8. BatchCovered'
    BY <1>1, <2>4, <2>5 DEF CoverInv, BatchCovered
  <2> QED
    BY <2>6, <2>7, <2>8 DEF CoverInv
<1> QED
  BY <1>2, <1>3

LEMMA CoverStep ==
  ASSUME NumberingAgrees, TypeOK, FiniteTables, Handshake, CoverInv, [Next]_vars
  PROVE  CoverInv'
<1>1. CASE ClientStep
  BY <1>1, ClientCovered
<1>2. CASE ServerStep
  BY <1>2, ServerCovered
<1>3. ASSUME NEW n \in Nodes, SetPersonalNode(n) PROVE CoverInv'
  BY <1>3 DEF SetPersonalNode, client, tables, CoverInv, AcksCovered,
              PagesCovered, PageCovered, BatchCovered
<1>4. ASSUME NEW n \in Nodes, NEW r \in Rows[n], Store(n, r) PROVE CoverInv'
  BY <1>4, StoreCovered
<1>5. ASSUME NEW n \in Nodes, NEW r \in unpushed[n], PushNewMessage(n, r)
      PROVE  CoverInv'
  <2>1. /\ UNCHANGED <<peer, pnDB, devDB, cpc, spc, up, out, reply, todo>>
        /\ \/ down' = Append(down, PushEnvelope(r)) /\ spc # "off"
           \/ down' = down
    BY <1>5 DEF PushNewMessage, client, Registered
  <2>2. \A f \in Range(down') : f \in Range(down) \/ PageCovered(f)
    <3>1. CASE down' = Append(down, PushEnvelope(r)) /\ spc # "off"
      <4>1. peer \in Nodes /\ r \in AllRows
        BY <3>1 DEF TypeOK
      <4> QED
        BY <3>1, <4>1, FramesWritten, QueueSteps, ZeroFrames
    <3> QED
      BY <2>1, <3>1
  <2>3. spc' = "write" => PageCovered(out')
    BY <2>1 DEF CoverInv, PagesCovered
  <2>4. /\ cpc' = "save" => Covered(pnDB[peer], devDB, reply'.v2, todo')
        /\ cpc' = "ack" => Covered(pnDB[peer], devDB, reply'.v2, {})
    BY <2>1 DEF CoverInv, BatchCovered
  <2> QED
    BY <2>1, <2>2, <2>3, <2>4, FramesMoved
<1>6. CASE Reset
  <2>1. /\ UNCHANGED <<peer, pnDB, devDB, cpc, reply, todo>>
        /\ up' = <<>> /\ down' = <<>> /\ spc' = "off"
    BY <1>6 DEF Reset, Return, client, tables
  <2> QED
    BY <2>1, NoFrames
       DEF CoverInv, AcksCovered, PagesCovered, BatchCovered
<1>7. CASE Crash
  BY <1>7, HangUpCovered DEF Crash
<1>8. CASE UNCHANGED vars
  BY <1>8 DEF vars, CoverInv, AcksCovered, PagesCovered, PageCovered,
              BatchCovered
<1> QED
  BY <1>1, <1>2, <1>3, <1>4, <1>5, <1>6, <1>7, <1>8 DEF Next

LEMMA SafeInit == Init => SafeInv
<1> SUFFICES ASSUME Init PROVE SafeInv
  OBVIOUS
<1>1. TypeOK /\ FiniteTables
  BY TypeInit DEF TypeInv
<1>2. Handshake
  BY DEF Init, Handshake
<1>3. AcksCovered /\ PagesCovered /\ BatchCovered
  BY NoFrames DEF Init, AcksCovered, PagesCovered, BatchCovered
<1> QED
  BY <1>1, <1>2, <1>3 DEF SafeInv

LEMMA SafeStep == NumberingAgrees /\ SafeInv /\ [Next]_vars => SafeInv'
<1> SUFFICES ASSUME NumberingAgrees, SafeInv, [Next]_vars PROVE SafeInv'
  OBVIOUS
<1>1. TypeOK' /\ FiniteTables'
  BY TypeStep DEF SafeInv, TypeInv
<1>2. Handshake'
  BY HandshakeStep DEF SafeInv
<1>3. CoverInv'
  BY CoverStep DEF SafeInv, CoverInv
<1> QED
  BY <1>1, <1>2, <1>3 DEF SafeInv, CoverInv

LEMMA SafeInvHolds ==
  ASSUME NumberingAgrees PROVE Spec => []SafeInv
<1>1. SafeInv /\ [Next]_vars => SafeInv'
  BY SafeStep
<1> QED
  BY <1>1, SafeInit, PTL DEF Spec

(* If the nodes' numbering agrees, an acknowledgement or a read position on
   its way to a node never covers a row of that node which the device has
   not saved, for any number of nodes, rows, pages, pushes and failures. *)
THEOREM AcksAreSafe ==
  ASSUME NumberingAgrees PROVE Spec => []AckedRowsSaved
<1>1. SafeInv => AckedRowsSaved
  BY DEF SafeInv, AcksCovered, BatchCovered, Covered, AckedRowsSaved, SavedUpTo,
         AsFetchRequest, AckFor, AckRequest, AsFetchResponse, Varints
<1> QED
  BY <1>1, SafeInvHolds, PTL
-----------------------------------------------------------------------------
(* Completed cycles. *)

LEMMA QuietStep ==
  ASSUME ~Pushes, TypeOK, Handshake, QuietHandshake, [Next]_vars
  PROVE  QuietHandshake'
<1>0. HangUp /\ UNCHANGED unpushed => QuietHandshake'
  BY DEF HangUp, QuietHandshake, Fetching
<1>a. /\ cpc = "idle" => spc = "off"
      /\ \A n \in Nodes : unpushed[n] = {}
  BY DEF TypeOK, QuietHandshake
<1>d. Len(<<>>) = 0 /\ \A e : Len(Append(<<>>, e)) = 1
  OBVIOUS
<1>b. \A S : \A q \in Seq(S) : q # <<>> /\ Len(q) <= 1 => Tail(q) = <<>>
  OBVIOUS
<1>c. /\ up # <<>> /\ Len(up) <= 1 => Tail(up) = <<>>
      /\ down # <<>> /\ Len(down) <= 1 => Tail(down) = <<>>
  BY <1>b DEF TypeOK
<1>1. CASE Connect
  BY <1>1 DEF Connect, QuietHandshake, Fetching, tables
<1>2. CASE ReadChallenge
  <2>1. CASE HangUp
    BY <1>0, <1>2, <2>1 DEF ReadChallenge, tables
  <2>2. CASE ~HangUp
    <3>1. /\ cpc = "challenge" /\ down # <<>> /\ down' = Tail(down)
          /\ up' = Append(up, AuthResponse(Now)) /\ cpc' = "result"
          /\ spc' = spc /\ unpushed' = unpushed
      BY <1>2, <2>2 DEF ReadChallenge, GiveUp, tables
    <3>2. down' = <<>> /\ Len(up') = 1 /\ spc \in {"verify", "off"}
      BY <3>1, <1>a, <1>d, <1>c DEF Handshake
    <3>3. CASE spc = "verify"
      BY <3>1, <3>2, <3>3, <1>a, <1>d DEF QuietHandshake, Fetching
    <3> QED
      BY <3>1, <3>2, <3>3, <1>a, <1>d DEF QuietHandshake, Fetching
  <2> QED
    BY <2>1, <2>2
<1>3. CASE ReadResult
  BY <1>0, <1>3 DEF ReadResult, GiveUp, QuietHandshake, Fetching, tables
<1>4. CASE SendFetch
  BY <1>4 DEF SendFetch, QuietHandshake, Fetching, tables
<1>5. CASE ReadResponse
  BY <1>0, <1>5 DEF ReadResponse, Finish, QuietHandshake, Fetching, tables
<1>6. CASE SaveNext \/ SaveFails \/ RecordProgress
  BY <1>0, <1>6 DEF SaveNext, SaveFails, RecordProgress, Finish,
                    QuietHandshake, Fetching, tables
<1>7. CASE SendAck
  BY <1>0, <1>7 DEF SendAck, Finish, QuietHandshake, Fetching, tables
<1>8. CASE StreamEnds \/ Crash
  BY <1>0, <1>8 DEF StreamEnds, Crash, GiveUp, Finish, tables
<1>9. CASE Greet
  BY <1>9 DEF Greet, Return, Handshake, QuietHandshake, Fetching, client, tables
<1>10. CASE Verify
  <2>1. cpc = "result" /\ down = <<>> /\ Len(up) <= 1 /\ up # <<>>
    BY <1>10, <1>a, <1>d DEF Verify, Handshake, QuietHandshake, Fetching, TypeOK
  <2>2. cpc' = "result" /\ up' = <<>> /\ Len(down') = 1 /\ unpushed' = unpushed
    BY <1>10, <1>a, <1>d, <1>c, <2>1 DEF Verify, client, tables
  <2>3. spc' \in {"register", "off"}
    BY <1>10 DEF Verify, Return
  <2> QED
    BY <2>2, <2>3, <1>a, <1>d DEF QuietHandshake, Fetching
<1>11. CASE Register
  BY <1>11 DEF Register, QuietHandshake, Fetching, client, tables
<1>12. CASE Serve \/ Respond
  BY <1>12 DEF Serve, Respond, Return, QuietHandshake, Fetching, client, tables
<1>13. ASSUME NEW n \in Nodes,
              SetPersonalNode(n) \/ \E r \in Rows[n] : Store(n, r)
       PROVE  QuietHandshake'
  BY <1>13 DEF SetPersonalNode, Store, QuietHandshake, Fetching, client, tables
<1>14. CASE Reset
  BY <1>14, <1>a, <1>d
     DEF Reset, Return, QuietHandshake, Fetching, client, tables
<1>15. CASE UNCHANGED vars
  BY <1>15 DEF vars, QuietHandshake, Fetching
<1> QED
  BY <1>a, <1>d, <1>1, <1>2, <1>3, <1>4, <1>5, <1>6, <1>7, <1>8, <1>9, <1>10, <1>11,
     <1>12, <1>13, <1>14, <1>15 DEF Next, ClientStep, ServerStep

(* A response without has_more leaves out nothing the node holds. *)
LEMMA ResponseIsLast ==
  ASSUME TypeOK, FiniteTables, peer \in Nodes, NEW f \in Frame(AllRows),
         Covered(pnDB[peer], devDB, f.v1, {}), atStart \subseteq pnDB[peer]
  PROVE  LastPage(PageResponse(pnDB[peer], AsFetchRequest(f)))
<1> DEFINE held == pnDB[peer]
           resp == PageResponse(held, AsFetchRequest(f))
<1>1. resp.v3 = 0 => \A r \in held : f.v1 < r.seq => r \in resp.rows
  BY TableFacts, PageFacts DEF FiniteTables
<1>2. \A r \in held : r.seq \in Nat
  BY TableFacts
<1>3. f.v1 \in Nat
  BY DEF Frame
<1> HIDE DEF resp
<1>4. ASSUME resp.v3 = 0, NEW r \in held PROVE r \in devDB \cup resp.rows
  BY <1>1, <1>2, <1>3, <1>4 DEF Covered
<1> QED
  BY <1>4 DEF LastPage, resp

(* What the steps below establish of the pages in flight. *)
LEMMA LastPagesMoved ==
  ASSUME LastPages, Fetching, devDB \subseteq devDB', UNCHANGED atStart,
         atStart \subseteq pnDB'[peer'],
         \A f \in Range(down') : f \in Range(down) \/ LastPage(f),
         spc' = "write" => LastPage(out'),
         cpc' = "save" /\ reply'.v3 = 0 => atStart \subseteq devDB' \cup todo',
         cpc' = "ack" /\ reply'.v3 = 0 => atStart \subseteq devDB'
  PROVE  LastPages'
<1>1. \A f : LastPage(f) => (atStart' \subseteq devDB' \cup f.rows \/ f.v3 # 0)
  BY DEF LastPage
<1>2. \A f \in Range(down') : atStart' \subseteq devDB' \cup f.rows \/ f.v3 # 0
  BY <1>1 DEF LastPages
<1> QED
  BY <1>1, <1>2 DEF LastPages, LastPage

LEMMA NotFetching == ~Fetching' => LastPages'
  BY DEF Fetching, LastPages

LEMMA LastPagesServer ==
  ASSUME TypeOK, FiniteTables, Handshake, AcksCovered, QuietHandshake,
         LastPages, ServerStep
  PROVE  LastPages'
<1>1. UNCHANGED <<peer, pnDB, devDB, cpc, reply, todo, atStart>>
  BY DEF ServerStep, Greet, Verify, Register, Serve, Respond, client, tables
<1>2. CASE ~Fetching
  BY <1>1, <1>2, NotFetching DEF Fetching
<1>3. CASE Fetching
  <2>1. /\ devDB \subseteq devDB' /\ atStart \subseteq pnDB'[peer']
        /\ cpc' = "save" /\ reply'.v3 = 0 => atStart \subseteq devDB' \cup todo'
        /\ cpc' = "ack" /\ reply'.v3 = 0 => atStart \subseteq devDB'
    BY <1>1, <1>3 DEF LastPages
  <2>2. spc \notin {"greet", "verify"} /\ peer \in Nodes
    BY <1>3 DEF QuietHandshake, Fetching, TypeOK
  <2>3. CASE Register
    <3>1. down' = down /\ spc' # "write"
      BY <2>3 DEF Register
    <3> QED
      BY <1>1, <1>3, <2>1, <3>1, LastPagesMoved
  <2>4. CASE Serve
    <3>1. down' = down /\ Head(up) \in Frame(AllRows)
          /\ Covered(pnDB[peer], devDB, Head(up).v1, {})
      BY <2>4, QueueSteps DEF Serve, AcksCovered
    <3>2. spc' = "write" => LastPage(out')
      BY <1>3, <2>2, <2>4, <3>1, ResponseIsLast DEF Serve, Return, LastPages
    <3> QED
      BY <1>1, <1>3, <2>1, <3>1, <3>2, LastPagesMoved
  <2>5. CASE Respond
    <3>1. LastPage(out) /\ spc' # "write" /\ out \in Frame(AllRows)
      BY <1>3, <2>5 DEF Respond, LastPages, TypeOK
    <3>2. Range(down') = Range(down) \cup {out}
      BY <2>5, <3>1, QueueSteps DEF Respond
    <3> QED
      BY <1>1, <1>3, <2>1, <3>1, <3>2, LastPagesMoved
  <2> QED
    BY <2>2, <2>3, <2>4, <2>5 DEF ServerStep, Greet, Verify
<1> QED
  BY <1>2, <1>3

(* The end of a cycle that reports "completed". *)
LEMMA CompletedOnlyWhenCaughtUp ==
  ASSUME TypeOK, LastPages, CompletedMeansCaughtUp, ClientStep,
         status' = "completed"
  PROVE  atStart' \subseteq devDB'
<1>1. CASE UNCHANGED <<status, atStart>> /\ devDB \subseteq devDB'
  BY <1>1 DEF CompletedMeansCaughtUp
<1>2. CASE ReadResponse /\ Finish("completed", err)
  <2>1. /\ UNCHANGED <<atStart, devDB>> /\ cpc = "response" /\ down # <<>>
        /\ Head(down).rows = {} /\ Head(down).v3 = 0
    <3>1. ~AsFetchResponse(Head(down)).hasMore
          /\ AsFetchResponse(Head(down)).messages = {}
      BY <1>2 DEF ReadResponse, Finish, HangUp
    <3> QED
      BY <1>2, <3>1 DEF ReadResponse, Finish, AsFetchResponse, tables
  <2>2. LastPage(Head(down))
    BY <2>1, QueueSteps DEF LastPages, Fetching
  <2> QED
    BY <2>1, <2>2 DEF LastPage
<1>3. CASE SendAck /\ Finish("completed", err)
  <2>1. UNCHANGED <<atStart, devDB>> /\ cpc = "ack" /\ reply.v3 = 0
    <3>1. ~AsFetchResponse(reply).hasMore
      BY <1>3 DEF SendAck, Finish, HangUp
    <3> QED
      BY <1>3, <3>1 DEF SendAck, Finish, AsFetchResponse, tables
  <2> QED
    BY <2>1 DEF LastPages
<1>4. CASE Connect \/ ReadChallenge \/ SendFetch
  BY <1>1, <1>4 DEF Connect, ReadChallenge, SendFetch, GiveUp, tables
<1>5. CASE ReadResult
  BY <1>1, <1>5 DEF ReadResult, GiveUp, tables
<1>6. CASE ReadResponse /\ ~Finish("completed", err)
  BY <1>1, <1>6 DEF ReadResponse, tables
<1>7. CASE SaveNext
  BY <1>1, <1>7 DEF SaveNext, InsertOrIgnore
<1>8. CASE SaveFails
  BY <1>8 DEF SaveFails, Finish
<1>9. CASE RecordProgress
  BY <1>1, <1>9 DEF RecordProgress
<1>10. CASE SendAck /\ ~Finish("completed", err)
  BY <1>1, <1>10 DEF SendAck, tables
<1>11. CASE StreamEnds
  BY <1>1, <1>11 DEF StreamEnds, GiveUp, Finish, tables
<1> QED
  BY <1>2, <1>3, <1>4, <1>5, <1>6, <1>7, <1>8, <1>9, <1>10, <1>11
     DEF ClientStep

LEMMA LastPagesClient ==
  ASSUME NumberingAgrees, TypeOK, Handshake, QuietHandshake, LastPages,
         ClientStep
  PROVE  LastPages'
<1>0. HangUp => LastPages'
  BY NotFetching DEF HangUp, Fetching
<1>1. CASE Connect \/ ReadChallenge
  BY <1>0, <1>1, NotFetching DEF Connect, ReadChallenge, GiveUp, Fetching
<1>2. CASE SaveFails \/ StreamEnds
  BY <1>0, <1>2 DEF SaveFails, StreamEnds, GiveUp, Finish
<1>3. CASE ReadResult
  <2>1. CASE ~HangUp
    <3>1. /\ cpc = "result" /\ cpc' = "fetch" /\ down # <<>>
          /\ down' = Tail(down) /\ atStart' = pnDB[peer]
          /\ UNCHANGED <<peer, spc, pnDB>>
      BY <1>3, <2>1 DEF ReadResult, GiveUp, tables
    <3>2. spc # "write" /\ Len(down) <= 1
      BY <3>1 DEF QuietHandshake
    <3>3. down' = <<>>
      <4>1. down \in Seq(Frame(AllRows))
        BY DEF TypeOK
      <4>2. \A S : \A q \in Seq(S) : q # <<>> /\ Len(q) <= 1 => Tail(q) = <<>>
        OBVIOUS
      <4> QED
        BY <3>1, <3>2, <4>1, <4>2
    <3> QED
      BY <3>1, <3>2, <3>3, NoFrames DEF LastPages
  <2> QED
    BY <1>0, <2>1
<1>4. ASSUME Fetching, devDB \subseteq devDB',
             UNCHANGED <<peer, spc, out, pnDB, atStart>>,
             \A f \in Range(down') : f \in Range(down),
             cpc' = "save" /\ reply'.v3 = 0 => atStart \subseteq devDB' \cup todo',
             cpc' = "ack" /\ reply'.v3 = 0 => atStart \subseteq devDB'
      PROVE  LastPages'
  <2>1. atStart \subseteq pnDB'[peer'] /\ (spc' = "write" => LastPage(out'))
    BY <1>4 DEF LastPages
  <2> QED
    BY <1>4, <2>1, LastPagesMoved
<1>5. CASE SendFetch
  BY <1>4, <1>5 DEF SendFetch, tables, Fetching
<1>6. CASE ReadResponse
  <2>1. CASE ~HangUp
    <3>1. /\ cpc = "response" /\ down # <<>> /\ down' = Tail(down)
          /\ cpc' \in {"save", "fetch"}
          /\ cpc' = "save" => /\ reply' = Head(down)
                              /\ todo' = Head(down).rows
          /\ UNCHANGED <<peer, spc, out, pnDB, devDB, atStart>>
      BY <1>6, <2>1 DEF ReadResponse, Finish, tables, AsFetchResponse
    <3>2. LastPage(Head(down))
      BY <3>1, QueueSteps DEF LastPages, Fetching
    <3>3. Fetching
      BY <3>1 DEF Fetching
    <3> QED
      BY <1>4, <3>1, <3>2, <3>3, QueueSteps DEF LastPage
  <2> QED
    BY <1>0, <2>1
<1>7. CASE SaveNext
  <2>1. PICK r \in todo : /\ devDB' = InsertOrIgnore(devDB, r)
                          /\ todo' = todo \ {r}
    BY <1>7 DEF SaveNext
  <2>2. /\ cpc = "save" /\ down' = down
        /\ UNCHANGED <<peer, cpc, spc, out, pnDB, atStart, reply>>
    BY <1>7 DEF SaveNext
  <2>3. \/ devDB' = devDB \cup {r}
        \/ devDB' = devDB /\ \E x \in devDB : Conflict(x, r)
    BY <2>1, InsertOrIgnoreCases
  <2>4. r \in devDB'
    <3>1. r \in AllRows /\ devDB \subseteq AllRows
      BY <2>1 DEF TypeOK
    <3>2. \A x, y \in AllRows : Conflict(x, y) => x = y
      BY DEF NumberingAgrees, AllRows
    <3> QED
      BY <2>3, <3>1, <3>2
  <2>5. reply'.v3 = 0 => atStart \subseteq devDB' \cup todo'
    BY <2>1, <2>2, <2>3, <2>4 DEF LastPages
  <2> QED
    BY <1>4, <2>2, <2>3, <2>5 DEF Fetching
<1>8. CASE RecordProgress
  BY <1>4, <1>8 DEF RecordProgress, Fetching, LastPages
<1>9. CASE SendAck
  BY <1>0, <1>4, <1>9 DEF SendAck, Finish, tables, Fetching
<1> QED
  BY <1>1, <1>2, <1>3, <1>5, <1>6, <1>7, <1>8, <1>9 DEF ClientStep

LEMMA PullStep ==
  ASSUME NumberingAgrees, ~Pushes, PullInv, [Next]_vars
  PROVE  PullInv'
<1>1. SafeInv'
  BY SafeStep DEF PullInv
<1>2. QuietHandshake'
  BY QuietStep DEF PullInv, SafeInv
<1>3. LastPages' /\ CompletedMeansCaughtUp'
  <2>1. CASE ClientStep
    BY <2>1, LastPagesClient, CompletedOnlyWhenCaughtUp
       DEF PullInv, SafeInv, CompletedMeansCaughtUp
  <2>2. CASE ServerStep
    <3>1. UNCHANGED <<status, atStart, devDB>>
      BY <2>2 DEF ServerStep, Greet, Verify, Register, Serve, Respond, client,
                  tables
    <3>2. CompletedMeansCaughtUp'
      BY <3>1 DEF PullInv, CompletedMeansCaughtUp
    <3>3. LastPages'
      BY <2>2, LastPagesServer DEF PullInv, SafeInv
    <3> QED
      BY <3>2, <3>3
  <2>3. ASSUME NEW n \in Nodes, SetPersonalNode(n)
        PROVE  LastPages' /\ CompletedMeansCaughtUp'
    BY <2>3 DEF SetPersonalNode, client, tables, PullInv, LastPages, LastPage,
                Fetching, CompletedMeansCaughtUp
  <2>4. ASSUME NEW n \in Nodes, NEW r \in Rows[n], Store(n, r)
        PROVE  LastPages' /\ CompletedMeansCaughtUp'
    <3>1. UNCHANGED <<peer, cpc, spc, down, out, reply, todo, devDB, status,
                      atStart>>
          /\ pnDB' = [pnDB EXCEPT ![n] = InsertOrIgnore(@, r)]
      BY <2>4 DEF Store, client
    <3>2. CASE ~Fetching
      BY <3>1, <3>2, NotFetching
         DEF Fetching, PullInv, CompletedMeansCaughtUp
    <3>3. CASE Fetching
      <4>1. peer \in Nodes
        BY <3>3 DEF Fetching, PullInv, SafeInv, TypeOK
      <4>2. pnDB[peer] \subseteq pnDB'[peer]
        <5>1. pnDB'[peer] = IF peer = n THEN InsertOrIgnore(pnDB[n], r)
                                        ELSE pnDB[peer]
          BY <3>1, <4>1 DEF PullInv, SafeInv, TypeOK
        <5> QED
          BY <5>1 DEF InsertOrIgnore
      <4> QED
        BY <3>1, <3>3, <4>2
           DEF PullInv, LastPages, LastPage, Fetching, CompletedMeansCaughtUp
    <3> QED
      BY <3>2, <3>3
  <2>5. ASSUME NEW n \in Nodes, NEW r \in unpushed[n] PROVE FALSE
    BY <2>5 DEF PullInv, QuietHandshake
  <2>6. CASE Reset
    <3>1. UNCHANGED <<peer, cpc, reply, todo, pnDB, devDB, status, atStart>>
          /\ down' = <<>> /\ spc' = "off"
      BY <2>6 DEF Reset, Return, client, tables
    <3> QED
      BY <3>1, NoFrames
         DEF PullInv, LastPages, LastPage, Fetching, CompletedMeansCaughtUp
  <2>7. CASE Crash
    BY <2>7, NotFetching DEF Crash, HangUp, Fetching, CompletedMeansCaughtUp
  <2>8. CASE UNCHANGED vars
    BY <2>8 DEF vars, PullInv, LastPages, LastPage, Fetching,
                CompletedMeansCaughtUp
  <2> QED
    BY <2>1, <2>2, <2>3, <2>4, <2>5, <2>6, <2>7, <2>8 DEF Next
<1> QED
  BY <1>1, <1>2, <1>3 DEF PullInv

LEMMA PullInit == Init => PullInv
<1> SUFFICES ASSUME Init PROVE PullInv
  OBVIOUS
<1>1. SafeInv
  BY SafeInit
<1>2. QuietHandshake /\ LastPages /\ CompletedMeansCaughtUp
  BY DEF Init, QuietHandshake, LastPages, Fetching, CompletedMeansCaughtUp
<1> QED
  BY <1>1, <1>2 DEF PullInv

(* If the nodes' numbering agrees and nothing is pushed, a cycle that
   published "completed" has saved every row its node held when it published
   "started", although the device reads the answers to its acknowledgements
   as pages and never asks for anything but the first page. *)
THEOREM CompletedIsCaughtUp ==
  ASSUME NumberingAgrees, ~Pushes
  PROVE  Spec => []CompletedMeansCaughtUp
<1>1. PullInv /\ [Next]_vars => PullInv'
  BY PullStep
<1>2. PullInv => CompletedMeansCaughtUp
  BY DEF PullInv
<1> QED
  BY <1>1, <1>2, PullInit, PTL DEF Spec
-----------------------------------------------------------------------------
(* Rows come from the nodes. *)

LEMMA TablesGrow ==
  TypeOK /\ [Next]_vars => \A n \in Nodes : pnDB[n] \subseteq pnDB'[n]
<1> SUFFICES ASSUME TypeOK, [Next]_vars, NEW m \in Nodes
             PROVE  pnDB[m] \subseteq pnDB'[m]
  OBVIOUS
<1>1. ASSUME NEW n \in Nodes, NEW r \in Rows[n], Store(n, r)
      PROVE  pnDB[m] \subseteq pnDB'[m]
  BY <1>1 DEF Store, InsertOrIgnore, TypeOK
<1> QED
  BY <1>1, TableChange

(* The frames that are no page bring no rows. *)
LEMMA NoRows ==
  /\ NoFrame.rows = {} /\ AuthResult(TRUE).rows = {}
  /\ AuthResult(FALSE).rows = {} /\ AuthChallenge(ExpiresAt).rows = {}
  BY DEF NoFrame, AuthResult, AuthChallenge, Varints

LEMMA HangUpFromPeer == HangUp => FromPeer'
  BY NoFrames, NoRows DEF HangUp, FromPeer, PeerHolds

(* A step within a stream: what is new in it comes from the peer's table as
   it was before the step. *)
LEMMA FromPeerMoved ==
  ASSUME TypeOK, [Next]_vars, FromPeer, UNCHANGED peer,
         \A f \in Range(down') : f \in Range(down) \/ PeerHolds(f.rows),
         PeerHolds(out'.rows), PeerHolds(reply'.rows), PeerHolds(todo')
  PROVE  FromPeer'
<1>1. \A R : PeerHolds(R) => R = {} \/ (peer' \in Nodes /\ R \subseteq pnDB'[peer'])
  BY TablesGrow DEF PeerHolds
<1>2. \A f \in Range(down') :
        f.rows = {} \/ (peer' \in Nodes /\ f.rows \subseteq pnDB'[peer'])
  BY <1>1 DEF FromPeer
<1> QED
  BY <1>1, <1>2 DEF FromPeer, PeerHolds

LEMMA ClientFromPeer ==
  ASSUME TypeOK, FromPeer, ClientStep
  PROVE  FromPeer'
<1>a. [Next]_vars
  BY DEF Next
<1>b. PeerHolds(out.rows) /\ PeerHolds(reply.rows) /\ PeerHolds(todo)
  BY DEF FromPeer
<1>1. CASE Connect
  <2>1. peer \notin Nodes
    BY <1>1 DEF Connect, TypeOK
  <2> QED
    BY <1>1, <2>1 DEF Connect, FromPeer, PeerHolds, tables
<1>2. CASE HangUp
  BY <1>2, HangUpFromPeer
<1>3. CASE ~HangUp /\ (ReadChallenge \/ ReadResult \/ SendFetch \/ SendAck)
  <2>1. /\ UNCHANGED <<peer, out, reply, todo>>
        /\ down' = down \/ (down # <<>> /\ down' = Tail(down))
    BY <1>3 DEF ReadChallenge, ReadResult, SendFetch, SendAck, GiveUp, Finish
  <2>2. \A f \in Range(down') : f \in Range(down)
    BY <2>1, QueueSteps
  <2> QED
    BY <1>a, <1>b, <2>1, <2>2, FromPeerMoved
<1>4. CASE ~HangUp /\ ReadResponse
  <2>1. /\ UNCHANGED <<peer, out>> /\ down # <<>> /\ down' = Tail(down)
        /\ \/ reply' = Head(down) /\ todo' = Head(down).rows
           \/ UNCHANGED <<reply, todo>>
    BY <1>4 DEF ReadResponse, Finish, AsFetchResponse
  <2>2. \A f \in Range(down') : f \in Range(down)
    BY <2>1, QueueSteps
  <2>3. PeerHolds(Head(down).rows)
    BY <2>1, QueueSteps DEF FromPeer
  <2> QED
    BY <1>a, <1>b, <2>1, <2>2, <2>3, FromPeerMoved
<1>5. CASE SaveNext \/ RecordProgress
  <2>1. UNCHANGED <<peer, down, out, reply>> /\ todo' \subseteq todo
    BY <1>5 DEF SaveNext, RecordProgress
  <2>2. PeerHolds(todo')
    BY <1>b, <2>1 DEF PeerHolds
  <2> QED
    BY <1>a, <1>b, <2>1, <2>2, FromPeerMoved
<1>6. CASE SaveFails \/ StreamEnds
  BY <1>6, HangUpFromPeer DEF SaveFails, StreamEnds, GiveUp, Finish
<1> QED
  BY <1>1, <1>2, <1>3, <1>4, <1>5, <1>6 DEF ClientStep

LEMMA ServerFromPeer ==
  ASSUME TypeOK, FiniteTables, FromPeer, ServerStep
  PROVE  FromPeer'
<1>a. [Next]_vars
  BY DEF Next
<1>b. /\ PeerHolds(out.rows) /\ PeerHolds(reply.rows) /\ PeerHolds(todo)
      /\ PeerHolds({}) /\ PeerHolds(NoFrame.rows)
  BY NoRows DEF FromPeer, PeerHolds
<1>c. UNCHANGED <<peer, reply, todo>>
  BY DEF ServerStep, Greet, Verify, Register, Serve, Respond, client
<1>1. CASE Greet \/ Verify
  <2>1. /\ out' \in {out, NoFrame}
        /\ \E e \in {AuthChallenge(ExpiresAt), AuthResult(TRUE), AuthResult(FALSE)} :
             down' = Append(down, e)
    BY <1>1 DEF Greet, Verify, Return
  <2>2. \A f \in Range(down') : f \in Range(down) \/ PeerHolds(f.rows)
    BY <1>b, <2>1, QueueSteps, FramesWritten, NoRows
  <2> QED
    BY <1>a, <1>b, <1>c, <2>1, <2>2, FromPeerMoved
<1>2. CASE Register
  BY <1>a, <1>b, <1>c, <1>2, FromPeerMoved DEF Register
<1>3. CASE Serve
  <2>1. peer \in Nodes /\ Head(up) \in Frame(AllRows)
    BY <1>3, QueueSteps DEF Serve, TypeOK
  <2>2. PageResponse(pnDB[peer], AsFetchRequest(Head(up))).rows \subseteq pnDB[peer]
    BY <2>1, TableFacts, PageFacts DEF FiniteTables
  <2>3. PeerHolds(out'.rows) /\ down' = down
    BY <1>3, <1>b, <2>1, <2>2 DEF Serve, Return, PeerHolds
  <2> QED
    BY <1>a, <1>b, <1>c, <2>3, FromPeerMoved
<1>4. CASE Respond
  <2>1. out \in Frame(AllRows) /\ down' = Append(down, out) /\ out' = NoFrame
    BY <1>4 DEF Respond, TypeOK
  <2>2. Range(down') = Range(down) \cup {out}
    BY <2>1, QueueSteps
  <2> QED
    BY <1>a, <1>b, <1>c, <2>1, <2>2, FromPeerMoved
<1> QED
  BY <1>1, <1>2, <1>3, <1>4 DEF ServerStep

LEMMA FromPeerStep ==
  ASSUME TypeOK, FiniteTables, FromPeer, [Next]_vars
  PROVE  FromPeer'
<1>b. PeerHolds(out.rows) /\ PeerHolds(reply.rows) /\ PeerHolds(todo)
  BY DEF FromPeer
<1>1. CASE ClientStep \/ ServerStep
  BY <1>1, ClientFromPeer, ServerFromPeer
<1>2. ASSUME NEW n \in Nodes,
             SetPersonalNode(n) \/ \E r \in Rows[n] : Store(n, r)
      PROVE  FromPeer'
  BY <1>b, <1>2, FromPeerMoved DEF SetPersonalNode, Store, client
<1>3. ASSUME NEW n \in Nodes, NEW r \in unpushed[n], PushNewMessage(n, r)
      PROVE  FromPeer'
  <2>1. /\ UNCHANGED <<peer, out, reply, todo>>
        /\ \/ down' = down
           \/ down' = Append(down, PushEnvelope(r)) /\ peer = n
    BY <1>3 DEF PushNewMessage, client
  <2>2. r \in AllRows /\ r \in pnDB[n] /\ PushEnvelope(r).rows = {r}
    BY DEF TypeOK, PushEnvelope
  <2>3. \A f \in Range(down') : f \in Range(down) \/ PeerHolds(f.rows)
    <3>1. PushEnvelope(r) \in Frame(AllRows)
      BY <2>2, FramesWritten
    <3>2. peer = n => PeerHolds(PushEnvelope(r).rows)
      BY <2>2 DEF PeerHolds
    <3> QED
      BY <2>1, <3>1, <3>2, QueueSteps
  <2> QED
    BY <1>b, <2>1, <2>3, FromPeerMoved
<1>4. CASE Reset
  <2>1. UNCHANGED <<peer, reply, todo>> /\ down' = <<>> /\ out' = NoFrame
    BY <1>4 DEF Reset, Return, client
  <2> QED
    BY <1>b, <2>1, NoFrames, NoRows, FromPeerMoved DEF PeerHolds
<1>5. CASE Crash
  BY <1>5, HangUpFromPeer DEF Crash
<1>6. CASE UNCHANGED vars
  BY <1>6 DEF vars, FromPeer, PeerHolds
<1> QED
  BY <1>1, <1>2, <1>3, <1>4, <1>5, <1>6 DEF Next

(* Only saveBatch changes the device's table, by one row of its batch. *)
LEMMA CopyChange ==
  [Next]_vars => \/ UNCHANGED devDB
                 \/ SaveNext
  BY DEF Next, vars, tables, ClientStep, ServerStep, Connect, ReadChallenge,
         ReadResult, SendFetch, ReadResponse, SaveFails, RecordProgress,
         SendAck, StreamEnds, Greet, Verify, Register, Serve, Respond,
         SetPersonalNode, Store, PushNewMessage, Reset, Crash

LEMMA OnlyHeldStep ==
  ASSUME TypeOK, FromPeer, OnlyHeldRows, [Next]_vars
  PROVE  OnlyHeldRows'
<1>1. Held \subseteq Held'
  BY TablesGrow DEF Held
<1>2. CASE UNCHANGED devDB
  BY <1>1, <1>2 DEF OnlyHeldRows
<1>3. CASE SaveNext
  <2>1. PICK r \in todo : devDB' = InsertOrIgnore(devDB, r)
    BY <1>3 DEF SaveNext
  <2>2. r \in Held
    BY <2>1 DEF FromPeer, PeerHolds, Held
  <2>3. CASE devDB' = devDB
    BY <1>1, <2>3 DEF OnlyHeldRows
  <2>4. CASE devDB' = devDB \cup {r} /\ ~ \E x \in devDB : Conflict(x, r)
    <3>1. /\ \A x \in devDB : x.seq \in Nat
          /\ r.seq \in Nat /\ r.seq > 0
      <4>1. r \in AllRows /\ devDB \subseteq AllRows
        BY <2>1 DEF TypeOK
      <4>2. \A x \in AllRows : x.seq \in Nat /\ x.seq > 0
        BY SeqNumbers
      <4> QED
        BY <4>1, <4>2
    <3>2. \A x \in devDB : ~Conflict(x, r) /\ ~Conflict(r, x)
      BY <2>4, <3>1 DEF Conflict
    <3> QED
      BY <1>1, <2>2, <2>4, <3>2 DEF OnlyHeldRows
  <2> QED
    BY <2>1, <2>3, <2>4 DEF InsertOrIgnore
<1> QED
  BY <1>2, <1>3, CopyChange

LEMMA CopyInit == Init => CopyInv
<1> SUFFICES ASSUME Init PROVE CopyInv
  OBVIOUS
<1>1. TypeOK /\ FiniteTables
  BY TypeInit DEF TypeInv
<1>2. FromPeer
  BY NoFrames, NoRows DEF Init, FromPeer, PeerHolds
<1>3. OnlyHeldRows
  BY DEF Init, OnlyHeldRows
<1> QED
  BY <1>1, <1>2, <1>3 DEF CopyInv

LEMMA CopyStep == CopyInv /\ [Next]_vars => CopyInv'
  BY TypeStep, FromPeerStep, OnlyHeldStep DEF CopyInv, TypeInv

(* Whatever is pushed, read as something else, cut off or numbered
   differently by different nodes: every row in a frame, or in the batch the
   device is saving, is one that the node of the stream holds; and the
   device's table has rows of its nodes only, and none with the id or the
   sequence number of another (the PRIMARY KEY and UNIQUE constraints behind
   INSERT OR IGNORE). *)
THEOREM OnlyHeldRowsArrive == Spec => [](FromPeer /\ OnlyHeldRows)
<1>1. CopyInv => FromPeer /\ OnlyHeldRows
  BY DEF CopyInv
<1> QED
  BY <1>1, CopyInit, CopyStep, PTL DEF Spec
-----------------------------------------------------------------------------
(* The promise of a sync cycle. *)

LEMMA StartedStep ==
  FetchingIsStarted /\ [Next]_vars => FetchingIsStarted'
<1> SUFFICES ASSUME FetchingIsStarted, [Next]_vars PROVE FetchingIsStarted'
  OBVIOUS
<1> USE DEF FetchingIsStarted, Fetching
<1>1. CASE HangUp
  BY <1>1 DEF HangUp
<1>2. CASE ClientStep /\ ~HangUp
  BY <1>2 DEF ClientStep, Connect, ReadChallenge, ReadResult, SendFetch,
              ReadResponse, SaveNext, SaveFails, RecordProgress, SendAck,
              StreamEnds, GiveUp, Finish
<1>3. CASE ServerStep \/ Reset
  BY <1>3 DEF ServerStep, Greet, Verify, Register, Serve, Respond, Reset, client
<1>4. ASSUME NEW n \in Nodes,
             \/ SetPersonalNode(n)
             \/ \E r \in Rows[n] : Store(n, r)
             \/ \E r \in unpushed[n] : PushNewMessage(n, r)
      PROVE  FetchingIsStarted'
  BY <1>4 DEF SetPersonalNode, Store, PushNewMessage, client
<1>5. CASE UNCHANGED vars
  BY <1>5 DEF vars
<1> QED
  BY <1>1, <1>2, <1>3, <1>4, <1>5 DEF Next, Crash

LEMMA PromiseInit == Init => Promise!Init
  BY DEF Init, Promise!Init

(* A step of the device keeps the promise: a cycle begins, a row is copied,
   or the cycle ends one way or the other. *)
LEMMA PromiseClient ==
  ASSUME PullInv, FromPeer, FetchingIsStarted, ClientStep
  PROVE  [Promise!Next]_(Promise!vars)
<1> USE DEF Promise!vars
<1>0. TypeOK
  BY DEF PullInv, SafeInv
<1>1. CASE UNCHANGED <<pnDB, devDB, atStart, status>>
  BY <1>1
<1>2. CASE SaveNext
  <2>1. PICK r \in todo : devDB' = InsertOrIgnore(devDB, r)
    BY <1>2 DEF SaveNext
  <2>2. r \in Promise!Held
    BY <2>1 DEF FromPeer, PeerHolds, Promise!Held
  <2>3. UNCHANGED <<pnDB, atStart, status>>
    BY <1>2 DEF SaveNext
  <2>4. CASE devDB' = devDB \cup {r}
    BY <2>2, <2>3, <2>4 DEF Promise!Next, Promise!Copy
  <2> QED
    BY <1>1, <2>1, <2>3, <2>4, InsertOrIgnoreCases
<1>3. CASE ReadResult /\ ~HangUp
  <2>1. /\ status' = "started" /\ atStart' = pnDB[peer]
        /\ UNCHANGED <<pnDB, devDB>> /\ peer \in Nodes
    BY <1>0, <1>3 DEF ReadResult, GiveUp, TypeOK, tables
  <2> QED
    BY <2>1 DEF Promise!Next, Promise!Begin
<1>4. CASE Fetching /\ status' = "completed" /\ UNCHANGED <<pnDB, devDB, atStart>>
  <2>1. atStart' \subseteq devDB'
    BY <1>4, CompletedOnlyWhenCaughtUp DEF PullInv, SafeInv
  <2>2. status = "started"
    BY <1>4 DEF FetchingIsStarted
  <2> QED
    BY <1>4, <2>1, <2>2 DEF Promise!Next, Promise!Complete
<1>5. CASE Fetching /\ status' = "failed" /\ UNCHANGED <<pnDB, devDB, atStart>>
  BY <1>5 DEF FetchingIsStarted, Promise!Next, Promise!Fail
<1>6. CASE Connect \/ ReadChallenge \/ SendFetch \/ RecordProgress
  BY <1>1, <1>6 DEF Connect, ReadChallenge, SendFetch, RecordProgress, GiveUp,
                    tables
<1>7. CASE ReadResult /\ HangUp
  BY <1>1, <1>7 DEF ReadResult, GiveUp, HangUp, tables
<1>8. CASE ReadResponse \/ SendAck
  BY <1>1, <1>4, <1>8 DEF ReadResponse, SendAck, Finish, Fetching, tables
<1>9. CASE SaveFails
  BY <1>5, <1>9 DEF SaveFails, Finish, Fetching, tables
<1>10. CASE StreamEnds
  BY <1>1, <1>5, <1>10 DEF StreamEnds, GiveUp, Finish, Fetching, tables
<1> QED
  BY <1>2, <1>3, <1>6, <1>7, <1>8, <1>9, <1>10 DEF ClientStep

LEMMA PromiseStep ==
  ASSUME PullInv, FromPeer, FetchingIsStarted, [Next]_vars
  PROVE  [Promise!Next]_(Promise!vars)
<1> USE DEF Promise!vars
<1>1. CASE ClientStep
  BY <1>1, PromiseClient
<1>2. CASE UNCHANGED <<pnDB, devDB, atStart, status>>
  BY <1>2
<1>3. ASSUME NEW n \in Nodes, NEW r \in Rows[n], Store(n, r)
      PROVE  [Promise!Next]_(Promise!vars)
  <2>1. /\ pnDB' = [pnDB EXCEPT ![n] = InsertOrIgnore(@, r)]
        /\ UNCHANGED <<devDB, atStart, status>>
    BY <1>3 DEF Store, client
  <2>2. CASE InsertOrIgnore(pnDB[n], r) = pnDB[n]
    <3>1. pnDB' = pnDB
      BY <2>1, <2>2 DEF PullInv, SafeInv, TypeOK
    <3> QED
      BY <1>2, <2>1, <3>1
  <2>3. CASE InsertOrIgnore(pnDB[n], r) = pnDB[n] \cup {r}
    <3>1. Promise!Grow(n)
      BY <2>1, <2>3 DEF Promise!Grow
    <3> QED
      BY <3>1 DEF Promise!Next
  <2> QED
    BY <2>2, <2>3, InsertOrIgnoreCases
<1>4. CASE Crash
  BY <1>4 DEF Crash, tables, Promise!Next, Promise!Restart
<1>5. CASE ServerStep \/ Reset
  BY <1>2, <1>5 DEF ServerStep, Greet, Verify, Register, Serve, Respond, Reset,
                    client, tables
<1>6. ASSUME NEW n \in Nodes,
             SetPersonalNode(n) \/ \E r \in unpushed[n] : PushNewMessage(n, r)
      PROVE  [Promise!Next]_(Promise!vars)
  BY <1>2, <1>6 DEF SetPersonalNode, PushNewMessage, client, tables
<1>7. CASE UNCHANGED vars
  BY <1>2, <1>7 DEF vars
<1> QED
  BY <1>1, <1>3, <1>4, <1>5, <1>6, <1>7 DEF Next

(* If the nodes' numbering agrees and nothing is pushed, the device, its
   nodes and the stream between them implement SyncPromise: every step of
   theirs grows a node's table, begins a cycle, copies a held row, completes
   a cycle that has copied its goal, fails one, restarts, or is hidden. *)
THEOREM CyclesKeepPromise ==
  ASSUME NumberingAgrees, ~Pushes
  PROVE  Spec => PromiseKept
<1> DEFINE Inv == PullInv /\ FromPeer /\ FetchingIsStarted
<1>1. Init => Inv
  BY PullInit, CopyInit DEF Init, CopyInv, FetchingIsStarted, Fetching
<1>2. Inv /\ [Next]_vars => Inv'
  BY PullStep, FromPeerStep, StartedStep DEF PullInv, SafeInv
<1>3. Inv /\ [Next]_vars => [Promise!Next]_(Promise!vars)
  BY PromiseStep
<1> HIDE DEF Inv
<1> QED
  BY <1>1, <1>2, <1>3, PromiseInit, PTL DEF Spec, PromiseKept, Promise!Spec
-----------------------------------------------------------------------------
(* The recorded progress. *)

(* A response's max_seq is no less than the sequence of any of its rows. *)
LEMMA ResponseIsHonest ==
  ASSUME TypeOK, FiniteTables, peer \in Nodes, NEW f \in Frame(AllRows)
  PROVE  Honest(PageResponse(pnDB[peer], AsFetchRequest(f)))
<1> DEFINE req == AsFetchRequest(f)
           P == Page(pnDB[peer], req)
<1>1. f.v1 \in Nat /\ req.afterSeq = f.v1
  BY DEF Frame, AsFetchRequest
<1>2. P \subseteq pnDB[peer]
  BY DEF Page, GetSince, After
<1>3. MaxGlobalSeq \in Nat /\ \A r \in P : r.seq \in 0..MaxGlobalSeq
  BY <1>2, TableFacts
<1> HIDE DEF P, req
<1>4. \A r \in P : r.seq <= MaxSeq(f.v1, P)
  <2>1. MaxSeq(f.v1, P) \in Nat /\ \A r \in P : MaxSeq(f.v1, P) >= r.seq
    BY <1>1, <1>3, MaxSeqBounds
  <2> QED
    BY <1>3, <2>1
<1>5. /\ PageResponse(pnDB[peer], req).rows = P
      /\ PageResponse(pnDB[peer], req).v2 = MaxSeq(f.v1, P)
  BY <1>1 DEF PageResponse, FetchResponse, P
<1> QED
  BY <1>4, <1>5 DEF Honest, req

(* What is taken for a page without being one has no rows. *)
LEMMA HonestFrames ==
  /\ Honest(NoFrame) /\ Honest(AuthResult(TRUE)) /\ Honest(AuthResult(FALSE))
  /\ Honest(AuthChallenge(ExpiresAt))
  BY NoRows DEF Honest

LEMMA HonestStep ==
  ASSUME ~Pushes, TypeOK, FiniteTables, HonestPages, [Next]_vars
  PROVE  HonestPages'
<1>a. /\ Honest(out) /\ Honest(reply)
      /\ \A n \in Nodes : unpushed[n] = {}
  BY DEF HonestPages
(* The step's frames, given that nothing is stored for a push. *)
<1>b. ASSUME UNCHANGED unpushed,
             \A f \in Range(down') : f \in Range(down) \/ Honest(f),
             Honest(out'), Honest(reply')
      PROVE  HonestPages'
  BY <1>b, <1>a DEF HonestPages, Honest
<1>1. CASE HangUp /\ UNCHANGED unpushed
  BY <1>b, <1>1, NoFrames, HonestFrames DEF HangUp
<1>2. CASE ClientStep /\ ~HangUp
  <2>1. /\ UNCHANGED <<unpushed, out>>
        /\ down' = down \/ (down # <<>> /\ down' = Tail(down))
        /\ reply' = reply \/ (down # <<>> /\ reply' = Head(down))
    BY <1>2 DEF ClientStep, Connect, ReadChallenge, ReadResult, SendFetch,
                ReadResponse, SaveNext, SaveFails, RecordProgress, SendAck,
                StreamEnds, GiveUp, Finish, tables
  <2>2. \A f \in Range(down') : f \in Range(down)
    BY <2>1, QueueSteps
  <2>3. Honest(reply')
    BY <1>a, <2>1, QueueSteps DEF HonestPages
  <2> QED
    BY <1>a, <1>b, <2>1, <2>2, <2>3
<1>3. CASE ClientStep /\ HangUp
  BY <1>1, <1>3 DEF ClientStep, Connect, ReadChallenge, ReadResult, SendFetch,
                ReadResponse, SaveNext, SaveFails, RecordProgress, SendAck,
                StreamEnds, GiveUp, Finish, tables
<1>4. CASE Greet \/ Verify
  <2>1. /\ out' \in {out, NoFrame} /\ UNCHANGED <<unpushed, reply>>
        /\ \E e \in {AuthChallenge(ExpiresAt), AuthResult(TRUE), AuthResult(FALSE)} :
             down' = Append(down, e)
    BY <1>4 DEF Greet, Verify, Return, client, tables
  <2>2. \A f \in Range(down') : f \in Range(down) \/ Honest(f)
    BY <2>1, QueueSteps, FramesWritten, HonestFrames
  <2> QED
    BY <1>a, <1>b, <2>1, <2>2, HonestFrames
<1>5. CASE Register
  BY <1>a, <1>b, <1>5 DEF Register, client, tables
<1>6. CASE Serve
  <2>1. peer \in Nodes /\ Head(up) \in Frame(AllRows)
    BY <1>6, QueueSteps DEF Serve, TypeOK
  <2>2. Honest(out')
    BY <1>6, <2>1, ResponseIsHonest, HonestFrames DEF Serve, Return
  <2>3. UNCHANGED <<down, reply, unpushed>>
    BY <1>6 DEF Serve, client, tables
  <2> QED
    BY <1>a, <1>b, <2>2, <2>3
<1>7. CASE Respond
  <2>1. /\ out \in Frame(AllRows) /\ down' = Append(down, out)
        /\ out' = NoFrame /\ UNCHANGED <<reply, unpushed>>
    BY <1>7 DEF Respond, TypeOK, client, tables
  <2> QED
    BY <1>a, <1>b, <2>1, QueueSteps, HonestFrames
<1>8. ASSUME NEW n \in Nodes,
             SetPersonalNode(n) \/ \E r \in Rows[n] : Store(n, r)
      PROVE  HonestPages'
  BY <1>a, <1>b, <1>8 DEF SetPersonalNode, Store, client, tables
<1>9. ASSUME NEW n \in Nodes, NEW r \in unpushed[n] PROVE FALSE
  BY <1>a, <1>9
<1>10. CASE Reset
  <2>1. down' = <<>> /\ out' = NoFrame /\ UNCHANGED <<reply, unpushed>>
    BY <1>10 DEF Reset, Return, client, tables
  <2> QED
    BY <1>a, <1>b, <2>1, NoFrames, HonestFrames
<1>11. CASE Crash
  BY <1>1, <1>11 DEF Crash, tables
<1>12. CASE UNCHANGED vars
  BY <1>a, <1>b, <1>12 DEF vars
<1> QED
  BY <1>2, <1>3, <1>4, <1>5, <1>6, <1>7, <1>8, <1>9, <1>10, <1>11, <1>12
     DEF Next, ServerStep

LEMMA ProgressChange ==
  [Next]_vars => UNCHANGED lastSynced \/ RecordProgress
  BY DEF Next, vars, tables, ClientStep, ServerStep, Connect, ReadChallenge,
         ReadResult, SendFetch, ReadResponse, SaveNext, SaveFails, SendAck,
         StreamEnds, Greet, Verify, Register, Serve, Respond, SetPersonalNode,
         Store, PushNewMessage, Reset, Crash

(* With one source numbering cannot disagree. *)
LEMMA OneSourceAgrees == OneSource => NumberingAgrees
  BY RowsAssumption DEF OneSource, NumberingAgrees

LEMMA CopyGrows == [Next]_vars => devDB \subseteq devDB'
  BY CopyChange DEF SaveNext, InsertOrIgnore

LEMMA ProgressStep ==
  ASSUME OneSource, SafeInv, FromPeer, HonestPages, ProgressCovered,
         [Next]_vars
  PROVE  ProgressCovered'
<1>0. TypeOK
  BY DEF SafeInv
<1> SUFFICES ASSUME NEW m \in Nodes, Rows[m] # {}
             PROVE  Covered(pnDB'[m], devDB', lastSynced', {})
  BY DEF ProgressCovered
<1>1. CASE RecordProgress /\ lastSynced' # lastSynced
  <2>1. PICK r \in reply.rows : /\ \A x \in reply.rows : x.seq <= r.seq
                                /\ lastSynced' = r.seq
    BY <1>1 DEF RecordProgress
  <2>2. UNCHANGED <<pnDB, devDB>> /\ cpc = "save" /\ todo = {}
    BY <1>1 DEF RecordProgress
  <2>3. peer \in Nodes /\ r \in pnDB[peer] /\ r.seq <= reply.v2
    BY <2>1 DEF FromPeer, PeerHolds, HonestPages, Honest
  <2>4. peer = m
    BY <1>0, <2>3 DEF OneSource, TypeOK
  <2>5. Covered(pnDB[m], devDB, reply.v2, {})
    BY <2>2, <2>4 DEF SafeInv, BatchCovered
  <2>6. /\ \A x \in pnDB[m] : x.seq \in Nat
        /\ reply.v2 \in Nat /\ r.seq \in Nat
    <3>1. \A x \in pnDB[m] : x.seq \in Nat
      BY <1>0, TableFacts
    <3> QED
      BY <1>0, <2>3, <2>4, <3>1 DEF TypeOK, Frame
  <2> QED
    BY <2>1, <2>2, <2>3, <2>4, <2>5, <2>6 DEF Covered
<1>2. CASE UNCHANGED lastSynced
  <2>1. Covered(pnDB[m], devDB, lastSynced, {})
    BY DEF ProgressCovered
  <2>2. Covered(pnDB[m], devDB', lastSynced, {})
    BY <2>1, CopyGrows, CoveredMore
  <2>3. CASE UNCHANGED pnDB
    BY <1>2, <2>2, <2>3
  <2>4. ASSUME NEW n \in Nodes, NEW r \in Rows[n], Store(n, r)
        PROVE  Covered(pnDB'[m], devDB', lastSynced', {})
    <3>1. /\ \A x \in pnDB[n] : x.seq < r.seq
          /\ pnDB' = [pnDB EXCEPT ![n] = InsertOrIgnore(@, r)]
      BY <2>4 DEF Store
    <3>2. \/ pnDB'[m] = pnDB[m]
          \/ m = n /\ pnDB'[m] = pnDB[m] \cup {r}
      <4>1. pnDB'[m] = IF m = n THEN InsertOrIgnore(pnDB[n], r) ELSE pnDB[m]
        BY <1>0, <3>1 DEF TypeOK
      <4> QED
        BY <4>1, InsertOrIgnoreCases
    <3>3. /\ r.seq \in Nat /\ r.seq > 0 /\ lastSynced \in Nat
          /\ \A x \in pnDB[m] : x.seq \in Nat
      <4>1. \A x \in pnDB[m] : x.seq \in Nat
        BY <1>0, TableFacts
      <4>2. r.seq \in Nat /\ r.seq > 0
        BY RowsAssumption
      <4>3. lastSynced \in Nat
        BY <1>0 DEF TypeOK
      <4> QED
        BY <4>1, <4>2, <4>3
    <3>4. CASE m = n /\ pnDB'[m] = pnDB[m] \cup {r}
      BY <1>2, <2>2, <3>1, <3>3, <3>4, CoveredGrows
    <3> QED
      BY <1>2, <2>2, <3>2, <3>4
  <2> QED
    BY <2>3, <2>4, TableChange
<1> QED
  BY <1>1, <1>2, ProgressChange

(* If one node at most stores messages and nothing is pushed, last_synced_seq
   is never ahead of the device's table, wherever a batch, a stream or the
   process breaks off, and although an update of it may be lost. *)
THEOREM ProgressIsCovered ==
  ASSUME OneSource, ~Pushes
  PROVE  Spec => []LastSyncedSaved
<1>1. Init => ProgressInv
  <2> SUFFICES ASSUME Init PROVE ProgressInv
    OBVIOUS
  <2>1. SafeInv /\ FromPeer
    BY SafeInit, CopyInit DEF CopyInv
  <2>2. HonestPages
    BY NoFrames, HonestFrames DEF Init, HonestPages
  <2>3. ProgressCovered
    BY DEF Init, ProgressCovered, Covered
  <2> QED
    BY <2>1, <2>2, <2>3 DEF ProgressInv
<1>2. ProgressInv /\ [Next]_vars => ProgressInv'
  <2> SUFFICES ASSUME ProgressInv, [Next]_vars PROVE ProgressInv'
    OBVIOUS
  <2>1. SafeInv'
    BY SafeStep, OneSourceAgrees DEF ProgressInv
  <2>2. FromPeer' /\ HonestPages'
    BY FromPeerStep, HonestStep DEF ProgressInv, SafeInv
  <2>3. ProgressCovered'
    BY ProgressStep DEF ProgressInv
  <2> QED
    BY <2>1, <2>2, <2>3 DEF ProgressInv
<1>3. ProgressInv => LastSyncedSaved
  <2> SUFFICES ASSUME ProgressInv, NEW n \in Nodes PROVE SavedUpTo(n, lastSynced)
    BY DEF LastSyncedSaved
  <2>1. Rows[n] = {} => pnDB[n] = {}
    BY DEF ProgressInv, SafeInv, TypeOK
  <2> QED
    BY <2>1 DEF ProgressInv, ProgressCovered, Covered, SavedUpTo
<1> QED
  BY <1>1, <1>2, <1>3, PTL DEF Spec

-----------------------------------------------------------------------------
(* A device that waits for a frame. *)

LEMMA OwedStep ==
  ASSUME TypeOK, Handshake, AnswerOwed, [Next]_vars
  PROVE  AnswerOwed'
<1>0. HangUp => AnswerOwed'
  BY DEF HangUp, AnswerOwed
<1>a. /\ \A e \in Frame(AllRows) : Append(up, e) # <<>> /\ Append(down, e) # <<>>
      /\ Len(down) <= 1 /\ down # <<>> => Tail(down) = <<>>
  <2> DEFINE F == Frame(AllRows)
  <2>1. up \in Seq(F) /\ down \in Seq(F)
    BY DEF TypeOK
  <2> HIDE DEF F
  <2>2. \A e \in F : Append(up, e) # <<>> /\ Append(down, e) # <<>>
    BY <2>1
  <2>3. Len(down) <= 1 /\ down # <<>> => Tail(down) = <<>>
    BY <2>1
  <2> QED
    BY <2>2, <2>3 DEF F
<1>1. CASE Connect
  BY <1>1 DEF Connect, TypeOK, AnswerOwed
<1>2. CASE ReadChallenge
  <2>1. CASE HangUp
    BY <1>0, <2>1
  <2>2. CASE ~HangUp
    <3>1. /\ cpc = "challenge" /\ cpc' = "result" /\ spc' = spc
          /\ down # <<>> /\ down' = Tail(down)
          /\ up' = Append(up, AuthResponse(Now))
      BY <1>2, <2>2 DEF ReadChallenge, GiveUp
    <3>2. down' = <<>> /\ spc \in {"verify", "off"}
      BY <1>a, <3>1 DEF Handshake
    <3>3. up' # <<>>
      BY <1>a, <3>1, FramesWritten
    <3> QED
      BY <3>1, <3>2, <3>3 DEF AnswerOwed
  <2> QED
    BY <2>1, <2>2
<1>3. CASE ReadResult
  BY <1>0, <1>3 DEF ReadResult, GiveUp, AnswerOwed
<1>4. CASE SendFetch
  <2>1. up' # <<>>
    BY <1>a, <1>4, FramesWritten DEF SendFetch
  <2> QED
    BY <1>4, <2>1 DEF SendFetch, AnswerOwed
<1>5. CASE ReadResponse
  BY <1>0, <1>5 DEF ReadResponse, Finish, AnswerOwed
<1>6. CASE SaveNext \/ SaveFails \/ RecordProgress
  BY <1>0, <1>6 DEF SaveNext, SaveFails, RecordProgress, Finish, AnswerOwed
<1>7. CASE SendAck
  BY <1>0, <1>7 DEF SendAck, Finish, AnswerOwed
<1>8. CASE StreamEnds \/ Crash
  BY <1>0, <1>8 DEF StreamEnds, Crash, GiveUp, Finish
<1>9. CASE Greet
  <2>1. cpc' = cpc /\ cpc = "challenge" /\ spc' \in {"verify", "off"}
    BY <1>9 DEF Greet, Return, Handshake, client
  <2>2. down' # <<>>
    BY <1>9, <1>a, FramesWritten DEF Greet
  <2> QED
    BY <2>1, <2>2 DEF AnswerOwed
<1>10. CASE Verify
  <2>1. cpc' = cpc /\ cpc = "result" /\ spc' \in {"register", "off"}
    BY <1>10 DEF Verify, Return, AnswerOwed, Handshake, client
  <2>2. down' # <<>>
    BY <1>10, <1>a, FramesWritten DEF Verify
  <2> QED
    BY <2>1, <2>2 DEF AnswerOwed
<1>11. CASE Register
  BY <1>11 DEF Register, AnswerOwed, client
<1>12. CASE Serve
  BY <1>12 DEF Serve, Return, AnswerOwed, client
<1>13. CASE Respond
  <2>1. down' # <<>>
    BY <1>13, <1>a DEF Respond, TypeOK
  <2> QED
    BY <1>13, <2>1 DEF Respond, AnswerOwed, client
<1>14. ASSUME NEW n \in Nodes,
              SetPersonalNode(n) \/ \E r \in Rows[n] : Store(n, r)
       PROVE  AnswerOwed'
  BY <1>14 DEF SetPersonalNode, Store, AnswerOwed, client
<1>15. ASSUME NEW n \in Nodes, NEW r \in unpushed[n], PushNewMessage(n, r)
       PROVE  AnswerOwed'
  <2>1. PushEnvelope(r) \in Frame(AllRows)
    BY FramesWritten DEF TypeOK
  <2>2. UNCHANGED down \/ (Registered /\ down' # <<>>)
    BY <1>15, <1>a, <2>1 DEF PushNewMessage
  <2>3. UNCHANGED <<spc, up, cpc>>
    BY <1>15 DEF PushNewMessage, client
  <2> QED
    BY <2>2, <2>3 DEF AnswerOwed, Registered
<1>16. CASE Reset
  BY <1>16 DEF Reset, Return, AnswerOwed, client
<1>17. CASE UNCHANGED vars
  BY <1>17 DEF vars, AnswerOwed
<1> QED
  BY <1>1, <1>2, <1>3, <1>4, <1>5, <1>6, <1>7, <1>8, <1>9, <1>10, <1>11,
     <1>12, <1>13, <1>14, <1>15, <1>16, <1>17 DEF Next, ClientStep, ServerStep

(* The device and the handler do not both wait for a frame of the other,
   whatever frames are taken for others: the safety half of CycleEnds.  What
   remains are two that both wait for room to write. *)
THEOREM ReadersAreServed == Spec => []ReaderIsServed
<1> DEFINE I == TypeInv /\ Handshake /\ AnswerOwed
<1>1. Init => I
  BY TypeInit, SafeInit DEF Init, SafeInv, AnswerOwed
<1>2. I /\ [Next]_vars => I'
  BY TypeStep, HandshakeStep, OwedStep DEF TypeInv
<1>3. I => ReaderIsServed
  BY DEF TypeInv, TypeOK, Handshake, AnswerOwed, ReaderIsServed
<1> QED
  BY <1>1, <1>2, <1>3, PTL DEF Spec
=============================================================================
