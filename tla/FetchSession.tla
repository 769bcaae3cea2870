---------------------------- MODULE FetchSession ----------------------------
(***************************************************************************)
(* One device syncing with its personal nodes (internal/sync): the         *)
(* SyncEngine goroutine of the device, the HandleSyncStream goroutine that *)
(* serves the device's current stream, the two directions of that stream,  *)
(* and the two message tables behind them.                                 *)
(*                                                                         *)
(* A stream is lost with whatever is in flight on it (Reset), and a device *)
(* may stop and start again (Crash); tables survive both.  The handler of  *)
(* a stream the device has closed writes into nothing and is dropped.      *)
(*                                                                         *)
(* Bounds: MaxFaults caps the failures of a behaviour, ReqCap and RespCap  *)
(* the frames a direction of the stream buffers, PageLimit stands for the  *)
(* 100 messages of a page.                                                 *)
(***************************************************************************)
EXTENDS SyncWire, MessageStore, Sequences, Functions

CONSTANTS
  Nodes,      \* the personal nodes the device may be pointed at
  NoNode,     \* "", the engine's nodeID before SetPersonalNode
  Trusted,    \* the nodes that list this device among their trustedIDs
  Rows,       \* Rows[n]: the rows node n may come to store
  MaxGlobalSeq, \* the largest global_seq, 2^63 - 1 in the code
  PageLimit,  \* most messages in a FetchResponse
  ReqCap,     \* frames the device can write ahead of the node's reads
  RespCap,    \* frames the node can write ahead of the device's reads
  Pushes,     \* whether the nodes call PushNewMessage
  MaxFaults   \* most failures in a behaviour

AllRows == UNION {Rows[n] : n \in Nodes}

ASSUME NodesAssumption == NoNode \notin Nodes /\ Trusted \subseteq Nodes

(* The rows a node syncs have positive int64 sequence numbers, and its own
   table keeps them apart by id and by sequence. *)
ASSUME RowsAssumption ==
  /\ MaxGlobalSeq \in Nat
  /\ \A n \in Nodes : \A r \in Rows[n] : r.seq \in 1..MaxGlobalSeq
  /\ \A n \in Nodes : \A x, y \in Rows[n] : Conflict(x, y) => x = y

ASSUME BoundsAssumption ==
  /\ PageLimit \in Nat \ {0} /\ ReqCap \in Nat \ {0} /\ RespCap \in Nat \ {0}
  /\ Pushes \in BOOLEAN /\ MaxFaults \in Nat

VARIABLES
  node,        \* SyncEngine.nodeID
  peer,        \* the node at the other end of the open stream
  cpc,         \* where the engine goroutine is
  spc,         \* where the stream's handler is
  up, down,    \* frames in flight to the node and to the device
  out,         \* the response the handler is about to write
  reply,       \* the response FetchLoop is working on
  todo,        \* its messages saveBatch has not saved yet
  devDB,       \* the device's messages table
  lastSynced,  \* the device's device_sync_state.last_synced_seq
  pnDB,        \* pnDB[n]: the messages table of node n
  unpushed,    \* unpushed[n]: stored rows PushNewMessage was not called with
  status,      \* the last SyncEvent published
  err,         \* what ended the last cycle that failed
  atStart,     \* history: what the node held when "started" was published
  faults       \* failures so far

client == <<cpc, reply, todo, status, err, atStart>>
tables == <<devDB, lastSynced, pnDB, unpushed>>
vars == <<node, peer, cpc, spc, up, down, out, reply, todo, devDB, lastSynced,
          pnDB, unpushed, status, err, atStart, faults>>

(* A clock reading and an expiry a minute ahead of it; an absent field is
   the epoch. *)
Now == 1
ExpiresAt == 2

NoFrame == Varints(0, 0, 0)

Init ==
  /\ node = NoNode /\ peer = NoNode
  /\ cpc = "idle" /\ spc = "off"
  /\ up = <<>> /\ down = <<>>
  /\ out = NoFrame /\ reply = NoFrame
  /\ todo = {}
  /\ devDB = {} /\ lastSynced = 0
  /\ pnDB = [n \in Nodes |-> {}]
  /\ unpushed = [n \in Nodes |-> {}]
  /\ status = "none" /\ err = "none"
  /\ atStart = {}
  /\ faults = 0

Fault == faults < MaxFaults /\ faults' = faults + 1

(***************************************************************************)
(* The device: SyncEngine.run, syncCycle, Authenticate, FetchLoop.         *)
(***************************************************************************)

(* Slip: no defer rw.Close(). *)
HangUpKeepingStream ==
  /\ cpc' = "idle"
  /\ out' = NoFrame /\ reply' = NoFrame /\ todo' = {}
  /\ UNCHANGED <<peer, spc, up, down>>

(* The stream is closed on the device's side; the engine goes back to its
   loop. *)
HangUp ==
  /\ cpc' = "idle" /\ spc' = "off" /\ peer' = NoNode
  /\ up' = <<>> /\ down' = <<>>
  /\ out' = NoFrame /\ reply' = NoFrame /\ todo' = {}

(* Authenticate returns an error, and syncCycle returns before it has
   published anything. *)
GiveUp(why) == HangUp /\ err' = why /\ UNCHANGED <<status, atStart>>

(* FetchLoop returns: syncCycle publishes how the cycle ended. *)
Finish(how, why) ==
  HangUp /\ status' = how /\ err' = why /\ UNCHANGED atStart

SetPersonalNode(n) ==
  /\ node # n
  /\ node' = n
  /\ UNCHANGED <<peer, spc, up, down, out, client, tables, faults>>

(* run finds a nodeID and starts a cycle: NewStream to that node. *)
Connect ==
  /\ cpc = "idle" /\ node # NoNode
  /\ peer' = node
  /\ cpc' = "challenge" /\ spc' = "greet"
  /\ UNCHANGED <<node, up, down, out, reply, todo, status, err, atStart,
                 tables, faults>>

(* A challenge read after its expiry, as it may be when its delivery took
   more than ChallengeTTL, ends the attempt. *)
ReadChallenge ==
  /\ cpc = "challenge" /\ down # <<>>
  /\ \/ /\ Now > AsAuthChallenge(Head(down)).expiresAt
        /\ GiveUp("challenge expired")
        /\ UNCHANGED faults
     \/ /\ Fault
        /\ GiveUp("challenge expired")
     \/ /\ Now <= AsAuthChallenge(Head(down)).expiresAt
        /\ down' = Tail(down)
        /\ up' = Append(up, AuthResponse(Now))
        /\ cpc' = "result"
        /\ UNCHANGED <<peer, spc, out, reply, todo, status, err, atStart,
                       faults>>
  /\ UNCHANGED <<node, tables>>

(* A positive result ends Authenticate, and syncCycle publishes "started". *)
ReadResult ==
  /\ cpc = "result" /\ down # <<>>
  /\ \/ /\ AsAuthResult(Head(down)).ok
        /\ down' = Tail(down)
        /\ cpc' = "fetch"
        /\ status' = "started"
        /\ atStart' = pnDB[peer]
        /\ UNCHANGED <<peer, spc, up, out, reply, todo, err>>
     \/ /\ ~AsAuthResult(Head(down)).ok
        /\ GiveUp("auth rejected")
  /\ UNCHANGED <<node, tables, faults>>

(* FetchLoop asks for the page after sequence 0, whatever it has. *)
SendFetch ==
  /\ cpc = "fetch" /\ Len(up) < ReqCap
  /\ up' = Append(up, FetchRequest(0, PageLimit))
  /\ cpc' = "response"
  /\ UNCHANGED <<node, peer, spc, down, out, reply, todo, status, err,
                 atStart, tables, faults>>

(* The next frame of the stream is decoded as the response.  One without
   messages needs no saving and no acknowledgement. *)
ReadResponse ==
  /\ cpc = "response" /\ down # <<>>
  /\ LET resp == AsFetchResponse(Head(down)) IN
       \/ /\ resp.messages # {}
          /\ cpc' = "save"
          /\ reply' = Head(down)
          /\ todo' = resp.messages
          /\ down' = Tail(down)
          /\ UNCHANGED <<peer, spc, up, out, status, err, atStart>>
       \/ /\ resp.messages = {}
          /\ IF resp.hasMore
               THEN /\ cpc' = "fetch"
                    /\ down' = Tail(down)
                    /\ UNCHANGED <<peer, spc, up, out, reply, todo, status,
                                   err, atStart>>
               ELSE Finish("completed", err)
  /\ UNCHANGED <<node, tables, faults>>

(* saveBatch saves the next message in a transaction of its own. *)
SaveNext ==
  /\ cpc = "save"
  /\ \E r \in todo :
       /\ \A x \in todo : r.seq <= x.seq
       /\ devDB' = InsertOrIgnore(devDB, r)
       /\ todo' = todo \ {r}
  /\ UNCHANGED <<node, peer, cpc, spc, up, down, out, reply, lastSynced, pnDB,
                 unpushed, status, err, atStart, faults>>

(* Slip: saveBatch's error is not returned. *)
SaveFailsUnnoticed ==
  /\ cpc = "save" /\ todo # {}
  /\ Fault
  /\ todo' = {}
  /\ UNCHANGED <<node, peer, cpc, spc, up, down, out, reply, status, err,
                 atStart, tables>>

SaveFails ==
  /\ cpc = "save" /\ todo # {}
  /\ Fault
  /\ Finish("failed", "save batch")
  /\ UNCHANGED <<node, tables>>

(* saveBatch ends: UpdateLastSeq with the batch's last message, its error
   ignored. *)
RecordProgress ==
  /\ cpc = "save" /\ todo = {}
  /\ \/ /\ \E r \in reply.rows :
             /\ \A x \in reply.rows : x.seq <= r.seq
             /\ lastSynced' = r.seq
        /\ UNCHANGED faults
     \/ /\ Fault
        /\ UNCHANGED lastSynced
  /\ cpc' = "ack"
  /\ UNCHANGED <<node, peer, spc, up, down, out, reply, todo, devDB, pnDB,
                 unpushed, status, err, atStart>>

(* Slip: the sequence of the last message is acknowledged, not max_seq. *)
AckForLastRow(f) == AckRequest(MaxSeq(0, AsFetchResponse(f).messages))

AckFor(f) == AckRequest(AsFetchResponse(f).maxSeq)

(* The acknowledgement is written; without more pages the cycle is over. *)
SendAck ==
  /\ cpc = "ack" /\ Len(up) < ReqCap
  /\ LET resp == AsFetchResponse(reply) IN
       \/ /\ resp.hasMore
          /\ up' = Append(up, AckFor(reply))
          /\ cpc' = "fetch"
          /\ UNCHANGED <<peer, spc, down, out, reply, todo, status, err,
                         atStart>>
       \/ /\ ~resp.hasMore
          /\ Finish("completed", err)
  /\ UNCHANGED <<node, tables, faults>>

(* Slip: an ended stream is taken for the end of the data. *)
StreamEndsQuietly ==
  /\ spc = "off"
  /\ \/ /\ cpc \in {"challenge", "result"} /\ down = <<>>
        /\ GiveUp("stream")
     \/ /\ cpc = "response" /\ down = <<>>
        /\ Finish("completed", err)
  /\ UNCHANGED <<node, tables, faults>>

(* Slip: the response is waited for on a stream that has ended. *)
StreamEndsUnread ==
  /\ spc = "off"
  /\ cpc \in {"challenge", "result"} /\ down = <<>>
  /\ GiveUp("stream")
  /\ UNCHANGED <<node, tables, faults>>

(* A read finds the stream ended, or a write finds it gone. *)
StreamEnds ==
  /\ spc = "off"
  /\ \/ /\ cpc \in {"challenge", "result"} /\ down = <<>>
        /\ GiveUp("stream")
     \/ /\ \/ cpc = "response" /\ down = <<>>
           \/ cpc \in {"fetch", "ack"}
        /\ Finish("failed", "stream")
  /\ UNCHANGED <<node, tables, faults>>

ClientStep ==
  \/ Connect \/ ReadChallenge \/ ReadResult \/ SendFetch \/ ReadResponse
  \/ SaveNext \/ SaveFails \/ RecordProgress \/ SendAck \/ StreamEnds

(***************************************************************************)
(* The node's handler of the stream: HandleSyncStream.                     *)
(***************************************************************************)

(* The handler returns and closes the stream; what it has written can still
   be read. *)
Return == spc' = "off" /\ out' = NoFrame

Greet ==
  /\ spc = "greet" /\ Len(down) < RespCap
  /\ \/ /\ peer \in Trusted
        /\ down' = Append(down, AuthChallenge(ExpiresAt))
        /\ spc' = "verify"
        /\ UNCHANGED out
     \/ /\ peer \notin Trusted
        /\ down' = Append(down, AuthResult(FALSE))
        /\ Return
  /\ UNCHANGED <<node, peer, up, client, tables, faults>>

(* The signature over the nonce is checked; a bad one is a failure. *)
Verify ==
  /\ spc = "verify" /\ up # <<>> /\ Len(down) < RespCap
  /\ up' = Tail(up)
  /\ \/ /\ down' = Append(down, AuthResult(TRUE))
        /\ spc' = "register"
        /\ UNCHANGED <<out, faults>>
     \/ /\ Fault
        /\ down' = Append(down, AuthResult(FALSE))
        /\ Return
  /\ UNCHANGED <<node, peer, client, tables>>

(* The stream enters the sessions map: from here on it is pushed to. *)
Register ==
  /\ spc = "register"
  /\ spc' = "serve"
  /\ UNCHANGED <<node, peer, up, down, out, client, tables, faults>>

Registered == spc \in {"serve", "write"}

EffectiveLimit(limit) ==
  IF limit = 0 \/ limit > PageLimit THEN PageLimit ELSE limit

Page(db, req) == GetSince(db, req.afterSeq, EffectiveLimit(req.limit))

(* Slip: has_more only when the page is longer than the limit. *)
PageResponseShort(db, req) ==
  FetchResponse(Page(db, req),
                MaxSeq(req.afterSeq, Page(db, req)),
                Cardinality(Page(db, req)) > EffectiveLimit(req.limit))

(* The response handleFetch builds from the table as it is now. *)
PageResponse(db, req) ==
  FetchResponse(Page(db, req),
                MaxSeq(req.afterSeq, Page(db, req)),
                Cardinality(Page(db, req)) = EffectiveLimit(req.limit))

(* The main loop takes the next frame as a FetchRequest and queries; a
   failing query ends the handler. *)
Serve ==
  /\ spc = "serve" /\ up # <<>>
  /\ up' = Tail(up)
  /\ \/ /\ out' = PageResponse(pnDB[peer], AsFetchRequest(Head(up)))
        /\ spc' = "write"
        /\ UNCHANGED faults
     \/ Fault /\ Return
  /\ UNCHANGED <<node, peer, down, client, tables>>

Respond ==
  /\ spc = "write" /\ Len(down) < RespCap
  /\ down' = Append(down, out)
  /\ out' = NoFrame
  /\ spc' = "serve"
  /\ UNCHANGED <<node, peer, up, client, tables, faults>>

ServerStep == Greet \/ Verify \/ Register \/ Serve \/ Respond

(***************************************************************************)
(* Around them: rows reach the nodes in the order of their sequence, are   *)
(* pushed or not, and things break.                                        *)
(***************************************************************************)

(* Save on the node of a row numbered after all those it holds. *)
Store(n, r) ==
  /\ r \in Rows[n]
  /\ \A x \in pnDB[n] : x.seq < r.seq
  /\ pnDB' = [pnDB EXCEPT ![n] = InsertOrIgnore(@, r)]
  /\ unpushed' = IF Pushes THEN [unpushed EXCEPT ![n] = @ \cup {r}]
                           ELSE unpushed
  /\ UNCHANGED <<node, peer, spc, up, down, out, client, devDB, lastSynced,
                 faults>>

(* PushNewMessage with a stored row: it goes to the device's stream if that
   is registered and to nobody otherwise.  A full stream holds the caller. *)
PushNewMessage(n, r) ==
  /\ r \in unpushed[n]
  /\ unpushed' = [unpushed EXCEPT ![n] = @ \ {r}]
  /\ \/ /\ peer = n /\ Registered /\ Len(down) < RespCap
        /\ down' = Append(down, PushEnvelope(r))
     \/ /\ ~(peer = n /\ Registered)
        /\ UNCHANGED down
  /\ UNCHANGED <<node, peer, spc, up, out, client, devDB, lastSynced, pnDB,
                 faults>>

(* The connection breaks, or the node stops. *)
Reset ==
  /\ peer # NoNode /\ Fault
  /\ Return
  /\ up' = <<>> /\ down' = <<>>
  /\ UNCHANGED <<node, peer, client, tables>>

(* The device's process stops; only its tables are there when it starts
   again. *)
Crash ==
  /\ Fault
  /\ HangUp
  /\ node' = NoNode
  /\ status' = "none" /\ err' = "none"
  /\ UNCHANGED <<atStart, tables>>

Next ==
  \/ ClientStep
  \/ ServerStep
  \/ \E n \in Nodes : SetPersonalNode(n)
  \/ \E n \in Nodes : \E r \in Rows[n] : Store(n, r)
  \/ \E n \in Nodes : \E r \in unpushed[n] : PushNewMessage(n, r)
  \/ Reset
  \/ Crash

Spec == Init /\ [][Next]_vars

(* Each of the two goroutines goes on as long as it can. *)
FairSpec == Spec /\ WF_vars(ClientStep) /\ WF_vars(ServerStep)

-----------------------------------------------------------------------------
(***************************************************************************)
(* Properties.                                                             *)
(***************************************************************************)

ClientStates ==
  {"idle", "challenge", "result", "fetch", "response", "save", "ack"}

ServerStates ==
  {"off", "greet", "verify", "register", "serve", "write"}

(* The type invariant: every variable holds a value the code could hold. *)
TypeOK ==
  /\ node \in Nodes \cup {NoNode} /\ peer \in Nodes \cup {NoNode}
  /\ cpc \in ClientStates /\ spc \in ServerStates
  /\ (cpc = "idle") = (peer = NoNode) /\ (cpc = "idle" => spc = "off")
  /\ up \in Seq(Frame(AllRows)) /\ down \in Seq(Frame(AllRows))
  /\ out \in Frame(AllRows) /\ reply \in Frame(AllRows)
  /\ todo \in SUBSET AllRows
  /\ devDB \in SUBSET AllRows /\ lastSynced \in Nat
  /\ pnDB \in [Nodes -> SUBSET AllRows]
  /\ unpushed \in [Nodes -> SUBSET AllRows]
  /\ \A n \in Nodes : pnDB[n] \subseteq Rows[n] /\ unpushed[n] \subseteq pnDB[n]
  /\ status \in {"none", "started", "completed", "failed"}
  /\ err \in {"none", "challenge expired", "auth rejected", "stream",
              "save batch"}
  /\ atStart \in SUBSET AllRows
  /\ faults \in 0..MaxFaults

(* Different nodes never give one id two sequence numbers, or one sequence
   number to two messages.  The code does nothing to make this so. *)
NumberingAgrees ==
  \A m, n \in Nodes : \A x \in Rows[m] : \A y \in Rows[n] :
    Conflict(x, y) => x = y

(* The device has every row of node n numbered up to s. *)
SavedUpTo(n, s) == \A r \in pnDB[n] : r.seq <= s => r \in devDB

(* An acknowledgement in flight or about to be written, and any position the
   device asks to read from, covers only rows the device has saved: FetchLoop
   acknowledges max_seq after saveBatch, "highest sequence successfully saved
   by client".  It holds whatever the device reads as a response, pushes
   included. *)
AckedRowsSaved ==
  /\ \A f \in Range(up) : SavedUpTo(peer, AsFetchRequest(f).afterSeq)
  /\ cpc = "ack" => SavedUpTo(peer, AsFetchRequest(AckFor(reply)).afterSeq)

(* A cycle that published "completed" has saved everything its node held
   when it published "started".  It holds when nothing is pushed. *)
CompletedMeansCaughtUp == status = "completed" => atStart \subseteq devDB

(* device_sync_state is no further than the table: every row of the node
   numbered up to last_synced_seq is saved, whatever page came last.  It
   holds for a device with one node that is pushed nothing. *)
LastSyncedSaved == \A n \in Nodes : SavedUpTo(n, lastSynced)

(* The detailed system keeps the promise of a sync cycle. *)
Promise == INSTANCE SyncPromise WITH held <- pnDB, copy <- devDB,
                                     goal <- atStart
PromiseKept == Promise!Spec

(* A row the configured node holds reaches the device unless the device is
   pointed elsewhere, however many pages, acknowledgements read as requests
   and broken streams are in between. *)
EventuallyCopied ==
  \A n \in Trusted : \A r \in Rows[n] :
    (node = n /\ r \in pnDB[n]) ~> (r \in devDB \/ node # n)

(* A cycle that has started ends. *)
CycleEnds == (status = "started") ~> (status # "started")

-----------------------------------------------------------------------------
(***************************************************************************)
(* What the documents and comments of the repository say and the code does *)
(* not do.  README.md names the instance that violates each of them.       *)
(***************************************************************************)

(* Each request is answered before the next one is written, and an
   acknowledgement is not answered with messages: at most one page is on
   its way to the device. *)
OnePageInFlight ==
  Cardinality({i \in 1..Len(down) : down[i].rows # {}}) <= 1

(* The second fetch of a session continues after the first: while the device
   still lacks rows, a further batch has some that it did not have. *)
BatchesMakeProgress ==
  [][cpc = "response" /\ cpc' = "save"
       /\ reply.rows # {} /\ ~(atStart \subseteq devDB)
       => ~(reply'.rows \subseteq devDB)]_vars

(* A device that no node trusts, and whose connection is sound, is told that
   it is not registered. *)
RejectionIsNamed ==
  Trusted = {} /\ faults = 0 => err \in {"none", "auth rejected"}
=============================================================================
